------------------------------ MODULE JuliaWire -----------------------------
(***************************************************************************)
(* What the IDE and the Julia process share: the child process, its         *)
(* standard output and the TCP connection.  Operating system and Qt/libuv   *)
(* behaviour, modelled from how the two sides use it.                       *)
(***************************************************************************)
EXTENDS JuliaMsg

VARIABLES
  process,     \* the QProcess: "alive" or "dead"
  stdout,      \* tokens Julia has printed and the IDE has not read
  toJulia,     \* requests written to the socket and not read by Julia
  fromJulia    \* pieces of replies written by Julia and not read by the IDE

wireVars == <<process, stdout, toJulia, fromJulia>>

\* TCP delivers a written reply in one piece or in several: piece number "part"
\* of "parts".  The IDE parses whatever bytes one readyRead finds.
Piece == [reply : Reply, part : 1..2, parts : 1..2]

Pieces(rep, n) == [i \in 1..n |-> [reply |-> rep, part |-> i, parts |-> n]]

\* The bytes of ps are one JSON document iff they are all the pieces of one reply.
IsDocument(ps) ==
  /\ Len(ps) = ps[1].parts
  /\ ps = Pieces(ps[1].reply, Len(ps))

WireTypeOK ==
  /\ process \in {"alive", "dead"}
  /\ stdout \in Seq({"PORT", "text"})
  /\ toJulia \in Seq(Request)
  /\ fromJulia \in Seq(Piece)
=============================================================================
