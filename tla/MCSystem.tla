------------------------------ MODULE MCSystem ------------------------------
(***************************************************************************)
(* Small instances of System for TLC.                                      *)
(***************************************************************************)
EXTENDS Claims, Inductive

CONSTANTS e1, e2, i1, i2, a, p, capitalA, long, short

GetLine(k)    == [operation |-> "GET_OP", key |-> k, value |-> long]
SetLine(k, v) == [operation |-> "SET_OP", key |-> k, value |-> v]
StoreLine(k)  == [operation |-> "STORE_OP", key |-> k, value |-> long]
BadLine       == [operation |-> "invalid", key |-> a, value |-> long]

\* Each may have to wait for the other's key a, and both for p at once,
\* which the configuration blocks.  The last line of one does not parse.
ContentionScript ==
  [e \in ESI |->
     IF e = e1
       THEN <<GetLine(a), SetLine(a, long), GetLine(p), StoreLine(a), StoreLine(p)>>
       ELSE <<GetLine(a), SetLine(a, short), StoreLine(a), GetLine(p), BadLine>>]
\* The same without the values, for the runs about the console.
ConsoleScript ==
  [e \in ESI |->
     IF e = e1 THEN <<GetLine(a), GetLine(p), StoreLine(a), StoreLine(p)>>
               ELSE <<GetLine(a), StoreLine(a), GetLine(p), StoreLine(p)>>]
\* Both wait for p at once: who is woken first makes the other wait again.
HerdScript == [e \in ESI |-> <<GetLine(p), StoreLine(p)>>]
\* One ESI with two keys, in the blocks of one Instance or of two; its last
\* line changes a key that it has given back.
TwoKeysScript ==
  [e \in ESI |-> <<GetLine(a), GetLine(p), SetLine(p, short), SetLine(a, long),
                  StoreLine(a), StoreLine(p), SetLine(a, short)>>]

PBlocked == <<p>>
NoneBlocked == <<>>

\* What goes wrong with scripts: a last line without its newline, which the
\* planner allows or refuses after the ESI is gone; a STORE that reaches an
\* Instance without the key; a short value that cuts the name of its ESI.
FaultyScript ==
  [e \in ESI |->
     IF e = e1
       THEN <<GetLine(a), GetLine(p)>>
       ELSE <<GetLine(a), StoreLine(a), SetLine(p, short)>>]

Capitals == [k \in Key |-> IF k = capitalA THEN a ELSE k]

Quit        == [name |-> "salir"]
EndInput    == [name |-> "end of input"]
Pause       == [name |-> "pausar"]
Deadlock    == [name |-> "deadlock"]
BlockA      == [name |-> "bloquear", key |-> a, id |-> 0]
BlockInCapitals == [name |-> "bloquear", key |-> capitalA, id |-> 0]
UnblockP    == [name |-> "desbloquear", key |-> p]
UnblockA    == [name |-> "desbloquear", key |-> a]

OnlyUnblockP == {UnblockP}
OnlyPause    == {Pause}
UnblockAny   == {UnblockP, UnblockA}
\* "deadlock" resumes a paused planner.
ConsoleCommands == {Pause, Deadlock, BlockInCapitals, UnblockP, UnblockA}
RaceCommands    == {Quit, EndInput, Pause, BlockA, UnblockP, UnblockA}

\* The scripts of the run "orderly" are of the kind that the theorems are about.
ASSUME ContentionAssumption == Script = ContentionScript => StoredOnce
=============================================================================
