----------------------------- MODULE TokenLock ------------------------------
(***************************************************************************)
(* What a lock made of a token in Redis promises to whoever uses it: a     *)
(* party that got the lock keeps it until it gives it back.  The token may *)
(* expire under it only if a call has failed or somebody came late.        *)
(***************************************************************************)
CONSTANT Parties

VARIABLES
  word,    \* the party whose token is stored, "free", or "orphan": a token
           \* nobody will delete, which expires
  phase,   \* per party: "out", "in", or "leaving" while it gives the lock back
  faulty   \* a call has failed or somebody came late

lockVars == <<word, phase, faulty>>

Enter(c, p) == phase' = [phase EXCEPT ![c] = p]

Remembers == faulty => faulty'

Init ==
  /\ word   = "free"
  /\ phase  = [c \in Parties |-> "out"]
  /\ faulty = FALSE

Take(c) ==
  /\ phase[c] = "out" /\ word = "free"
  /\ word' = c /\ Enter(c, "in")
  /\ Remembers

\* The token is stored, the party that asked does not hear of it.
Lose == word = "free" /\ word' = "orphan" /\ UNCHANGED phase /\ faulty'

Leave(c) == phase[c] = "in" /\ Enter(c, "leaving") /\ UNCHANGED word /\ Remembers

\* Nobody else's token is deleted.
Return(c) ==
  /\ phase[c] = "leaving" /\ Enter(c, "out")
  /\ word' = IF word = c THEN "free" ELSE word
  /\ Remembers

\* The token could not be deleted.
Abandon(c) ==
  /\ phase[c] = "leaving" /\ Enter(c, "out")
  /\ word' = IF word = c THEN "orphan" ELSE word
  /\ faulty'

Lapse(c) ==
  /\ word = c /\ word' = "free" /\ UNCHANGED phase
  /\ phase[c] = "in" => faulty'
  /\ Remembers

Expire == word = "orphan" /\ word' = "free" /\ UNCHANGED phase /\ Remembers

\* The parties start over, what is stored stays.
Restart ==
  /\ phase' = [c \in Parties |-> "out"]
  /\ word' = IF word = "free" THEN "free" ELSE "orphan"
  /\ Remembers

Disturb == faulty' /\ UNCHANGED <<word, phase>>

Next ==
  \/ \E c \in Parties : Take(c) \/ Leave(c) \/ Return(c) \/ Abandon(c) \/ Lapse(c)
  \/ Lose \/ Expire \/ Restart \/ Disturb

Spec == Init /\ [][Next]_lockVars

\* What a user of the lock relies on: while nothing failed and nobody was late,
\* whoever is in holds the token, and so nobody else is in.
HoldersAreIn == ~faulty => \A c \in Parties : phase[c] = "in" => word = c

=============================================================================
