--------------------------- MODULE DurableHistory ---------------------------
(***************************************************************************)
(* What a session promises about its history: what the host shows between  *)
(* turns is exactly what a restart would load, marks included; whatever a  *)
(* turn could not make durable is given up with the session's hot copy,    *)
(* never shown; and nothing is written once a turn has settled.            *)
(***************************************************************************)
EXTENDS Naturals, Sequences

CONSTANTS
  MaxEntries,  \* bound on entries ever created
  Marks        \* what a compaction leaves on an entry

Ids == 1 .. MaxEntries

VARIABLES
  phase,   \* where the session is
  disk,    \* entries of the thread in the store
  marked,  \* their marks in the store
  shown,   \* entries the host holds between turns
  draft,   \* entries of the running turn
  intent   \* the marks that the running turn sees

vars == <<phase, disk, marked, shown, draft, intent>>

Phases == {"closed", "rest", "turn", "doomed", "kept", "lost"}

Extends(longer, shorter) ==
  /\ Len(shorter) <= Len(longer)
  /\ SubSeq(longer, 1, Len(shorter)) = shorter

\* Nothing of a turn is left when none runs.
NoTurn == draft' = << >> /\ intent' = marked'

Init ==
  /\ phase = "closed"
  /\ disk = << >> /\ shown = << >> /\ draft = << >>
  /\ marked \in [Ids -> Marks] /\ intent = marked

Load ==
  /\ phase = "closed"
  /\ phase' = "rest"
  /\ shown' = disk
  /\ UNCHANGED <<disk, marked, draft, intent>>

Begin ==
  /\ phase = "rest"
  /\ phase' = "turn"
  /\ draft' = shown
  /\ intent' = marked
  /\ UNCHANGED <<disk, marked, shown>>

\* The turn goes on: entries are added, marks are set.
Work ==
  /\ phase = "turn"
  /\ draft' \in Seq(Ids) /\ Extends(draft', draft)
  /\ intent' \in [Ids -> Marks]
  /\ UNCHANGED <<phase, disk, marked, shown>>

\* A part of the turn becomes durable, in its order.
Persist ==
  /\ phase \in {"turn", "doomed"}
  /\ disk' \in Seq(Ids) /\ Extends(disk', disk) /\ Extends(draft, disk')
  /\ marked' \in [Ids -> Marks]
  /\ \A i \in Ids : marked'[i] \in {marked[i], intent[i]}
  /\ UNCHANGED <<phase, shown, draft, intent>>

\* A compaction: all its marks and its summary at once, here and on disk.
Compact ==
  /\ phase = "turn"
  /\ disk = draft /\ marked = intent
  /\ \E s \in Ids : disk' = Append(disk, s) /\ draft' = disk'
  /\ marked' \in [Ids -> Marks] /\ intent' = marked'
  /\ UNCHANGED <<phase, shown>>

\* The turn cannot know what of its compaction is durable.
Doom ==
  /\ phase = "turn"
  /\ phase' = "doomed"
  /\ \/ UNCHANGED <<disk, marked>>
     \/ /\ disk = draft /\ marked = intent
        /\ \E s \in Ids : disk' = Append(disk, s)
        /\ marked' \in [Ids -> Marks]
  /\ UNCHANGED <<shown, draft, intent>>

Settle ==
  \/ /\ phase = "turn" /\ phase' = "kept"
     /\ disk = draft /\ marked = intent
     /\ UNCHANGED <<disk, marked, shown, draft, intent>>
  \/ /\ phase \in {"turn", "doomed"} /\ phase' = "lost"
     /\ UNCHANGED <<disk, marked, shown, draft, intent>>

Adopt ==
  /\ phase = "kept"
  /\ phase' = "rest"
  /\ shown' = draft
  /\ NoTurn
  /\ UNCHANGED <<disk, marked>>

\* The hot copy is given up: by a lost turn, or by the end of the process.
GiveUp ==
  /\ phase' = "closed"
  /\ shown' = << >>
  /\ NoTurn
  /\ UNCHANGED <<disk, marked>>

Next == Load \/ Begin \/ Work \/ Persist \/ Compact \/ Doom \/ Settle \/ Adopt \/ GiveUp

Spec == Init /\ [][Next]_vars
=============================================================================
