-------------------------------- MODULE TextLife --------------------------------
(***************************************************************************)
(* What becomes of a text that is sent off: where it is, and what the      *)
(* reader sees of it.  There are no queues, packets or rows here, and each *)
(* text has a life of its own.  It is kept by its author's browser until   *)
(* the server takes it or the author is told that it was given up; what    *)
(* the server has taken is stored once or dropped, and the reader sees the *)
(* message only when it is stored, and from then on.  The exceptions are   *)
(* in the open: a text that the browser no longer holds may reach the      *)
(* server yet (adrift) or be lost, and one that the browser sent again     *)
(* without knowing of the first time (doubtful) is promised nothing but    *)
(* that what the reader has seen stays.                                    *)
(***************************************************************************)
CONSTANT Texts

VARIABLES
  life,   \* life[t]: where the text is
  shown   \* shown[t]: what the reader's screen has of it

vars == <<life, shown>>

Lives == {"new", "kept", "adrift", "lost", "told", "taken", "stored", "dropped", "doubtful"}
Views == {"nothing", "draft", "message"}

Init ==
  /\ life = [t \in Texts |-> "new"]
  /\ shown = [t \in Texts |-> "nothing"]

Goes(t, from, to) == life[t] \in from /\ life'[t] = to
SameLife(t) == life'[t] = life[t]
SameView(t) == shown'[t] = shown[t]
DraftGoes(t) == shown[t] = "draft" /\ shown'[t] = "nothing"

Write(t)  == Goes(t, {"new"}, "kept") /\ SameView(t)
Take(t)   == Goes(t, {"kept", "adrift"}, "taken") /\ SameView(t)
GiveUp(t) == Goes(t, {"kept"}, "told") /\ SameView(t)
Escape(t) == Goes(t, {"kept"}, "adrift") /\ SameView(t)
Lose(t)   == Goes(t, {"kept", "adrift"}, "lost") /\ SameView(t)

Store(t) ==
  /\ Goes(t, {"taken"}, "stored")
  /\ SameView(t) \/ DraftGoes(t) \/ shown'[t] = "message"

Drop(t) ==
  /\ Goes(t, {"taken"}, "dropped")
  /\ SameView(t) \/ DraftGoes(t)

ShowDraft(t) ==
  /\ life[t] \in {"taken", "stored", "dropped"}
  /\ SameLife(t)
  /\ shown[t] = "nothing" /\ shown'[t] = "draft"

\* The browser sends what it still holds again, though the server may have it.
Doubt(t) == Goes(t, {"kept", "taken", "stored", "dropped"}, "doubtful") /\ SameView(t)

Repeat(t) ==
  /\ life[t] = "doubtful" /\ SameLife(t)
  /\ shown[t] = "message" => SameView(t)

LivesOn(t) ==
  \/ SameLife(t) /\ SameView(t)
  \/ Write(t) \/ Take(t) \/ GiveUp(t) \/ Escape(t) \/ Lose(t)
  \/ Store(t) \/ Drop(t) \/ ShowDraft(t) \/ Doubt(t) \/ Repeat(t)

\* Several texts may move in one step, as when a page is reloaded or a server stops.
Next ==
  /\ life' \in [Texts -> Lives]
  /\ shown' \in [Texts -> Views]
  /\ \A t \in Texts : LivesOn(t)

Spec == Init /\ [][Next]_vars
=================================================================================
