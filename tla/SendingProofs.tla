---------------------------- MODULE SendingProofs ----------------------------
(***************************************************************************)
(* Proofs about MessageSending and AttachmentQueue: the author's queues hold *)
(* every text that was sent off, a text is stored once unless it was sent    *)
(* again in doubt, the reader's screen follows the rows, and a file becomes  *)
(* one message unless an answer about it was lost.                          *)
(*                                                                         *)
(* The invariant says where a text may be: in the queue in memory (once),   *)
(* in the offline queue, or in the copy that a flush works through; how the  *)
(* copies and the offline queue, which the end of a flush overwrites, agree;  *)
(* and how many packets and rows a text has while it waits in one of them.   *)
(* A step is one of a few moves of a text - from the queue to the offline    *)
(* queue, out of the queue, through a flush - and each move keeps it.  With  *)
(* what may still happen to a text that was concluded (LifeInv) it follows   *)
(* that each text has the life that TextLife promises.                       *)
(*                                                                         *)
(* The second part, about attachments, is in the same way about one file at  *)
(* a time: its task, its session, and the requests about it.                *)
(***************************************************************************)
EXTENDS MCSending, FiniteSetTheorems, SequenceTheorems, TLAPS

-----------------------------------------------------------------------------
(* Sequences without repetition                                            *)

LEMMA NoneTold ==
  /\ <<>> \in Seq(Texts) /\ ToSet(<<>>) = {} /\ IsInjective(<<>>)
  BY DEF ToSet, IsInjective

LEMMA OneTold ==
  ASSUME NEW t \in Texts
  PROVE  <<t>> \in Seq(Texts) /\ ToSet(<<t>>) = {t} /\ IsInjective(<<t>>) /\ Head(<<t>>) = t
         /\ Tail(<<t>>) = <<>>
  BY DEF ToSet, IsInjective

LEMMA ToldBounds ==
  ASSUME NEW s \in Seq(Texts)
  PROVE  ToSet(s) \subseteq Texts /\ (ToSet(s) = {} <=> s = <<>>)
  BY EmptySeq DEF ToSet

LEMMA AppendTold ==
  ASSUME NEW s \in Seq(Texts), NEW t \in Texts
  PROVE  /\ Append(s, t) \in Seq(Texts) /\ ToSet(Append(s, t)) = ToSet(s) \cup {t}
         /\ IsInjective(s) /\ t \notin ToSet(s) => IsInjective(Append(s, t))
<1>1. /\ Append(s, t) \in Seq(Texts) /\ DOMAIN Append(s, t) = 1 .. Len(s) + 1
      /\ \A i \in 1 .. Len(s) : Append(s, t)[i] = s[i]
      /\ Append(s, t)[Len(s) + 1] = t /\ DOMAIN s = 1 .. Len(s) /\ Len(s) \in Nat
  BY AppendProperties, LenProperties
<1>2. ToSet(Append(s, t)) = ToSet(s) \cup {t}
  BY <1>1 DEF ToSet
<1>3. IsInjective(s) /\ t \notin ToSet(s) => IsInjective(Append(s, t))
  BY <1>1 DEF IsInjective, ToSet
<1>4. QED
  BY <1>1, <1>2, <1>3

LEMMA TailTold ==
  ASSUME NEW s \in Seq(Texts), s # <<>>
  PROVE  /\ Head(s) \in Texts /\ Tail(s) \in Seq(Texts)
         /\ ToSet(s) = ToSet(Tail(s)) \cup {Head(s)}
         /\ IsInjective(s) => IsInjective(Tail(s)) /\ Head(s) \notin ToSet(Tail(s))
<1>1. /\ Head(s) \in Texts /\ Tail(s) \in Seq(Texts) /\ Len(s) \in Nat \ {0}
      /\ Len(Tail(s)) = Len(s) - 1 /\ \A i \in 1 .. Len(Tail(s)) : Tail(s)[i] = s[i + 1]
      /\ Head(s) = s[1] /\ DOMAIN s = 1 .. Len(s) /\ DOMAIN Tail(s) = 1 .. Len(s) - 1
  BY HeadTailProperties, LenProperties, EmptySeq
<1>2. ToSet(s) = ToSet(Tail(s)) \cup {Head(s)}
  <2>1. ASSUME NEW x \in ToSet(s) PROVE x \in ToSet(Tail(s)) \cup {Head(s)}
    <3>1. PICK i \in 1 .. Len(s) : x = s[i]
      BY <1>1, <2>1 DEF ToSet
    <3>2. CASE i = 1
      BY <1>1, <3>1, <3>2
    <3>3. CASE i # 1
      <4>1. i - 1 \in 1 .. Len(s) - 1 /\ s[i] = Tail(s)[i - 1]
        BY <1>1, <3>3
      <4>2. QED
        BY <1>1, <3>1, <4>1 DEF ToSet
    <3>4. QED
      BY <3>2, <3>3
  <2>2. ASSUME NEW x \in ToSet(Tail(s)) \cup {Head(s)} PROVE x \in ToSet(s)
    BY <1>1 DEF ToSet
  <2>3. QED
    BY <2>1, <2>2
<1>3. ASSUME IsInjective(s) PROVE IsInjective(Tail(s)) /\ Head(s) \notin ToSet(Tail(s))
  <2>1. ASSUME NEW i \in 1 .. Len(s) - 1, NEW j \in 1 .. Len(s) - 1, Tail(s)[i] = Tail(s)[j]
        PROVE  i = j
    <3>1. i + 1 \in DOMAIN s /\ j + 1 \in DOMAIN s /\ s[i + 1] = s[j + 1]
      BY <1>1, <2>1
    <3>2. i + 1 = j + 1
      BY <1>3, <3>1 DEF IsInjective
    <3>3. QED
      BY <1>1, <3>2
  <2>2. ASSUME NEW i \in 1 .. Len(s) - 1, Tail(s)[i] = Head(s) PROVE FALSE
    <3>1. i + 1 \in DOMAIN s /\ 1 \in DOMAIN s /\ s[i + 1] = s[1]
      BY <1>1, <2>2
    <3>2. i + 1 = 1
      BY <1>3, <3>1 DEF IsInjective
    <3>3. QED
      BY <1>1, <3>2
  <2>3. QED
    BY <1>1, <2>1, <2>2 DEF IsInjective, ToSet
<1>4. QED
  BY <1>1, <1>2, <1>3

-----------------------------------------------------------------------------
(* The invariant                                                           *)

\* A text may vanish for one of these reasons.
Excused == accepted \cup reported \cup reloaded \cup overtaken

\* The queue in memory, and what a flush took from the offline queue and still answers for.
Queued == ToSet(outgoing) \cup ToSet(active)
Copy(f) == ToSet(flush[f].todo) \cup ToSet(flush[f].keep)
Stored == ToSet(offline)

CallRow == [at : {"none", "buffered", "sent", "lost"}, text : Texts]
FlushRow == [at : {"idle", "encrypting", "calling"}, todo : Seq(Texts), keep : Seq(Texts)]
Bubbles == [Texts -> {"none", "queued", "queued-offline", "sending"}]

\* A lost packet was counted when its connection was cut or its deadline passed.
LateIsCounted == \A t \in Texts : late[t] <= troubles + failures

\* Every text is written once: it is in the queue in memory once, and then never again;
\* the queue's call is about the text that is on its way.
QueueOK ==
  /\ active = <<>> => outgoing = <<>>
  /\ IsInjective(outgoing) /\ ToSet(active) \cap ToSet(outgoing) = {}
  /\ Queued \subseteq written /\ Stored \subseteq written
  /\ Queued \cap Stored = {}
  /\ calls["queue"].at # "none" => active = <<calls["queue"].text>>

\* A flush has every text of its copy once.
CopyOK(r) ==
  /\ r.at = "idle" => r = Idle
  /\ r.at # "idle" => r.todo # <<>>
  /\ IsInjective(r.todo) /\ IsInjective(r.keep)
  /\ ToSet(r.todo) \cap ToSet(r.keep) = {}

FlushOK(f) ==
  /\ CopyOK(flush[f])
  /\ Copy(f) \subseteq written /\ Copy(f) \cap Queued = {}
  /\ calls[f].at # "none" => flush[f].at = "calling" /\ calls[f].text = Head(flush[f].todo)

FlushesOK == \A f \in Flushes : FlushOK(f)

\* The end of a flush, which overwrites the queue, drops nothing but what is excused.
CopiesAgree ==
  \A f \in Flushing : \A t \in Texts \ Excused : t \in Stored <=> t \in Copy(f)

\* The packets of a text that may still be stored, and its rows.
Sent(t) == late[t] + saving[t] + rows[t]
Lost(c, t) == calls[c].at = "lost" /\ calls[c].text = t

\* A text still waiting in a queue has not been sent, or its packet's connection was cut;
\* without a doubt about it, it is in one flush at most, and it is stored once at most.
OnceOK(t) ==
  /\ Sent(t) > 0 => t \in written
  /\ t \in Queued => Sent(t) = 0 \/ (Sent(t) = 1 /\ Lost("queue", t))
  /\ t \notin doubtful =>
       /\ Sent(t) <= 1
       /\ \A f, g \in Flushes : t \in Copy(f) /\ t \in Copy(g) => f = g
       /\ \A f \in Flushes : t \in Copy(f) => Sent(t) = 0 \/ Lost(f, t)
       /\ t \in Stored => Sent(t) = 0 \/ Flushing # {}

AllOnce == \A t \in Texts : OnceOK(t)

\* The reader's screen has the stored messages, and drafts of those being stored.
ScreenOK ==
  ~missed => \A t \in Texts : /\ seen[t] + unannounced[t] = rows[t]
                              /\ t \in (frame \cup drafts) \ raced => saving[t] > 0

QueuesOK == QueueOK /\ FlushesOK /\ CopiesAgree /\ AllOnce /\ NoTextVanishes


-----------------------------------------------------------------------------
(* Types                                                                   *)

Typed ==
  /\ up \in BOOLEAN /\ onLine \in BOOLEAN /\ watching \in BOOLEAN /\ missed \in BOOLEAN
  /\ outgoing \in Seq(Texts) /\ offline \in Seq(Texts) /\ IsInjective(offline)
  /\ active \in {<<>>} \cup {<<t>> : t \in Texts}
  /\ flush \in [Flushes -> FlushRow] /\ calls \in [Callers -> CallRow]
  /\ late \in [Texts -> 0 .. MaxTroubles + MaxFailures]
  /\ saving \in [Texts -> Nat] /\ rows \in [Texts -> Nat] /\ seen \in [Texts -> Nat]
  /\ unannounced \in [Texts -> Nat] /\ bubble \in Bubbles
  /\ frame \subseteq Texts /\ drafts \subseteq Texts /\ written \subseteq Texts
  /\ accepted \subseteq Texts /\ reported \subseteq Texts /\ reloaded \subseteq Texts
  /\ overtaken \subseteq Texts /\ doubtful \subseteq Texts /\ raced \subseteq Texts
  /\ troubles \in 0 .. MaxTroubles /\ failures \in 0 .. MaxFailures

SendingInv == Typed /\ LateIsCounted /\ QueuesOK /\ ScreenOK

LEMMA TypedIs == SendingTypeOK <=> Typed
<1>1. UNION {frame, drafts, written, accepted, reported, reloaded, overtaken, doubtful, raced}
          \subseteq Texts
        <=> /\ frame \subseteq Texts /\ drafts \subseteq Texts /\ written \subseteq Texts
            /\ accepted \subseteq Texts /\ reported \subseteq Texts /\ reloaded \subseteq Texts
            /\ overtaken \subseteq Texts /\ doubtful \subseteq Texts /\ raced \subseteq Texts
  BY Zenon
<1>2. /\ {up, onLine, watching, missed} \subseteq BOOLEAN
        <=> up \in BOOLEAN /\ onLine \in BOOLEAN /\ watching \in BOOLEAN /\ missed \in BOOLEAN
      /\ {saving, rows, seen, unannounced} \subseteq [Texts -> Nat]
        <=> /\ saving \in [Texts -> Nat] /\ rows \in [Texts -> Nat] /\ seen \in [Texts -> Nat]
            /\ unannounced \in [Texts -> Nat]
  BY Zenon
<1>3. QED
  BY <1>1, <1>2, Zenon DEF SendingTypeOK, Typed, FlushRow, CallRow, Bubbles

LEMMA SendingBounds ==
  /\ MaxTroubles \in Nat /\ MaxFailures \in Nat /\ "queue" \in Callers /\ "queue" \notin Flushes
  /\ Flushes \subseteq Callers /\ \A c \in Callers : c = "queue" \/ c \in Flushes
  /\ NoCall \in CallRow /\ NoCall.at = "none" /\ NoCall.text \in Texts
  /\ Idle \in FlushRow /\ CopyOK(Idle) /\ Idle.at = "idle"
  /\ ToSet(Idle.todo) = {} /\ ToSet(Idle.keep) = {}
<1>1. NoCall.text \in Texts
  <2>1. (CHOOSE t \in Texts : TRUE) \in Texts
    BY SendingAssumption
  <2>2. QED
    BY <2>1 DEF NoCall
<1>2. NoCall \in CallRow /\ NoCall.at = "none"
  BY <1>1 DEF NoCall, CallRow
<1>3. Idle \in FlushRow /\ Idle.at = "idle" /\ Idle.todo = <<>> /\ Idle.keep = <<>>
  BY NoneTold DEF Idle, FlushRow
<1>4. QED
  BY <1>1, <1>2, <1>3, NoneTold, SendingAssumption DEF Callers, CopyOK

LEMMA RowsTold ==
  /\ \A r \in FlushRow : /\ r.at \in {"idle", "encrypting", "calling"}
                         /\ r.todo \in Seq(Texts) /\ r.keep \in Seq(Texts)
  /\ \A r \in CallRow : r.at \in {"none", "buffered", "sent", "lost"} /\ r.text \in Texts
  BY DEF FlushRow, CallRow

\* The loop over the queue in memory.
LEMMA TakesNext ==
  ASSUME NEW queue \in Seq(Texts), IsInjective(queue), NEW bubbles, TakeNext(queue, bubbles)
  PROVE  /\ active' \in {<<>>} \cup {<<t>> : t \in Texts} /\ outgoing' \in Seq(Texts)
         /\ IsInjective(outgoing)' /\ ToSet(active)' \cap ToSet(outgoing)' = {}
         /\ Queued' = ToSet(queue)
         /\ active' = <<>> => outgoing' = <<>>
         /\ bubbles \in Bubbles => bubble' \in Bubbles
<1>1. CASE queue = <<>>
  <2>1. active' = <<>> /\ outgoing' = <<>> /\ bubble' = bubbles
    BY <1>1 DEF TakeNext
  <2>2. QED
    BY <1>1, <2>1, NoneTold DEF Queued
<1>2. CASE queue # <<>>
  <2>1. /\ active' = <<Head(queue)>> /\ outgoing' = Tail(queue)
        /\ bubble' = [bubbles EXCEPT ![Head(queue)] = IF @ = "none" THEN @ ELSE "sending"]
    BY <1>2 DEF TakeNext
  <2>2. /\ Head(queue) \in Texts /\ Tail(queue) \in Seq(Texts)
        /\ ToSet(queue) = ToSet(Tail(queue)) \cup {Head(queue)}
        /\ IsInjective(Tail(queue)) /\ Head(queue) \notin ToSet(Tail(queue))
    BY <1>2, TailTold
  <2>3. ToSet(<<Head(queue)>>) = {Head(queue)} /\ <<Head(queue)>> # <<>>
    BY <2>2, OneTold
  <2>4. bubbles \in Bubbles => bubble' \in Bubbles
    BY <2>1, <2>2 DEF Bubbles
  <2>5. QED
    BY <2>1, <2>2, <2>3, <2>4 DEF Queued
<1>3. QED
  BY <1>1, <1>2

\* A flush is done with the first text of its copy: it goes on, or ends and its copy becomes
\* the offline queue.
LEMMA FlushGoesOn ==
  ASSUME Typed, NEW f \in Flushes, CopyOK(flush[f]), flush[f].at # "idle", NEW kept \in BOOLEAN,
         FlushOn(f, IF kept THEN Append(flush[f].keep, Head(flush[f].todo)) ELSE flush[f].keep),
         NEW left, left = IF kept THEN Copy(f) ELSE Copy(f) \ {Head(flush[f].todo)}
  PROVE  /\ flush' \in [Flushes -> FlushRow] /\ offline' \in Seq(Texts) /\ IsInjective(offline)'
         /\ \A g \in Flushes \ {f} : flush'[g] = flush[g]
         /\ CopyOK(flush'[f]) /\ flush'[f].at \in {"idle", "encrypting"}
         /\ \/ flush'[f].at = "encrypting" /\ offline' = offline /\ Copy(f)' = left
            \/ flush'[f].at = "idle" /\ Stored' = left /\ Copy(f)' = {}
<1> DEFINE todo == flush[f].todo
           keep == IF kept THEN Append(flush[f].keep, Head(todo)) ELSE flush[f].keep
           rest == Tail(todo)
<1>1. /\ todo \in Seq(Texts) /\ flush[f].keep \in Seq(Texts) /\ todo # <<>>
      /\ IsInjective(todo) /\ IsInjective(flush[f].keep)
      /\ ToSet(todo) \cap ToSet(flush[f].keep) = {}
  BY RowsTold DEF Typed, CopyOK
<1>2. /\ Head(todo) \in Texts /\ rest \in Seq(Texts) /\ ToSet(todo) = ToSet(rest) \cup {Head(todo)}
      /\ IsInjective(rest) /\ Head(todo) \notin ToSet(rest)
  BY <1>1, TailTold
<1>3. /\ keep \in Seq(Texts) /\ IsInjective(keep)
      /\ ToSet(keep) = IF kept THEN ToSet(flush[f].keep) \cup {Head(todo)} ELSE ToSet(flush[f].keep)
  BY <1>1, <1>2, AppendTold
<1>4. ToSet(rest) \cup ToSet(keep) = left /\ ToSet(rest) \cap ToSet(keep) = {}
  BY <1>1, <1>2, <1>3 DEF Copy
<1>5. IF rest = <<>>
        THEN flush' = [flush EXCEPT ![f] = Idle] /\ offline' = keep
        ELSE /\ flush' = [flush EXCEPT ![f] = [at |-> "encrypting", todo |-> rest, keep |-> keep]]
             /\ offline' = offline
  BY DEF FlushOn, GoOn
<1>6. flush \in [Flushes -> FlushRow] /\ offline \in Seq(Texts) /\ IsInjective(offline)
  BY DEF Typed
<1> HIDE DEF keep, rest
<1>7. CASE rest = <<>>
  <2>1. flush' = [flush EXCEPT ![f] = Idle] /\ offline' = keep
    BY <1>5, <1>7
  <2>2. ToSet(rest) = {}
    BY <1>7, NoneTold
  <2>3. flush' \in [Flushes -> FlushRow] /\ flush'[f] = Idle /\ \A g \in Flushes \ {f} : flush'[g] = flush[g]
    BY <1>6, <2>1, SendingBounds
  <2>4. Stored' = left /\ Copy(f)' = {}
    BY <1>4, <2>1, <2>2, <2>3, SendingBounds DEF Stored, Copy
  <2>5. QED
    BY <1>3, <2>1, <2>3, <2>4, SendingBounds
<1>8. CASE rest # <<>>
  <2>1. PICK row \in FlushRow : row = [at |-> "encrypting", todo |-> rest, keep |-> keep]
    BY <1>2, <1>3 DEF FlushRow
  <2>2. flush' = [flush EXCEPT ![f] = row] /\ offline' = offline
    BY <1>5, <1>8, <2>1
  <2>3. /\ flush' \in [Flushes -> FlushRow] /\ flush'[f] = row
        /\ \A g \in Flushes \ {f} : flush'[g] = flush[g]
    BY <1>6, <2>2
  <2>4. Copy(f)' = left
    BY <1>4, <2>1, <2>3 DEF Copy
  <2>5. CopyOK(row)
    BY <1>2, <1>3, <1>4, <1>8, <2>1 DEF CopyOK
  <2>6. QED
    BY <1>6, <2>1, <2>2, <2>3, <2>4, <2>5
<1>9. QED
  BY <1>7, <1>8

-----------------------------------------------------------------------------
(* What keeps the parts of the invariant                                   *)

LEMMA HeldIs ==
  ASSUME NEW u
  PROVE  Held(u) <=> u \in Queued \/ u \in Stored \/ \E f \in Flushes : u \in Copy(f)
  BY DEF Held, Queued, Stored, Copy

\* A call may end, be sent or be lost, but never begins.
CallsGoOn == \A c \in Callers : calls'[c].at # "none" =>
                                  calls[c].at # "none" /\ calls'[c].text = calls[c].text

LEMMA QueueStays ==
  ASSUME QueueOK, CallsGoOn, UNCHANGED <<outgoing, active, offline>>, written \subseteq written'
  PROVE  QueueOK'
  BY SendingBounds DEF QueueOK, CallsGoOn, Queued, Stored

LEMMA FlushesStay ==
  ASSUME FlushesOK, CallsGoOn, flush' = flush, written \subseteq written',
         \A u \in Queued' : u \in written => u \in Queued
  PROVE  FlushesOK'
<1>1. SUFFICES ASSUME NEW f \in Flushes PROVE FlushOK(f)'
  BY DEF FlushesOK
<1>2. FlushOK(f) /\ Copy(f)' = Copy(f)
  BY DEF FlushesOK, Copy
<1>3. calls'[f].at # "none" => calls[f].at # "none" /\ calls'[f].text = calls[f].text
  BY SendingBounds DEF CallsGoOn
<1>4. QED
  BY <1>2, <1>3 DEF FlushOK

LEMMA CopiesStay ==
  ASSUME CopiesAgree, flush' = flush, offline' = offline, Excused \subseteq Excused'
  PROVE  CopiesAgree'
  BY DEF CopiesAgree, Flushing, Copy, Stored

LEMMA OnceStays ==
  ASSUME NEW u \in Texts, OnceOK(u), Sent(u) \in Nat, Sent(u)' \in Nat,
         Sent(u)' <= Sent(u), u \in written => u \in written',
         u \in Queued' /\ Sent(u)' # 0 => u \in Queued /\ (Lost("queue", u) => Lost("queue", u)'),
         u \notin doubtful' => u \notin doubtful,
         u \notin doubtful' =>
            \A f \in Flushes : u \in Copy(f)' =>
               u \in Copy(f) /\ (Lost(f, u) => Lost(f, u)' \/ Sent(u)' = 0),
         u \notin doubtful' /\ u \in Stored' =>
            Sent(u)' = 0 \/ (u \in Stored /\ (Flushing # {} => (Flushing # {})'))
  PROVE  OnceOK(u)'
<1>1. Sent(u)' > 0 => u \in written'
  BY DEF OnceOK
<1>2. u \in Queued' => Sent(u)' = 0 \/ (Sent(u)' = 1 /\ Lost("queue", u)')
  BY DEF OnceOK
<1>3. ASSUME u \notin doubtful'
      PROVE  /\ Sent(u)' <= 1
             /\ \A f, g \in Flushes : u \in Copy(f)' /\ u \in Copy(g)' => f = g
             /\ \A f \in Flushes : u \in Copy(f)' => Sent(u)' = 0 \/ Lost(f, u)'
             /\ u \in Stored' => Sent(u)' = 0 \/ (Flushing # {})'
  <2>1. u \notin doubtful
    BY <1>3
  <2>2. Sent(u)' <= 1
    BY <2>1 DEF OnceOK
  <2>3. \A f, g \in Flushes : u \in Copy(f)' /\ u \in Copy(g)' => f = g
    BY <1>3, <2>1 DEF OnceOK
  <2>4. ASSUME NEW f \in Flushes, u \in Copy(f)' PROVE Sent(u)' = 0 \/ Lost(f, u)'
    <3>1. u \in Copy(f) /\ (Lost(f, u) => Lost(f, u)' \/ Sent(u)' = 0)
      BY <1>3, <2>4
    <3>2. Sent(u) = 0 \/ Lost(f, u)
      BY <2>1, <3>1 DEF OnceOK
    <3>3. QED
      BY <3>1, <3>2
  <2>5. u \in Stored' => Sent(u)' = 0 \/ (Flushing # {})'
    BY <1>3, <2>1 DEF OnceOK
  <2>6. QED
    BY <2>2, <2>3, <2>4, <2>5
<1>4. QED
  BY <1>1, <1>2, <1>3 DEF OnceOK

LEMMA HeldStays ==
  ASSUME NoTextVanishes, Excused \subseteq Excused',
         \A u \in written' : u \in written \/ u \in Queued',
         \A u : u \in Queued \/ u \in Stored \/ (\E f \in Flushes : u \in Copy(f)) =>
                  \/ u \in Excused'
                  \/ u \in Queued' \/ u \in Stored' \/ (\E f \in Flushes : u \in Copy(f)')
  PROVE  NoTextVanishes'
<1>1. SUFFICES ASSUME NEW u \in written', u \notin Excused' PROVE Held(u)'
  BY DEF NoTextVanishes, Excused
<1>2. Held(u)' <=> u \in Queued' \/ u \in Stored' \/ \E f \in Flushes : u \in Copy(f)'
  BY DEF Held, Queued, Stored, Copy
<1>3. CASE u \in written
  <2>1. Held(u)
    BY <1>1, <1>3 DEF NoTextVanishes, Excused
  <2>2. QED
    BY <1>1, <1>2, <2>1, HeldIs
<1>4. QED
  BY <1>1, <1>2, <1>3

LEMMA SentIs ==
  ASSUME Typed, NEW u \in Texts
  PROVE  /\ Sent(u) \in Nat /\ late[u] \in Nat /\ saving[u] \in Nat /\ rows[u] \in Nat
         /\ seen[u] \in Nat /\ unannounced[u] \in Nat
<1>1. late[u] \in 0 .. MaxTroubles + MaxFailures
  BY DEF Typed
<1>2. late[u] \in Nat
  BY <1>1, SendingBounds
<1>3. saving[u] \in Nat /\ rows[u] \in Nat /\ seen[u] \in Nat /\ unannounced[u] \in Nat
  BY DEF Typed
<1>4. QED
  BY <1>2, <1>3 DEF Sent

LEMMA SentWillBe ==
  ASSUME Typed', NEW u \in Texts
  PROVE  /\ Sent(u)' \in Nat /\ late'[u] \in Nat /\ saving'[u] \in Nat /\ rows'[u] \in Nat
         /\ seen'[u] \in Nat /\ unannounced'[u] \in Nat
<1>1. late'[u] \in 0 .. MaxTroubles + MaxFailures
  BY DEF Typed
<1>2. late'[u] \in Nat
  BY <1>1, SendingBounds
<1>3. saving'[u] \in Nat /\ rows'[u] \in Nat /\ seen'[u] \in Nat /\ unannounced'[u] \in Nat
  BY DEF Typed
<1>4. QED
  BY <1>2, <1>3 DEF Sent

\* Only the server and the reader are at work.
LEMMA QueuesStay ==
  ASSUME Typed, Typed', QueuesOK, CallsGoOn, UNCHANGED <<outgoing, active, offline, flush, written>>,
         \A c \in Callers : calls[c].at = "lost" => calls'[c] = calls[c],
         Excused \subseteq Excused', doubtful \subseteq doubtful',
         \A u \in Texts : Sent(u)' <= Sent(u)
  PROVE  QueuesOK'
<1>1. QueueOK /\ FlushesOK /\ CopiesAgree /\ AllOnce /\ NoTextVanishes
  BY DEF QueuesOK
<1>2. Queued' = Queued /\ Stored' = Stored /\ (\A f : Copy(f)' = Copy(f)) /\ Flushing' = Flushing
  BY DEF Queued, Stored, Copy, Flushing
<1>3. QueueOK'
  BY <1>1, QueueStays
<1>4. FlushesOK'
  BY <1>1, <1>2, FlushesStay
<1>5. CopiesAgree'
  BY <1>1, CopiesStay
<1>6. NoTextVanishes'
  BY <1>1, <1>2, HeldStays
<1>7. ASSUME NEW u \in Texts PROVE OnceOK(u)'
  <2>1. OnceOK(u) /\ Sent(u)' <= Sent(u) /\ Sent(u) \in Nat /\ Sent(u)' \in Nat
    BY <1>1, SentIs, SentWillBe DEF AllOnce
  <2>2. \A c \in Callers : Lost(c, u) => Lost(c, u)'
    BY DEF Lost
  <2>3. QED
    BY <1>2, <2>1, <2>2, OnceStays, SendingBounds
<1>8. QED
  BY <1>3, <1>4, <1>5, <1>6, <1>7 DEF QueuesOK, AllOnce

-----------------------------------------------------------------------------
(* The moves of a text                                                     *)

\* A text of the queue in memory goes to the offline queue, and the loop goes on.
LEMMA OfflineTyped ==
  ASSUME Typed, QueueOK, NEW t \in Texts, active = <<t>>, PutOffline(t)
  PROVE  /\ active' \in {<<>>} \cup {<<u>> : u \in Texts} /\ outgoing' \in Seq(Texts)
         /\ offline' \in Seq(Texts) /\ IsInjective(offline)' /\ bubble' \in Bubbles
         /\ overtaken' \subseteq Texts /\ overtaken \subseteq overtaken'
         /\ IsInjective(outgoing)' /\ ToSet(active)' \cap ToSet(outgoing)' = {}
         /\ active' = <<>> => outgoing' = <<>>
         /\ Queued' = Queued \ {t} /\ Stored' = Stored \cup {t}
         /\ Flushing # {} => t \in overtaken'
<1>1. /\ outgoing \in Seq(Texts) /\ offline \in Seq(Texts) /\ bubble \in Bubbles
      /\ IsInjective(offline) /\ IsInjective(outgoing) /\ overtaken \subseteq Texts
  BY DEF Typed, QueueOK
<1>2. /\ TakeNext(outgoing, Mark(t, "queued-offline"))
      /\ offline' = IF t \in ToSet(offline) THEN offline ELSE Append(offline, t)
      /\ overtaken' = IF Flushing = {} THEN overtaken ELSE overtaken \cup {t}
  BY DEF PutOffline
<1>3. Mark(t, "queued-offline") \in Bubbles
  BY <1>1 DEF Mark, Bubbles
<1>4. ToSet(active) = {t} /\ t \notin ToSet(outgoing)
  BY OneTold DEF QueueOK
<1>5. offline' \in Seq(Texts) /\ IsInjective(offline)' /\ Stored' = Stored \cup {t}
  <2>1. CASE t \in ToSet(offline)
    BY <1>1, <1>2, <2>1 DEF Stored
  <2>2. CASE t \notin ToSet(offline)
    BY <1>1, <1>2, <2>2, AppendTold DEF Stored
  <2>3. QED
    BY <2>1, <2>2
<1> DEFINE marked == Mark(t, "queued-offline")
<1>6. /\ active' \in {<<>>} \cup {<<u>> : u \in Texts} /\ outgoing' \in Seq(Texts)
      /\ IsInjective(outgoing)' /\ ToSet(active)' \cap ToSet(outgoing)' = {}
      /\ Queued' = ToSet(outgoing)
      /\ active' = <<>> => outgoing' = <<>>
      /\ bubble' \in Bubbles
  <2>1. marked \in Bubbles /\ TakeNext(outgoing, marked)
    BY <1>2, <1>3
  <2>2. PICK bubbles \in Bubbles : bubbles = marked
    BY <2>1
  <2>3. TakeNext(outgoing, bubbles)
    BY <2>1, <2>2
  <2>4. PICK queue \in Seq(Texts) : queue = outgoing
    BY <1>1
  <2>5. TakeNext(queue, bubbles) /\ IsInjective(queue)
    BY <1>1, <2>3, <2>4
  <2>6. QED
    BY <2>2, <2>4, <2>5, TakesNext
<1>7. Queued = ToSet(outgoing) \cup {t}
  BY <1>4 DEF Queued
<1>8. QED
  BY <1>1, <1>2, <1>4, <1>5, <1>6, <1>7

LEMMA MovesOffline ==
  ASSUME Typed, Typed', QueuesOK, NEW t \in Texts, active = <<t>>, PutOffline(t),
         UNCHANGED <<flush, written>>, calls'["queue"].at = "none",
         \A f \in Flushes : calls'[f] = calls[f],
         Excused \subseteq Excused', doubtful \subseteq doubtful',
         \A u \in Texts \ {t} : Sent(u)' <= Sent(u),
         Sent(t)' = 0 \/ (t \in doubtful' /\ Sent(t)' <= Sent(t) + 1)
  PROVE  QueuesOK'
<1>1. QueueOK /\ FlushesOK /\ CopiesAgree /\ AllOnce /\ NoTextVanishes
  BY DEF QueuesOK
<1>2. /\ IsInjective(outgoing)' /\ ToSet(active)' \cap ToSet(outgoing)' = {}
      /\ active' = <<>> => outgoing' = <<>>
      /\ Queued' = Queued \ {t} /\ Stored' = Stored \cup {t}
      /\ Flushing # {} => t \in overtaken'
  BY <1>1, OfflineTyped
<1>3. (\A f : Copy(f)' = Copy(f)) /\ Flushing' = Flushing
  BY DEF Copy, Flushing
<1>4. t \in Queued /\ t \in written
  BY <1>1, OneTold DEF Queued, QueueOK
<1>5. QueueOK'
  BY <1>1, <1>2, <1>4 DEF QueueOK
<1>6. FlushesOK'
  <2>1. SUFFICES ASSUME NEW f \in Flushes PROVE FlushOK(f)'
    BY DEF FlushesOK
  <2>2. FlushOK(f) /\ calls'[f] = calls[f] /\ Copy(f)' = Copy(f)
    BY <1>1, <1>3 DEF FlushesOK
  <2>3. QED
    BY <1>2, <2>2 DEF FlushOK
<1>7. CopiesAgree'
  <2>1. CASE Flushing = {}
    BY <1>3, <2>1 DEF CopiesAgree
  <2>2. CASE Flushing # {}
    <3>1. t \in Excused'
      BY <1>2, <2>2 DEF Excused
    <3>2. QED
      BY <1>1, <1>2, <1>3, <3>1 DEF CopiesAgree
  <2>3. QED
    BY <2>1, <2>2
<1>8. NoTextVanishes'
  BY <1>1, <1>2, <1>3, HeldStays
<1>9. ASSUME NEW u \in Texts PROVE OnceOK(u)'
  <2>1. OnceOK(u) /\ Sent(u) \in Nat /\ Sent(u)' \in Nat
    BY <1>1, SentIs, SentWillBe DEF AllOnce
  <2>2. CASE u = t
    <3>1. u \notin Queued' /\ u \in written'
      BY <1>2, <1>4, <2>2
    <3>2. CASE u \in doubtful'
      BY <3>1, <3>2 DEF OnceOK
    <3>3. CASE u \notin doubtful'
      <4>1. Sent(u)' = 0 /\ u \notin doubtful
        BY <2>2, <3>3
      <4>2. QED
        BY <1>3, <2>1, <3>1, <4>1 DEF OnceOK
    <3>4. QED
      BY <3>2, <3>3
  <2>3. CASE u # t
    <3>1. Sent(u)' <= Sent(u)
      BY <2>3
    <3>2. u \in Queued => ~ Lost("queue", u)
      BY <1>1, <2>3, OneTold DEF QueueOK, Lost, Queued
    <3>3. \A f \in Flushes : Lost(f, u) => Lost(f, u)'
      BY DEF Lost
    <3>4. QED
      BY <1>2, <1>3, <2>1, <2>3, <3>1, <3>2, <3>3, OnceStays
  <2>4. QED
    BY <2>2, <2>3
<1>10. QED
  BY <1>5, <1>6, <1>7, <1>8, <1>9 DEF QueuesOK, AllOnce

\* A text of the queue in memory is answered or given up, and the loop goes on.
LEMMA LeavesQueue ==
  ASSUME Typed, Typed', QueuesOK, NEW t \in Texts, active = <<t>>,
         NEW bubbles, TakeNext(outgoing, bubbles),
         UNCHANGED <<flush, offline, written, doubtful>>, calls'["queue"].at = "none",
         \A f \in Flushes : calls'[f] = calls[f],
         Excused \subseteq Excused', t \in Excused',
         \A u \in Texts \ {t} : Sent(u)' <= Sent(u), Sent(t) = 0, Sent(t)' <= 1
  PROVE  QueuesOK'
<1>1. QueueOK /\ FlushesOK /\ CopiesAgree /\ AllOnce /\ NoTextVanishes
  BY DEF QueuesOK
<1>2. outgoing \in Seq(Texts) /\ IsInjective(outgoing)
  BY <1>1 DEF Typed, QueueOK
<1>3. /\ IsInjective(outgoing)' /\ ToSet(active)' \cap ToSet(outgoing)' = {}
      /\ active' = <<>> => outgoing' = <<>>
      /\ Queued' = ToSet(outgoing)
  <2>1. PICK queue \in Seq(Texts) : queue = outgoing
    BY <1>2
  <2>2. TakeNext(queue, bubbles) /\ IsInjective(queue)
    BY <1>2, <2>1
  <2>3. QED
    BY <2>1, <2>2, TakesNext
<1>4. (\A f : Copy(f)' = Copy(f)) /\ Flushing' = Flushing /\ Stored' = Stored
  BY DEF Copy, Flushing, Stored
<1>5. t \in Queued /\ t \in written /\ Queued' = Queued \ {t}
  BY <1>1, <1>3, OneTold DEF Queued, QueueOK
<1>6. QueueOK'
  BY <1>1, <1>3, <1>4, <1>5 DEF QueueOK
<1>7. FlushesOK'
  <2>1. SUFFICES ASSUME NEW f \in Flushes PROVE FlushOK(f)'
    BY DEF FlushesOK
  <2>2. FlushOK(f) /\ calls'[f] = calls[f] /\ Copy(f)' = Copy(f)
    BY <1>1, <1>4 DEF FlushesOK
  <2>3. QED
    BY <1>5, <2>2 DEF FlushOK
<1>8. CopiesAgree'
  BY <1>1, CopiesStay
<1>9. NoTextVanishes'
  BY <1>1, <1>4, <1>5, HeldStays
<1>10. ASSUME NEW u \in Texts PROVE OnceOK(u)'
  <2>1. OnceOK(u) /\ Sent(u) \in Nat /\ Sent(u)' \in Nat
    BY <1>1, SentIs, SentWillBe DEF AllOnce
  <2>2. CASE u = t
    <3>1. u \notin Queued' /\ u \in written' /\ u \notin Stored' /\ \A f \in Flushes : u \notin Copy(f)'
      BY <1>1, <1>4, <1>5, <2>2 DEF QueueOK, FlushesOK, FlushOK
    <3>2. QED
      BY <2>1, <2>2, <3>1 DEF OnceOK
  <2>3. CASE u # t
    <3>1. Sent(u)' <= Sent(u)
      BY <2>3
    <3>2. u \in Queued => ~ Lost("queue", u)
      BY <1>1, <2>3, OneTold DEF QueueOK, Lost, Queued
    <3>3. \A f \in Flushes : Lost(f, u) => Lost(f, u)'
      BY DEF Lost
    <3>4. QED
      BY <1>4, <1>5, <2>1, <2>3, <3>1, <3>2, <3>3, OnceStays
  <2>4. QED
    BY <2>2, <2>3
<1>11. QED
  BY <1>6, <1>7, <1>8, <1>9, <1>10 DEF QueuesOK, AllOnce

\* A flush is done with the first text of its copy.
LEMMA FlushMoves ==
  ASSUME Typed, Typed', QueuesOK, NEW f \in Flushes, flush[f].at # "idle", NEW kept \in BOOLEAN,
         FlushOn(f, IF kept THEN Append(flush[f].keep, Head(flush[f].todo)) ELSE flush[f].keep),
         UNCHANGED <<outgoing, active, written>>, calls'[f].at = "none",
         \A c \in Callers \ {f} : calls'[c] = calls[c],
         Excused \subseteq Excused', doubtful \subseteq doubtful',
         NEW h, h = Head(flush[f].todo), kept \/ h \in Excused',
         \A u \in Texts \ {h} : Sent(u)' <= Sent(u),
         h \in doubtful' \/ (kept /\ Sent(h)' = 0) \/ (~kept /\ Sent(h)' <= 1)
  PROVE  QueuesOK'
<1>1. QueueOK /\ FlushesOK /\ CopiesAgree /\ AllOnce /\ NoTextVanishes
  BY DEF QueuesOK
<1>2. FlushOK(f) /\ CopyOK(flush[f]) /\ f \in Callers /\ f # "queue" /\ f \in Flushing
  BY <1>1, SendingBounds DEF FlushesOK, FlushOK, Flushing
<1> DEFINE left == IF kept THEN Copy(f) ELSE Copy(f) \ {h}
<1>3. /\ \A g \in Flushes \ {f} : flush'[g] = flush[g]
      /\ CopyOK(flush'[f]) /\ flush'[f].at \in {"idle", "encrypting"}
      /\ \/ flush'[f].at = "encrypting" /\ offline' = offline /\ Copy(f)' = left
         \/ flush'[f].at = "idle" /\ Stored' = left /\ Copy(f)' = {}
  BY <1>2, FlushGoesOn
<1>4. h \in Copy(f)
  <2>1. flush[f].todo \in Seq(Texts) /\ flush[f].todo # <<>>
    BY <1>2, RowsTold DEF Typed, CopyOK
  <2>2. PICK todo \in Seq(Texts) : todo = flush[f].todo
    BY <2>1
  <2>3. todo # <<>> /\ h = Head(todo)
    BY <2>1, <2>2
  <2>4. h \in ToSet(todo)
    BY <2>3, TailTold
  <2>5. QED
    BY <2>2, <2>4 DEF Copy
<1>5. /\ h \in written /\ h \notin Queued /\ Copy(f) \subseteq written /\ Copy(f) \cap Queued = {}
      /\ calls[f].at # "none" => calls[f].text = h
  BY <1>2, <1>4 DEF FlushOK
<1>6. left \subseteq Copy(f) /\ (kept => left = Copy(f)) /\ (~kept => h \notin left)
      /\ (\A u : u # h => (u \in left <=> u \in Copy(f)))
  BY <1>4
<1> HIDE DEF left
<1>7. /\ Queued' = Queued /\ \A g \in Flushes \ {f} : Copy(g)' = Copy(g)
      /\ Copy(f)' \subseteq left
  BY <1>3 DEF Queued, Copy
<1>8. Stored' \subseteq Stored \cup Copy(f)
  BY <1>3, <1>6 DEF Stored
<1>9. QueueOK'
  <2>1. calls'["queue"] = calls["queue"]
    BY <1>2, SendingBounds
  <2>2. Stored' \subseteq written /\ Queued \cap Stored' = {}
    BY <1>1, <1>5, <1>8 DEF QueueOK
  <2>3. QED
    BY <1>1, <1>7, <2>1, <2>2 DEF QueueOK
<1>10. FlushesOK'
  <2>1. SUFFICES ASSUME NEW g \in Flushes PROVE FlushOK(g)'
    BY DEF FlushesOK
  <2>2. CASE g = f
    <3>1. Copy(f)' \subseteq written' /\ Copy(f)' \cap Queued' = {}
      BY <1>5, <1>6, <1>7
    <3>2. QED
      BY <1>3, <2>2, <3>1 DEF FlushOK
  <2>3. CASE g # f
    <3>1. /\ FlushOK(g) /\ flush'[g] = flush[g] /\ Copy(g)' = Copy(g) /\ calls'[g] = calls[g]
      BY <1>1, <1>3, <1>7, <2>3, SendingBounds DEF FlushesOK
    <3>2. QED
      BY <1>7, <3>1 DEF FlushOK
  <2>4. QED
    BY <2>2, <2>3
<1>11. CopiesAgree'
  <2>1. SUFFICES ASSUME NEW g \in Flushes, flush'[g].at # "idle", NEW u \in Texts, u \notin Excused'
                 PROVE  u \in Stored' <=> u \in Copy(g)'
    BY DEF CopiesAgree, Flushing
  <2>2. u \notin Excused /\ (u \in left <=> u \in Copy(f))
    BY <1>6, <2>1
  <2>3. u \in Stored <=> u \in Copy(f)
    BY <1>1, <1>2, <2>2 DEF CopiesAgree
  <2>4. CASE g = f
    <3>1. Stored' = Stored /\ Copy(f)' = left
      BY <1>3, <2>1, <2>4 DEF Stored
    <3>2. QED
      BY <2>2, <2>3, <2>4, <3>1
  <2>5. CASE g # f
    <3>1. g \in Flushing /\ Copy(g)' = Copy(g)
      BY <1>3, <1>7, <2>1, <2>5 DEF Flushing
    <3>2. u \in Stored <=> u \in Copy(g)
      BY <1>1, <2>2, <3>1 DEF CopiesAgree
    <3>3. Stored' = Stored \/ Stored' = left
      BY <1>3 DEF Stored
    <3>4. QED
      BY <2>2, <2>3, <3>1, <3>2, <3>3
  <2>6. QED
    BY <2>4, <2>5
<1>12. NoTextVanishes'
  <2>1. ASSUME NEW u, u \in Queued \/ u \in Stored \/ \E g \in Flushes : u \in Copy(g),
               u \notin Excused'
        PROVE  u \in Queued' \/ u \in Stored' \/ \E g \in Flushes : u \in Copy(g)'
    <3>1. u \in left <=> u \in Copy(f)
      BY <1>6, <2>1
    <3>2. CASE u \in Queued \/ \E g \in Flushes \ {f} : u \in Copy(g)
      BY <1>7, <3>2
    <3>3. CASE u \in Copy(f)
      BY <1>3, <3>1, <3>3
    <3>4. CASE u \in Stored
      <4>1. u \in Texts
        BY <3>4, ToldBounds DEF Stored, Typed
      <4>2. u \in Copy(f)
        BY <1>1, <1>2, <2>1, <3>4, <4>1 DEF CopiesAgree
      <4>3. QED
        BY <3>3, <4>2
    <3>5. QED
      BY <2>1, <3>2, <3>3, <3>4
  <2>2. QED
    BY <1>1, <2>1, HeldStays
<1>13. ASSUME NEW u \in Texts PROVE OnceOK(u)'
  <2>1. OnceOK(u) /\ Sent(u) \in Nat /\ Sent(u)' \in Nat
    BY <1>1, SentIs, SentWillBe DEF AllOnce
  <2>2. \A g \in Flushes : u \in Copy(g)' => u \in Copy(g)
    BY <1>6, <1>7
  <2>3. CASE u = h
    <3>1. u \notin Queued' /\ u \in written'
      BY <1>5, <1>7, <2>3
    <3>2. CASE u \in doubtful'
      BY <3>1, <3>2 DEF OnceOK
    <3>3. CASE u \notin doubtful' /\ kept /\ Sent(u)' = 0
      <4>1. u \notin doubtful
        BY <3>3
      <4>2. \A g1, g2 \in Flushes : u \in Copy(g1)' /\ u \in Copy(g2)' => g1 = g2
        BY <2>1, <2>2, <4>1 DEF OnceOK
      <4>3. QED
        BY <3>1, <3>3, <4>2 DEF OnceOK
    <3>4. CASE u \notin doubtful' /\ ~kept /\ Sent(u)' <= 1
      <4>1. u \notin doubtful
        BY <3>4
      <4>2. \A g \in Flushes : u \in Copy(g) => g = f
        BY <1>4, <2>1, <2>3, <4>1 DEF OnceOK
      <4>3. \A g \in Flushes : u \notin Copy(g)'
        BY <1>6, <1>7, <2>2, <2>3, <3>4, <4>2
      <4>4. u \in Stored' => (Flushing # {})'
        <5>1. CASE flush'[f].at = "encrypting"
          BY <5>1 DEF Flushing
        <5>2. CASE Stored' = left
          BY <1>6, <2>3, <3>4, <5>2
        <5>3. QED
          BY <1>3, <5>1, <5>2
      <4>5. QED
        BY <2>1, <3>1, <3>4, <4>3, <4>4 DEF OnceOK
    <3>5. QED
      BY <2>3, <3>2, <3>3, <3>4
  <2>4. CASE u # h
    <3>1. Sent(u)' <= Sent(u)
      BY <2>4
    <3>2. ~ Lost(f, u)
      BY <1>5, <2>4 DEF Lost
    <3>3. \A c \in Callers : Lost(c, u) => Lost(c, u)'
      <4>1. ASSUME NEW c \in Callers, Lost(c, u) PROVE Lost(c, u)'
        BY <3>2, <4>1 DEF Lost
      <4>2. QED
        BY <4>1
    <3>4. ASSUME u \notin doubtful', u \in Stored'
          PROVE  Sent(u)' = 0 \/ (u \in Stored /\ (Flushing # {} => (Flushing # {})'))
      <4>1. CASE flush'[f].at = "encrypting" /\ offline' = offline
        BY <3>4, <4>1 DEF Flushing, Stored
      <4>2. CASE Stored' = left
        <5>1. u \in Copy(f) /\ u \notin doubtful
          BY <1>6, <3>4, <4>2
        <5>2. Sent(u) = 0
          BY <2>1, <3>2, <5>1 DEF OnceOK
        <5>3. QED
          BY <2>1, <3>1, <5>2
      <4>3. QED
        BY <1>3, <4>1, <4>2
    <3>5. QED
      BY <1>7, <2>1, <2>2, <3>1, <3>3, <3>4, OnceStays, SendingBounds
  <2>5. QED
    BY <2>3, <2>4
<1>14. QED
  BY <1>9, <1>10, <1>11, <1>12, <1>13 DEF QueuesOK, AllOnce

\* A call that was sent and is lost leaves its packet on the way, or not.
LEMMA CallsLost ==
  ASSUME Typed, Typed', QueuesOK, CallsGoOn, UNCHANGED <<outgoing, active, offline, flush, written>>,
         \A c \in Callers : calls[c].at = "lost" => calls'[c] = calls[c],
         Excused \subseteq Excused', doubtful \subseteq doubtful',
         \A u \in Texts : \/ Sent(u)' <= Sent(u)
                          \/ /\ Sent(u)' = Sent(u) + 1
                             /\ \E c \in Callers : /\ calls[c].at = "sent" /\ calls[c].text = u
                                                   /\ calls'[c].at = "lost"
  PROVE  QueuesOK'
<1>1. QueueOK /\ FlushesOK /\ CopiesAgree /\ AllOnce /\ NoTextVanishes
  BY DEF QueuesOK
<1>2. Queued' = Queued /\ Stored' = Stored /\ (\A f : Copy(f)' = Copy(f)) /\ Flushing' = Flushing
  BY DEF Queued, Stored, Copy, Flushing
<1>3. QueueOK'
  BY <1>1, QueueStays
<1>4. FlushesOK'
  BY <1>1, <1>2, FlushesStay
<1>5. CopiesAgree'
  BY <1>1, CopiesStay
<1>6. NoTextVanishes'
  BY <1>1, <1>2, HeldStays
<1>7. ASSUME NEW u \in Texts PROVE OnceOK(u)'
  <2>1. OnceOK(u) /\ Sent(u) \in Nat /\ Sent(u)' \in Nat
    BY <1>1, SentIs, SentWillBe DEF AllOnce
  <2>2. \A c \in Callers : Lost(c, u) => Lost(c, u)'
    BY DEF Lost
  <2>3. CASE Sent(u)' <= Sent(u)
    BY <1>2, <2>1, <2>2, <2>3, OnceStays, SendingBounds
  <2>4. CASE /\ Sent(u)' = Sent(u) + 1
             /\ \E c \in Callers : /\ calls[c].at = "sent" /\ calls[c].text = u
                                   /\ calls'[c].at = "lost"
    <3>1. PICK c \in Callers : /\ calls[c].at = "sent" /\ calls[c].text = u /\ calls'[c].at = "lost"
      BY <2>4
    <3>2. calls'[c].text = u
      BY <3>1 DEF CallsGoOn
    <3>3. Lost(c, u)' /\ ~ Lost(c, u)
      BY <3>1, <3>2 DEF Lost
    <3>4. CASE c = "queue"
      <4>1. active = <<u>>
        BY <1>1, <3>1, <3>4 DEF QueueOK
      <4>2. u \in Queued /\ u \in written
        BY <1>1, <4>1, OneTold DEF Queued, QueueOK
      <4>3. u \notin Stored /\ \A f \in Flushes : u \notin Copy(f)
        BY <1>1, <4>2 DEF QueueOK, FlushesOK, FlushOK
      <4>4. Sent(u)' = 1
        BY <2>1, <2>4, <3>3, <3>4, <4>2 DEF OnceOK
      <4>5. QED
        BY <1>2, <3>3, <3>4, <4>2, <4>3, <4>4 DEF OnceOK
    <3>5. CASE c \in Flushes
      <4>1. FlushOK(c) /\ flush[c].at = "calling" /\ u = Head(flush[c].todo) /\ flush[c].todo # <<>>
        BY <1>1, <3>1, <3>5 DEF FlushesOK, FlushOK, CopyOK
      <4>2. flush[c].todo \in Seq(Texts)
        BY <3>5, RowsTold DEF Typed
      <4>3. u \in Copy(c)
        <5>1. PICK todo \in Seq(Texts) : todo = flush[c].todo
          BY <4>2
        <5>2. u = Head(todo) /\ todo # <<>>
          BY <4>1, <5>1
        <5>3. u \in ToSet(todo)
          BY <5>2, TailTold
        <5>4. QED
          BY <5>1, <5>3 DEF Copy
      <4>4. u \in written /\ u \notin Queued
        BY <4>1, <4>3 DEF FlushOK
      <4>5. c \in Flushing
        BY <3>5, <4>1 DEF Flushing
      <4>6. CASE u \in doubtful'
        BY <1>2, <4>4, <4>6 DEF OnceOK
      <4>7. CASE u \notin doubtful'
        <5>1. u \notin doubtful
          BY <4>7
        <5>2. Sent(u)' = 1
          BY <2>1, <2>4, <3>3, <3>5, <4>3, <5>1 DEF OnceOK
        <5>3. \A g \in Flushes : u \in Copy(g) => g = c
          BY <2>1, <3>5, <4>3, <5>1 DEF OnceOK
        <5>4. QED
          BY <1>2, <2>1, <3>3, <4>4, <4>5, <5>2, <5>3 DEF OnceOK
      <4>8. QED
        BY <4>6, <4>7
    <3>6. QED
      BY <3>4, <3>5, SendingBounds
  <2>5. QED
    BY <2>3, <2>4
<1>8. QED
  BY <1>3, <1>4, <1>5, <1>6, <1>7 DEF QueuesOK, AllOnce

\* A flush begins, with a copy of the offline queue.
LEMMA FlushStarts ==
  ASSUME Typed, QueuesOK, StartFlush, CallsGoOn,
         UNCHANGED <<outgoing, active, offline, written, late, saving, rows,
                     accepted, reported, reloaded, overtaken>>,
         \A c \in Callers : calls[c].at = "lost" => calls'[c] = calls[c],
         Typed'
  PROVE  QueuesOK'
<1>1. QueueOK /\ FlushesOK /\ CopiesAgree /\ AllOnce /\ NoTextVanishes
  BY DEF QueuesOK
<1>2. Excused' = Excused /\ \A u \in Texts : Sent(u)' = Sent(u)
  BY DEF Excused, Sent
<1>3. CASE offline = <<>>
  <2>1. flush' = flush /\ doubtful' = doubtful
    BY <1>3 DEF StartFlush
  <2>2. \A u \in Texts : Sent(u)' <= Sent(u)
    BY <1>2, SentIs
  <2>3. QED
    BY <1>2, <2>1, <2>2, QueuesStay
<1>4. CASE offline # <<>>
  <2>1. PICK f \in Flushes :
          /\ flush[f] = Idle
          /\ flush' = [flush EXCEPT ![f] = [at |-> "encrypting", todo |-> offline, keep |-> <<>>]]
          /\ doubtful' = IF Flushing = {} THEN doubtful ELSE doubtful \cup ToSet(offline)
    BY <1>4 DEF StartFlush
  <2>2. offline \in Seq(Texts) /\ IsInjective(offline) /\ flush \in [Flushes -> FlushRow]
    BY DEF Typed
  <2>3. PICK row \in FlushRow : row = [at |-> "encrypting", todo |-> offline, keep |-> <<>>]
    BY <2>2, NoneTold DEF FlushRow
  <2>4. /\ row.at = "encrypting" /\ row.todo = offline /\ row.keep = <<>>
        /\ flush'[f] = row /\ \A g \in Flushes \ {f} : flush'[g] = flush[g]
    BY <2>1, <2>2, <2>3
  <2>5. CopyOK(row)
    BY <1>4, <2>2, <2>4, NoneTold DEF CopyOK
  <2>6. /\ Copy(f)' = Stored /\ Stored' = Stored /\ Queued' = Queued
        /\ \A g \in Flushes \ {f} : Copy(g)' = Copy(g)
    BY <2>4, NoneTold DEF Copy, Stored, Queued
  <2>7. Copy(f) = {} /\ Flushing' = Flushing \cup {f}
    BY <2>1, <2>4, SendingBounds DEF Copy, Flushing
  <2>8. QueueOK'
    BY <1>1, QueueStays
  <2>9. FlushesOK'
    <3>1. SUFFICES ASSUME NEW g \in Flushes PROVE FlushOK(g)'
      BY DEF FlushesOK
    <3>2. FlushOK(g) /\ (calls'[g].at # "none" => calls[g].at # "none" /\ calls'[g].text = calls[g].text)
      BY <1>1, SendingBounds DEF FlushesOK, CallsGoOn
    <3>3. CASE g = f
      <4>1. calls'[f].at = "none"
        BY <2>1, <3>2, <3>3, SendingBounds DEF FlushOK
      <4>2. Stored \subseteq written /\ Stored \cap Queued = {}
        BY <1>1 DEF QueueOK
      <4>3. QED
        BY <2>4, <2>5, <2>6, <3>3, <4>1, <4>2 DEF FlushOK
    <3>4. CASE g # f
      <4>1. flush'[g] = flush[g] /\ Copy(g)' = Copy(g)
        BY <2>4, <2>6, <3>4
      <4>2. QED
        BY <2>6, <3>2, <4>1 DEF FlushOK
    <3>5. QED
      BY <3>3, <3>4
  <2>10. CopiesAgree'
    <3>1. SUFFICES ASSUME NEW g \in Flushing', NEW u \in Texts \ Excused
                   PROVE  u \in Stored <=> u \in Copy(g)'
      BY <1>2, <2>6 DEF CopiesAgree
    <3>2. CASE g = f
      BY <2>6, <3>2
    <3>3. CASE g # f
      <4>1. g \in Flushing /\ g \in Flushes
        BY <2>7, <3>3 DEF Flushing
      <4>2. QED
        BY <1>1, <2>6, <3>3, <4>1 DEF CopiesAgree
    <3>4. QED
      BY <3>2, <3>3
  <2>11. NoTextVanishes'
    <3>1. ASSUME NEW u, u \in Queued \/ u \in Stored \/ \E g \in Flushes : u \in Copy(g)
          PROVE  u \in Queued' \/ u \in Stored' \/ \E g \in Flushes : u \in Copy(g)'
      BY <2>6, <2>7, <3>1
    <3>2. QED
      BY <1>1, <1>2, <3>1, HeldStays
  <2>12. ASSUME NEW u \in Texts PROVE OnceOK(u)'
    <3>1. OnceOK(u) /\ Sent(u) \in Nat /\ Sent(u)' = Sent(u)
      BY <1>1, <1>2, SentIs DEF AllOnce
    <3>2. \A c \in Callers : Lost(c, u) => Lost(c, u)'
      BY DEF Lost
    <3>3. Sent(u)' > 0 => u \in written'
      BY <3>1 DEF OnceOK
    <3>4. u \in Queued' => Sent(u)' = 0 \/ (Sent(u)' = 1 /\ Lost("queue", u)')
      BY <2>6, <3>1, <3>2, SendingBounds DEF OnceOK
    <3>5. ASSUME u \notin doubtful'
          PROVE  /\ Sent(u)' <= 1
                 /\ \A g1, g2 \in Flushes : u \in Copy(g1)' /\ u \in Copy(g2)' => g1 = g2
                 /\ \A g \in Flushes : u \in Copy(g)' => Sent(u)' = 0 \/ Lost(g, u)'
                 /\ u \in Stored' => Sent(u)' = 0 \/ Flushing' # {}
      <4>1. u \notin doubtful /\ (Flushing # {} => u \notin Stored)
        BY <2>1, <3>5 DEF Stored
      <4>2. CASE Flushing = {}
        <5>1. \A g \in Flushes : Copy(g) = {}
          <6>1. ASSUME NEW g \in Flushes PROVE Copy(g) = {}
            <7>1. flush[g] = Idle
              BY <1>1, <4>2 DEF FlushesOK, FlushOK, CopyOK, Flushing
            <7>2. QED
              BY <7>1, SendingBounds DEF Copy
          <6>2. QED
            BY <6>1
        <5>2. u \in Stored => Sent(u) = 0
          BY <3>1, <4>1, <4>2 DEF OnceOK
        <5>3. \A g \in Flushes : u \in Copy(g)' => g = f /\ u \in Stored
          BY <2>6, <5>1
        <5>4. QED
          BY <2>6, <3>1, <4>1, <5>2, <5>3 DEF OnceOK
      <4>3. CASE Flushing # {}
        <5>1. u \notin Stored /\ u \notin Stored' /\ u \notin Copy(f)'
          BY <2>6, <4>1, <4>3
        <5>2. \A g \in Flushes : u \in Copy(g)' => u \in Copy(g)
          BY <2>6, <5>1
        <5>3. QED
          BY <3>1, <3>2, <4>1, <5>1, <5>2, SendingBounds DEF OnceOK
      <4>4. QED
        BY <4>2, <4>3
    <3>6. QED
      BY <3>3, <3>4, <3>5 DEF OnceOK
  <2>13. QED
    BY <2>8, <2>9, <2>10, <2>11, <2>12 DEF QueuesOK, AllOnce
<1>5. QED
  BY <1>3, <1>4

LEMMA StartTyped ==
  ASSUME Typed, StartFlush
  PROVE  flush' \in [Flushes -> FlushRow] /\ doubtful' \subseteq Texts /\ doubtful \subseteq doubtful'
<1>1. flush \in [Flushes -> FlushRow] /\ doubtful \subseteq Texts /\ offline \in Seq(Texts)
  BY DEF Typed
<1>2. CASE offline = <<>>
  BY <1>1, <1>2 DEF StartFlush
<1>3. CASE offline # <<>>
  <2>1. PICK f \in Flushes :
          /\ flush' = [flush EXCEPT ![f] = [at |-> "encrypting", todo |-> offline, keep |-> <<>>]]
          /\ doubtful' = IF Flushing = {} THEN doubtful ELSE doubtful \cup ToSet(offline)
    BY <1>3 DEF StartFlush
  <2>2. PICK row \in FlushRow : row = [at |-> "encrypting", todo |-> offline, keep |-> <<>>]
    BY <1>1, NoneTold DEF FlushRow
  <2>3. flush' \in [Flushes -> FlushRow]
    BY <1>1, <2>1, <2>2
  <2>4. ToSet(offline) \subseteq Texts
    BY <1>1, ToldBounds
  <2>5. QED
    BY <1>1, <2>1, <2>3, <2>4
<1>4. QED
  BY <1>2, <1>3

-----------------------------------------------------------------------------
(* The reader                                                              *)

LEMMA ReaderTyped ==
  ASSUME Typed, NEW t \in Texts, NEW kind, ReaderGets(kind, t)
  PROVE  /\ frame' \subseteq Texts /\ drafts' \subseteq Texts /\ raced' \subseteq Texts
         /\ seen' \in [Texts -> Nat] /\ missed' \in BOOLEAN
<1>1. /\ frame \subseteq Texts /\ drafts \subseteq Texts /\ raced \subseteq Texts
      /\ seen \in [Texts -> Nat] /\ missed \in BOOLEAN
  BY DEF Typed
<1>2. CASE watching
  <2>1. frame' \subseteq Texts /\ drafts' \subseteq Texts /\ raced' \subseteq Texts /\ missed' = missed
    BY <1>1, <1>2, Zenon DEF ReaderGets
  <2>2. seen' = IF kind = "commit" THEN [seen EXCEPT ![t] = @ + 1] ELSE seen
    BY <1>2 DEF ReaderGets
  <2>3. seen' \in [Texts -> Nat]
    BY <1>1, <2>2
  <2>4. QED
    BY <1>1, <2>1, <2>3
<1>3. CASE ~watching
  BY <1>1, <1>3 DEF ReaderGets
<1>4. QED
  BY <1>2, <1>3

LEMMA ReaderMisses ==
  ASSUME NEW t, NEW kind, ReaderGets(kind, t), ~ missed', UNCHANGED watching
  PROVE  /\ ~ missed
         /\ frame' = IF kind = "draft" THEN frame \cup {t} ELSE frame
         /\ drafts' = IF Removes(kind) THEN drafts \ {t} ELSE drafts
         /\ seen' = IF kind = "commit" THEN [seen EXCEPT ![t] = @ + 1] ELSE seen
         /\ raced' = IF kind # "draft" /\ t \in frame THEN raced \cup {t} ELSE raced
<1>1. watching
  BY DEF ReaderGets
<1>2. QED
  BY <1>1, Zenon DEF ReaderGets

LEMMA DraftShown ==
  ASSUME Typed, ScreenOK, NEW t \in Texts, ReaderGets("draft", t), UNCHANGED watching,
         saving' = [saving EXCEPT ![t] = @ + 1], UNCHANGED <<rows, unannounced>>
  PROVE  ScreenOK'
<1>1. SUFFICES ASSUME ~ missed', NEW u \in Texts
               PROVE  /\ seen'[u] + unannounced'[u] = rows'[u]
                      /\ u \in (frame' \cup drafts') \ raced' => saving'[u] > 0
  BY DEF ScreenOK
<1>2. ~ missed /\ frame' = frame \cup {t} /\ drafts' = drafts /\ seen' = seen /\ raced' = raced
  BY <1>1, ReaderMisses DEF Removes
<1>3. saving \in [Texts -> Nat]
  BY DEF Typed
<1>4. seen[u] + unannounced[u] = rows[u] /\ (u \in (frame \cup drafts) \ raced => saving[u] > 0)
  BY <1>2 DEF ScreenOK
<1>5. QED
  BY <1>2, <1>3, <1>4

LEMMA DraftAnswered ==
  ASSUME Typed, ScreenOK, NEW t \in Texts, NEW kind \in {"commit", "rollback"}, ReaderGets(kind, t),
         UNCHANGED watching, saving' = [saving EXCEPT ![t] = @ - 1],
         NEW stored \in {0, 1}, rows' = [rows EXCEPT ![t] = @ + stored],
         kind = "commit" => stored = 1 /\ unannounced' = unannounced,
         kind = "rollback" => unannounced' = [unannounced EXCEPT ![t] = @ + stored]
  PROVE  ScreenOK'
<1>1. SUFFICES ASSUME ~ missed', NEW u \in Texts
               PROVE  /\ seen'[u] + unannounced'[u] = rows'[u]
                      /\ u \in (frame' \cup drafts') \ raced' => saving'[u] > 0
  BY DEF ScreenOK
<1>2. /\ ~ missed /\ frame' = frame /\ drafts' = drafts \ {t}
      /\ seen' = IF kind = "commit" THEN [seen EXCEPT ![t] = @ + 1] ELSE seen
      /\ raced' = IF t \in frame THEN raced \cup {t} ELSE raced
  BY <1>1, ReaderMisses DEF Removes
<1>3. /\ saving \in [Texts -> Nat] /\ rows \in [Texts -> Nat] /\ seen \in [Texts -> Nat]
      /\ unannounced \in [Texts -> Nat]
  BY DEF Typed
<1>4. seen[u] + unannounced[u] = rows[u] /\ (u \in (frame \cup drafts) \ raced => saving[u] > 0)
  BY <1>2 DEF ScreenOK
<1>5. CASE u # t
  BY <1>2, <1>3, <1>4, <1>5
<1>6. CASE u = t
  <2>1. u \notin (frame' \cup drafts') \ raced'
    BY <1>2, <1>6
  <2>2. seen'[u] + unannounced'[u] = rows'[u]
    <3>1. CASE kind = "commit"
      BY <1>2, <1>3, <1>4, <1>6, <3>1
    <3>2. CASE kind = "rollback"
      BY <1>2, <1>3, <1>4, <1>6, <3>2
    <3>3. QED
      BY <3>1, <3>2
  <2>3. QED
    BY <2>1, <2>2
<1>7. QED
  BY <1>5, <1>6

-----------------------------------------------------------------------------
(* The steps                                                               *)

LEMMA CallsTyped ==
  ASSUME calls \in [Callers -> CallRow]
  PROVE  /\ \A c \in Callers, r \in CallRow : [calls EXCEPT ![c] = r] \in [Callers -> CallRow]
         /\ \A at \in {"none", "buffered", "sent", "lost"}, t \in Texts :
               [at |-> at, text |-> t] \in CallRow
         /\ \A r \in CallRow, at \in {"sent", "lost"} :
               /\ [r EXCEPT !.at = at] \in CallRow
               /\ [r EXCEPT !.at = at].at = at /\ [r EXCEPT !.at = at].text = r.text
<1>1. ASSUME NEW r \in CallRow, NEW at \in {"sent", "lost"}
      PROVE  /\ [r EXCEPT !.at = at] \in CallRow
             /\ [r EXCEPT !.at = at].at = at /\ [r EXCEPT !.at = at].text = r.text
  BY DEF CallRow
<1>2. QED
  BY <1>1 DEF CallRow

LEMMA LateBounded ==
  ASSUME NEW a \in 0 .. MaxTroubles, NEW b \in 0 .. MaxFailures, NEW n \in Nat, n <= a + b
  PROVE  n \in 0 .. MaxTroubles + MaxFailures
<1>1. MaxTroubles \in Nat /\ MaxFailures \in Nat
  BY SendingAssumption
<1>2. n <= MaxTroubles + MaxFailures
  BY <1>1
<1>3. QED
  BY <1>1, <1>2

LEMMA SendMessageKeeps ==
  ASSUME SendingInv, NEW t \in Texts, SendMessage(t)
  PROVE  SendingInv'
<1>1. Typed /\ LateIsCounted /\ QueuesOK /\ ScreenOK /\ QueueOK /\ FlushesOK /\ CopiesAgree
      /\ AllOnce /\ NoTextVanishes
  BY DEF SendingInv, QueuesOK
<1> DEFINE shown == [bubble EXCEPT ![t] = IF onLine /\ up THEN "queued" ELSE "queued-offline"]
<1>2. /\ t \notin written /\ written' = written \cup {t}
      /\ IF active = <<>> THEN TakeNext(<<t>>, shown)
         ELSE outgoing' = Append(outgoing, t) /\ bubble' = shown /\ active' = active
      /\ UNCHANGED <<up, onLine, offline, flush, calls, late, server, screen, troubles,
                    failures, accepted, reported, reloaded, overtaken, doubtful, unannounced,
                    raced, missed>>
  BY DEF SendMessage
<1>3. UNCHANGED <<up, onLine, offline, flush, calls, late, saving, rows, watching, frame, drafts,
                  seen, troubles, failures, accepted, reported, reloaded, overtaken, doubtful,
                  unannounced, raced, missed>>
  BY <1>2 DEF server, screen
<1>4. outgoing \in Seq(Texts) /\ bubble \in Bubbles /\ written \subseteq Texts
      /\ active \in {<<>>} \cup {<<u>> : u \in Texts}
  BY <1>1 DEF Typed
<1>5. shown \in Bubbles
  BY <1>4 DEF Bubbles
<1>6. t \notin Queued /\ t \notin Stored /\ \A f \in Flushes : t \notin Copy(f)
  BY <1>1, <1>2 DEF QueueOK, FlushesOK, FlushOK
<1>7. /\ active' \in {<<>>} \cup {<<u>> : u \in Texts} /\ outgoing' \in Seq(Texts)
      /\ bubble' \in Bubbles /\ IsInjective(outgoing)' /\ ToSet(active)' \cap ToSet(outgoing)' = {}
      /\ Queued' = Queued \cup {t} /\ (active' = <<>> => outgoing' = <<>>)
      /\ active # <<>> => active' = active
  <2>1. CASE active = <<>>
    <3>1. TakeNext(<<t>>, shown) /\ outgoing = <<>>
      BY <1>1, <1>2, <2>1 DEF QueueOK
    <3>2. PICK queue \in Seq(Texts) : queue = <<t>>
      BY OneTold
    <3>3. TakeNext(queue, shown) /\ IsInjective(queue) /\ ToSet(queue) = {t}
      BY <3>1, <3>2, OneTold
    <3>4. PICK bubbles \in Bubbles : bubbles = shown
      BY <1>5
    <3>5. TakeNext(queue, bubbles)
      BY <3>3, <3>4
    <3>6. Queued = {}
      BY <2>1, <3>1, NoneTold DEF Queued
    <3>7. QED
      BY <2>1, <3>3, <3>5, <3>6, TakesNext
  <2>2. CASE active # <<>>
    <3>1. outgoing' = Append(outgoing, t) /\ bubble' = shown /\ active' = active
      BY <1>2, <2>2
    <3>2. /\ Append(outgoing, t) \in Seq(Texts)
          /\ ToSet(Append(outgoing, t)) = ToSet(outgoing) \cup {t}
          /\ IsInjective(outgoing) /\ t \notin ToSet(outgoing) => IsInjective(Append(outgoing, t))
      BY <1>4, AppendTold
    <3>3. IsInjective(outgoing) /\ ToSet(active) \cap ToSet(outgoing) = {}
      BY <1>1 DEF QueueOK
    <3>4. t \notin ToSet(outgoing) /\ t \notin ToSet(active)
      BY <1>6 DEF Queued
    <3>5. QED
      BY <1>4, <1>5, <2>2, <3>1, <3>2, <3>3, <3>4 DEF Queued
  <2>3. QED
    BY <2>1, <2>2
<1>8. Typed'
  BY <1>1, <1>2, <1>3, <1>4, <1>7 DEF Typed
<1>9. Stored' = Stored /\ (\A f : Copy(f)' = Copy(f)) /\ Excused' = Excused
      /\ Flushing' = Flushing /\ CallsGoOn
  BY <1>3 DEF Stored, Copy, Excused, Flushing, CallsGoOn
<1>10. QueueOK'
  <2>1. calls["queue"].at # "none" => active' = <<calls["queue"].text>>
    BY <1>1, <1>7 DEF QueueOK
  <2>2. Queued' \subseteq written' /\ Stored \subseteq written' /\ Queued' \cap Stored = {}
    BY <1>1, <1>2, <1>6, <1>7 DEF QueueOK
  <2>3. QED
    BY <1>3, <1>7, <1>9, <2>1, <2>2 DEF QueueOK
<1>11. FlushesOK'
  BY <1>1, <1>2, <1>3, <1>7, <1>9, FlushesStay
<1>12. CopiesAgree'
  BY <1>1, <1>3, <1>9, CopiesStay
<1>13. NoTextVanishes'
  BY <1>1, <1>2, <1>7, <1>9, HeldStays
<1>14. ASSUME NEW u \in Texts PROVE OnceOK(u)'
  <2>1. OnceOK(u) /\ Sent(u)' = Sent(u) /\ Sent(u) \in Nat
    BY <1>1, <1>3, SentIs DEF AllOnce, Sent
  <2>2. \A c \in Callers : Lost(c, u) => Lost(c, u)'
    BY <1>3 DEF Lost
  <2>3. u = t => Sent(u) = 0
    BY <1>2, <2>1 DEF OnceOK
  <2>4. QED
    BY <1>2, <1>3, <1>7, <1>9, <2>1, <2>2, <2>3, OnceStays, SendingBounds
<1>15. LateIsCounted' /\ ScreenOK'
  BY <1>1, <1>3 DEF LateIsCounted, ScreenOK
<1>16. QED
  BY <1>8, <1>10, <1>11, <1>12, <1>13, <1>14, <1>15 DEF SendingInv, QueuesOK, AllOnce

\* The text on its way, when the queue's call is about it or still to be made.
LEMMA OnItsWay ==
  ASSUME SendingInv, active # <<>>
  PROVE  /\ active[1] \in Texts /\ active = <<active[1]>> /\ active[1] \in Queued
         /\ ~ Lost("queue", active[1]) => Sent(active[1]) = 0
<1>1. Typed /\ AllOnce
  BY DEF SendingInv, QueuesOK
<1>2. active \in {<<>>} \cup {<<u>> : u \in Texts}
  BY <1>1 DEF Typed
<1>3. PICK t \in Texts : active = <<t>>
  BY <1>2
<1>4. active[1] = t
  BY <1>3
<1>5. t \in Queued
  BY <1>3, OneTold DEF Queued
<1>6. OnceOK(t)
  BY <1>1 DEF AllOnce
<1>7. QED
  BY <1>3, <1>4, <1>5, <1>6 DEF OnceOK

LEMMA EmitNextKeeps ==
  ASSUME SendingInv, EmitNext
  PROVE  SendingInv'
<1>1. Typed /\ LateIsCounted /\ QueuesOK /\ ScreenOK /\ QueueOK /\ FlushesOK /\ CopiesAgree
      /\ AllOnce /\ NoTextVanishes
  BY DEF SendingInv, QueuesOK
<1>2. active # <<>> /\ calls["queue"].at = "none"
  BY DEF EmitNext
<1>3. PICK t \in Texts : t = active[1] /\ active = <<t>> /\ t \in Queued /\ Sent(t) = 0
  BY <1>2, OnItsWay DEF Lost
<1>4. UNCHANGED <<up, onLine, flush, late, saving, rows, watching, frame, drafts, seen, troubles,
                  failures, written, accepted, reported, reloaded, doubtful, unannounced, raced,
                  missed>>
  BY DEF EmitNext, server, screen
<1>5. LateIsCounted' /\ ScreenOK' /\ \A u : Sent(u)' = Sent(u)
  BY <1>1, <1>4 DEF LateIsCounted, ScreenOK, Sent
<1>6. CASE onLine /\ up
  <2>1. PICK row \in CallRow : row = [at |-> "sent", text |-> t]
    BY <1>1, CallsTyped DEF Typed
  <2>2. /\ row.at = "sent" /\ row.text = t
        /\ calls' = [calls EXCEPT !["queue"] = row]
        /\ UNCHANGED <<outgoing, active, offline, bubble, overtaken>>
    BY <1>3, <1>6, <2>1 DEF EmitNext
  <2>3. calls \in [Callers -> CallRow] /\ "queue" \in Callers
    BY <1>1, SendingBounds DEF Typed
  <2>4. /\ calls' \in [Callers -> CallRow] /\ calls'["queue"] = row
        /\ \A f \in Flushes : calls'[f] = calls[f]
    BY <2>2, <2>3, SendingBounds
  <2>5. Typed'
    BY <1>1, <1>4, <2>2, <2>4 DEF Typed
  <2>6. Queued' = Queued /\ Stored' = Stored /\ (\A f : Copy(f)' = Copy(f)) /\ Flushing' = Flushing
        /\ Excused' = Excused
    BY <1>4, <2>2 DEF Queued, Stored, Copy, Flushing, Excused
  <2>7. QueueOK'
    BY <1>1, <1>3, <1>4, <2>2, <2>4, <2>6 DEF QueueOK
  <2>8. FlushesOK'
    <3>1. SUFFICES ASSUME NEW f \in Flushes PROVE FlushOK(f)'
      BY DEF FlushesOK
    <3>2. FlushOK(f) /\ calls'[f] = calls[f]
      BY <1>1, <2>4 DEF FlushesOK
    <3>3. QED
      BY <1>4, <2>6, <3>2 DEF FlushOK
  <2>9. CopiesAgree' /\ NoTextVanishes'
    BY <1>1, <1>4, <2>2, <2>6, CopiesStay, HeldStays
  <2>10. ASSUME NEW u \in Texts PROVE OnceOK(u)'
    <3>1. OnceOK(u) /\ Sent(u)' = Sent(u) /\ Sent(u) \in Nat
      BY <1>1, <1>5, SentIs DEF AllOnce
    <3>2. \A f \in Flushes : Lost(f, u) => Lost(f, u)'
      BY <2>4 DEF Lost
    <3>3. ~ Lost("queue", u)
      BY <1>2 DEF Lost
    <3>4. QED
      BY <1>4, <2>6, <3>1, <3>2, <3>3, OnceStays
  <2>11. QED
    BY <1>5, <2>5, <2>7, <2>8, <2>9, <2>10 DEF SendingInv, QueuesOK, AllOnce
<1>7. CASE ~(onLine /\ up)
  <2>1. PutOffline(t) /\ calls' = calls
    BY <1>3, <1>7 DEF EmitNext
  <2>2. /\ active' \in {<<>>} \cup {<<u>> : u \in Texts} /\ outgoing' \in Seq(Texts)
        /\ offline' \in Seq(Texts) /\ IsInjective(offline)' /\ bubble' \in Bubbles
        /\ overtaken' \subseteq Texts /\ overtaken \subseteq overtaken'
    BY <1>1, <1>3, <2>1, OfflineTyped
  <2>3. Typed'
    BY <1>1, <1>4, <2>1, <2>2 DEF Typed
  <2>4. Excused \subseteq Excused'
    BY <1>4, <2>2 DEF Excused
  <2>5. (\A u \in Texts \ {t} : Sent(u)' <= Sent(u)) /\ Sent(t)' = 0
    BY <1>1, <1>3, <1>5, SentIs
  <2>6. QueuesOK'
    BY <1>1, <1>2, <1>3, <1>4, <2>1, <2>3, <2>4, <2>5, MovesOffline
  <2>7. QED
    BY <1>5, <2>3, <2>6 DEF SendingInv
<1>8. QED
  BY <1>6, <1>7

LEMMA RefuseNextKeeps ==
  ASSUME SendingInv, RefuseNext
  PROVE  SendingInv'
<1>1. Typed /\ LateIsCounted /\ QueuesOK /\ ScreenOK /\ QueueOK
  BY DEF SendingInv, QueuesOK
<1>2. active # <<>> /\ calls["queue"].at = "none" /\ Failure
  BY DEF RefuseNext
<1>3. PICK t \in Texts : t = active[1] /\ active = <<t>> /\ t \in Queued /\ Sent(t) = 0
  BY <1>2, OnItsWay DEF Lost
<1>4. UNCHANGED <<up, onLine, flush, calls, late, saving, rows, watching, frame, drafts, seen,
                  troubles, written, accepted, reloaded, doubtful, unannounced, raced, missed>>
  BY DEF RefuseNext, server, screen
<1>5. ScreenOK' /\ \A u : Sent(u)' = Sent(u)
  BY <1>1, <1>4 DEF ScreenOK, Sent
<1>6. failures \in 0 .. MaxFailures /\ failures' = failures + 1 /\ failures' \in 0 .. MaxFailures
      /\ troubles \in 0 .. MaxTroubles
  BY <1>1, <1>2, SendingBounds DEF Typed, Failure
<1>7. LateIsCounted'
  <2>1. ASSUME NEW u \in Texts PROVE late[u] <= troubles + (failures + 1)
    BY <1>1, <1>6, SentIs, SendingBounds DEF LateIsCounted
  <2>2. QED
    BY <1>4, <1>6, <2>1 DEF LateIsCounted
<1>8. (\A u \in Texts \ {t} : Sent(u)' <= Sent(u)) /\ Sent(t)' = 0
  BY <1>1, <1>3, <1>5, SentIs
<1>9. ASSUME GiveUp(t), UNCHANGED <<offline, overtaken>> PROVE SendingInv'
  <2>1. GiveUp(t) /\ UNCHANGED <<offline, overtaken>>
    BY <1>9
  <2>2. bubble \in Bubbles /\ outgoing \in Seq(Texts) /\ IsInjective(outgoing)
    BY <1>1 DEF Typed, QueueOK
  <2>3. PICK bubbles \in Bubbles : bubbles = [bubble EXCEPT ![t] = "none"]
    BY <2>2 DEF Bubbles
  <2>4. TakeNext(outgoing, bubbles) /\ reported' = reported \cup {t}
    BY <2>1, <2>3 DEF GiveUp
  <2>5. PICK queue \in Seq(Texts) : queue = outgoing
    BY <2>2
  <2>6. TakeNext(queue, bubbles) /\ IsInjective(queue)
    BY <2>2, <2>4, <2>5
  <2>7. active' \in {<<>>} \cup {<<u>> : u \in Texts} /\ outgoing' \in Seq(Texts)
        /\ bubble' \in Bubbles
    BY <2>6, TakesNext
  <2>8. reported \subseteq Texts /\ reported' \subseteq Texts
    BY <1>1, <2>4 DEF Typed
  <2>9. Typed'
    BY <1>1, <1>4, <1>6, <2>1, <2>7, <2>8 DEF Typed
  <2>10. Excused \subseteq Excused' /\ t \in Excused'
    BY <1>4, <2>1, <2>4 DEF Excused
  <2>11. QueuesOK'
    <3>1. Sent(t)' <= 1 /\ calls'["queue"].at = "none" /\ \A f \in Flushes : calls'[f] = calls[f]
      BY <1>2, <1>4, <1>8
    <3>2. QED
      BY <1>1, <1>3, <1>4, <1>8, <2>1, <2>4, <2>9, <2>10, <3>1, LeavesQueue
  <2>12. QED
    BY <1>5, <1>7, <2>9, <2>11 DEF SendingInv
<1>10. ASSUME PutOffline(t), reported' = reported PROVE SendingInv'
  <2>1. PutOffline(t) /\ reported' = reported
    BY <1>10
  <2>2. /\ active' \in {<<>>} \cup {<<u>> : u \in Texts} /\ outgoing' \in Seq(Texts)
        /\ offline' \in Seq(Texts) /\ IsInjective(offline)' /\ bubble' \in Bubbles
        /\ overtaken' \subseteq Texts /\ overtaken \subseteq overtaken'
    BY <1>1, <1>3, <2>1, OfflineTyped
  <2>3. Typed'
    BY <1>1, <1>4, <1>6, <2>1, <2>2 DEF Typed
  <2>4. Excused \subseteq Excused'
    BY <1>4, <2>1, <2>2 DEF Excused
  <2>5. QueuesOK'
    <3>1. calls'["queue"].at = "none" /\ \A f \in Flushes : calls'[f] = calls[f]
      BY <1>2, <1>4
    <3>2. QED
      BY <1>1, <1>3, <1>4, <1>8, <2>1, <2>3, <2>4, <3>1, MovesOffline
  <2>6. QED
    BY <1>5, <1>7, <2>3, <2>5 DEF SendingInv
<1>11. QED
  BY <1>3, <1>9, <1>10 DEF RefuseNext

LEMMA FlushEmitKeeps ==
  ASSUME SendingInv, NEW f \in Flushes, FlushEmit(f)
  PROVE  SendingInv'
<1>1. Typed /\ LateIsCounted /\ QueuesOK /\ ScreenOK /\ QueueOK /\ FlushesOK /\ CopiesAgree
      /\ AllOnce /\ NoTextVanishes
  BY DEF SendingInv, QueuesOK
<1> DEFINE t == Head(flush[f].todo)
<1>2. /\ flush[f].at = "encrypting" /\ flush' = [flush EXCEPT ![f].at = "calling"]
      /\ calls' = [calls EXCEPT ![f] = [at |-> IF up THEN "sent" ELSE "buffered", text |-> t]]
      /\ bubble' = Mark(t, "sending")
      /\ UNCHANGED <<up, onLine, outgoing, active, offline, late, saving, rows, watching, frame,
                     drafts, seen, troubles, failures, written, accepted, reported, reloaded,
                     overtaken, doubtful, unannounced, raced, missed>>
  BY DEF FlushEmit, server, screen, history
<1>3. FlushOK(f) /\ flush[f].todo # <<>> /\ flush[f] \in FlushRow
      /\ f \in Callers /\ f # "queue" /\ f \in Flushing
  BY <1>1, <1>2, SendingBounds DEF FlushesOK, FlushOK, CopyOK, Typed, Flushing
<1>4. t \in Texts
  <2>1. PICK todo \in Seq(Texts) : todo = flush[f].todo
    BY <1>3, RowsTold
  <2>2. QED
    BY <1>3, <2>1, TailTold
<1>5. calls[f].at = "none"
  BY <1>2, <1>3 DEF FlushOK
<1>6. PICK row \in CallRow :
        row = [at |-> IF up THEN "sent" ELSE "buffered", text |-> t]
  BY <1>1, <1>4, CallsTyped DEF Typed
<1>7. row.at \in {"sent", "buffered"} /\ row.text = t
  BY <1>6
<1>8. /\ calls' \in [Callers -> CallRow] /\ calls'[f] = row
      /\ \A c \in Callers \ {f} : calls'[c] = calls[c]
  BY <1>1, <1>2, <1>3, <1>6 DEF Typed
<1>9. PICK copy \in FlushRow : /\ copy = [flush[f] EXCEPT !.at = "calling"] /\ copy.at = "calling"
                               /\ copy.todo = flush[f].todo /\ copy.keep = flush[f].keep
  <2>1. PICK r \in FlushRow : r = flush[f]
    BY <1>3
  <2>2. /\ [r EXCEPT !.at = "calling"] \in FlushRow
        /\ [r EXCEPT !.at = "calling"].at = "calling"
        /\ [r EXCEPT !.at = "calling"].todo = r.todo /\ [r EXCEPT !.at = "calling"].keep = r.keep
    BY DEF FlushRow
  <2>3. QED
    BY <2>1, <2>2
<1>10. /\ flush' \in [Flushes -> FlushRow] /\ flush'[f] = copy
       /\ \A g \in Flushes \ {f} : flush'[g] = flush[g]
  <2>1. flush' = [flush EXCEPT ![f] = copy] /\ flush \in [Flushes -> FlushRow]
    BY <1>1, <1>2, <1>9 DEF Typed
  <2>2. QED
    BY <2>1
<1>11. bubble' \in Bubbles
  BY <1>1, <1>2 DEF Typed, Mark, Bubbles
<1>12. Typed'
  BY <1>1, <1>2, <1>8, <1>10, <1>11 DEF Typed
<1>13. LateIsCounted' /\ ScreenOK' /\ \A u : Sent(u)' = Sent(u)
  BY <1>1, <1>2 DEF LateIsCounted, ScreenOK, Sent
<1>14. /\ Queued' = Queued /\ Stored' = Stored /\ Excused' = Excused
       /\ \A g \in Flushes : Copy(g)' = Copy(g)
  BY <1>2, <1>9, <1>10 DEF Queued, Stored, Excused, Copy
<1>15. \A g \in Flushes : flush'[g].at # "idle" <=> flush[g].at # "idle"
  BY <1>2, <1>9, <1>10
<1>16. Flushing' = Flushing
  BY <1>15 DEF Flushing
<1>17. QueueOK'
  BY <1>1, <1>2, <1>3, <1>8, <1>14, SendingBounds DEF QueueOK
<1>18. FlushesOK'
  <2>1. SUFFICES ASSUME NEW g \in Flushes PROVE FlushOK(g)'
    BY DEF FlushesOK
  <2>2. FlushOK(g)
    BY <1>1 DEF FlushesOK
  <2>3. CASE g = f
    <3>1. CopyOK(copy)
      BY <1>2, <1>3, <1>9 DEF FlushOK, CopyOK
    <3>2. QED
      BY <1>2, <1>7, <1>8, <1>9, <1>10, <1>14, <2>2, <2>3, <3>1 DEF FlushOK
  <2>4. CASE g # f
    <3>1. flush'[g] = flush[g] /\ calls'[g] = calls[g]
      BY <1>8, <1>10, <2>4, SendingBounds
    <3>2. QED
      BY <1>2, <1>14, <2>2, <3>1 DEF FlushOK
  <2>5. QED
    BY <2>3, <2>4
<1>19. CopiesAgree'
  <2>1. \A g \in Flushing : g \in Flushes
    BY DEF Flushing
  <2>2. QED
    BY <1>1, <1>14, <1>16, <2>1 DEF CopiesAgree
<1>20. NoTextVanishes'
  BY <1>1, <1>2, <1>14, HeldStays
<1>21. ASSUME NEW u \in Texts PROVE OnceOK(u)'
  <2>1. OnceOK(u) /\ Sent(u)' = Sent(u) /\ Sent(u) \in Nat
    BY <1>1, <1>13, SentIs DEF AllOnce
  <2>2. \A c \in Callers : Lost(c, u) => Lost(c, u)'
    <3>1. ASSUME NEW c \in Callers, Lost(c, u) PROVE Lost(c, u)'
      <4>1. c # f
        BY <1>5, <3>1 DEF Lost
      <4>2. QED
        BY <1>8, <3>1, <4>1 DEF Lost
    <3>2. QED
      BY <3>1
  <2>3. QED
    BY <1>2, <1>14, <1>16, <2>1, <2>2, OnceStays, SendingBounds
<1>22. QED
  BY <1>12, <1>13, <1>17, <1>18, <1>19, <1>20, <1>21 DEF SendingInv, QueuesOK, AllOnce

LEMMA HeadOfCopy ==
  ASSUME Typed, NEW f \in Flushes, CopyOK(flush[f]), flush[f].at # "idle"
  PROVE  Head(flush[f].todo) \in Texts /\ Head(flush[f].todo) \in Copy(f)
<1>1. PICK todo \in Seq(Texts) : todo = flush[f].todo
  BY RowsTold DEF Typed
<1>2. todo # <<>>
  BY <1>1 DEF CopyOK
<1>3. Head(todo) \in ToSet(todo) /\ Head(todo) \in Texts
  BY <1>2, TailTold
<1>4. QED
  BY <1>1, <1>3 DEF Copy

LEMMA FlushKeepKeeps ==
  ASSUME SendingInv, NEW f \in Flushes, FlushKeep(f)
  PROVE  SendingInv'
<1>1. Typed /\ LateIsCounted /\ QueuesOK /\ ScreenOK /\ QueueOK /\ FlushesOK /\ AllOnce
  BY DEF SendingInv, QueuesOK
<1>2. /\ flush[f].at = "encrypting" /\ Failure
      /\ FlushOn(f, Append(flush[f].keep, Head(flush[f].todo)))
      /\ UNCHANGED <<up, onLine, outgoing, active, calls, late, saving, rows, watching, frame,
                     drafts, seen, bubble, troubles, written, accepted, reported, reloaded,
                     overtaken, doubtful, unannounced, raced, missed>>
  BY DEF FlushKeep, server, screen, history
<1>3. FlushOK(f) /\ CopyOK(flush[f]) /\ flush[f].at # "idle" /\ f \in Callers
  BY <1>1, <1>2, SendingBounds DEF FlushesOK, FlushOK
<1>4. calls[f].at = "none"
  BY <1>2, <1>3 DEF FlushOK
<1>5. PICK kept \in BOOLEAN : kept
  OBVIOUS
<1>6. FlushOn(f, IF kept THEN Append(flush[f].keep, Head(flush[f].todo)) ELSE flush[f].keep)
  BY <1>2, <1>5
<1>7. /\ flush' \in [Flushes -> FlushRow] /\ offline' \in Seq(Texts) /\ IsInjective(offline)'
  BY <1>1, <1>3, <1>6, FlushGoesOn
<1>8. failures \in 0 .. MaxFailures /\ failures' = failures + 1 /\ failures' \in 0 .. MaxFailures
      /\ troubles \in 0 .. MaxTroubles
  BY <1>1, <1>2, SendingBounds DEF Typed, Failure
<1>9. Typed'
  BY <1>1, <1>2, <1>7, <1>8 DEF Typed
<1>10. LateIsCounted'
  <2>1. ASSUME NEW u \in Texts PROVE late[u] <= troubles + (failures + 1)
    BY <1>1, <1>8, SentIs, SendingBounds DEF LateIsCounted
  <2>2. QED
    BY <1>2, <1>8, <2>1 DEF LateIsCounted
<1>11. ScreenOK' /\ (\A u : Sent(u)' = Sent(u)) /\ Excused' = Excused
  BY <1>1, <1>2 DEF ScreenOK, Sent, Excused
<1>12. \A u \in Texts : Sent(u)' <= Sent(u)
  BY <1>1, <1>11, SentIs
<1>13. PICK h \in Texts : h = Head(flush[f].todo) /\ h \in Copy(f)
  BY <1>1, <1>3, HeadOfCopy
<1>14. h \in doubtful' \/ Sent(h)' = 0
  <2>1. OnceOK(h) /\ ~ Lost(f, h) /\ doubtful' = doubtful
    BY <1>1, <1>2, <1>4, <1>13 DEF AllOnce, Lost
  <2>2. QED
    BY <1>11, <1>13, <2>1 DEF OnceOK
<1>15. QueuesOK'
  <2>1. h \in doubtful' \/ (kept /\ Sent(h)' = 0)
    BY <1>5, <1>14
  <2>2. kept /\ calls'[f].at = "none" /\ \A c \in Callers \ {f} : calls'[c] = calls[c]
    BY <1>2, <1>4, <1>5
  <2>3. /\ Excused \subseteq Excused' /\ doubtful \subseteq doubtful'
        /\ UNCHANGED <<outgoing, active, written>>
    BY <1>2, <1>11
  <2>4. QED
    BY <1>1, <1>3, <1>6, <1>9, <1>12, <1>13, <2>1, <2>2, <2>3, FlushMoves
<1>16. QED
  BY <1>9, <1>10, <1>11, <1>15 DEF SendingInv

LEMMA TimeOutKeeps ==
  ASSUME SendingInv, NEW c \in Callers, TimeOut(c)
  PROVE  SendingInv'
<1>1. Typed /\ LateIsCounted /\ QueuesOK /\ ScreenOK /\ QueueOK /\ FlushesOK /\ AllOnce
  BY DEF SendingInv, QueuesOK
<1>2. PICK t \in Texts : t = calls[c].text
  BY <1>1, RowsTold DEF Typed
<1>3. /\ calls[c].at \in {"buffered", "sent", "lost"}
      /\ calls' = [calls EXCEPT ![c] = NoCall]
      /\ IF calls[c].at = "sent" THEN Failure /\ late' = [late EXCEPT ![t] = @ + 1]
         ELSE UNCHANGED <<failures, late>>
      /\ doubtful' = IF calls[c].at = "buffered" THEN doubtful ELSE doubtful \cup {t}
      /\ IF c = "queue" THEN PutOffline(t) /\ UNCHANGED flush
         ELSE FlushOn(c, Append(flush[c].keep, t)) /\ UNCHANGED <<active, outgoing, bubble, overtaken>>
      /\ UNCHANGED <<up, onLine, saving, rows, watching, frame, drafts, seen, troubles, written,
                     accepted, reported, reloaded, unannounced, raced, missed>>
  BY <1>2 DEF TimeOut, server, screen
<1>4. /\ calls' \in [Callers -> CallRow] /\ calls'[c].at = "none"
      /\ \A k \in Callers \ {c} : calls'[k] = calls[k]
  BY <1>1, <1>3, SendingBounds DEF Typed
<1>5. /\ failures' \in 0 .. MaxFailures /\ troubles \in 0 .. MaxTroubles
      /\ \A u \in Texts : late'[u] \in Nat /\ late'[u] <= troubles + failures'
      /\ \A u \in Texts \ {t} : late'[u] = late[u]
      /\ late'[t] <= late[t] + 1 /\ (calls[c].at # "sent" => late'[t] = late[t])
      /\ DOMAIN late' = Texts /\ late' = [u \in Texts |-> late'[u]]
  <2>1. /\ failures \in 0 .. MaxFailures /\ troubles \in 0 .. MaxTroubles
        /\ late \in [Texts -> 0 .. MaxTroubles + MaxFailures]
        /\ \A u \in Texts : late[u] \in Nat /\ late[u] <= troubles + failures
    BY <1>1, SentIs DEF Typed, LateIsCounted
  <2>2. CASE calls[c].at = "sent"
    <3>1. failures' = failures + 1 /\ failures' \in 0 .. MaxFailures
      BY <1>3, <2>1, <2>2, SendingBounds DEF Failure
    <3>2. late' = [late EXCEPT ![t] = @ + 1]
      BY <1>3, <2>2
    <3>3. /\ late'[t] = late[t] + 1 /\ \A u \in Texts \ {t} : late'[u] = late[u]
          /\ DOMAIN late' = Texts /\ late' = [u \in Texts |-> late'[u]]
      BY <2>1, <3>2
    <3>4. ASSUME NEW u \in Texts PROVE late'[u] \in Nat /\ late'[u] <= troubles + failures'
      <4>1. late[u] \in Nat /\ late[u] <= troubles + failures
        BY <2>1
      <4>2. QED
        BY <2>1, <3>1, <3>3, <4>1
    <3>5. QED
      BY <2>1, <2>2, <3>1, <3>3, <3>4
  <2>3. CASE calls[c].at # "sent"
    BY <1>3, <2>1, <2>3
  <2>4. QED
    BY <2>2, <2>3
<1>6. late' \in [Texts -> 0 .. MaxTroubles + MaxFailures]
  <2>1. ASSUME NEW u \in Texts PROVE late'[u] \in 0 .. MaxTroubles + MaxFailures
    <3>1. PICK n \in Nat : n = late'[u]
      BY <1>5
    <3>2. n <= troubles + failures'
      BY <1>5, <3>1
    <3>3. QED
      BY <1>5, <3>1, <3>2, LateBounded
  <2>2. QED
    BY <1>5, <2>1
<1>7. LateIsCounted' /\ ScreenOK'
  BY <1>1, <1>3, <1>5 DEF LateIsCounted, ScreenOK
<1>8. \A u \in Texts \ {t} : Sent(u)' <= Sent(u)
  <2>1. ASSUME NEW u \in Texts \ {t} PROVE Sent(u)' = Sent(u)
    BY <1>3, <1>5 DEF Sent
  <2>2. QED
    BY <1>1, <2>1, SentIs
<1>9. Sent(t)' <= Sent(t) + 1 /\ (calls[c].at # "sent" => Sent(t)' = Sent(t))
  <2>1. /\ late[t] \in Nat /\ late'[t] \in Nat /\ saving'[t] = saving[t] /\ rows'[t] = rows[t]
        /\ saving[t] \in Nat /\ rows[t] \in Nat
    BY <1>1, <1>3, <1>5, SentIs
  <2>2. QED
    BY <1>5, <2>1 DEF Sent
<1>10. /\ doubtful \subseteq doubtful' /\ doubtful' \subseteq Texts
       /\ calls[c].at # "buffered" => t \in doubtful'
  BY <1>1, <1>3 DEF Typed
<1>11. CASE c = "queue"
  <2>1. PutOffline(t) /\ UNCHANGED flush
    BY <1>3, <1>11
  <2>2. active = <<t>>
    BY <1>1, <1>2, <1>3, <1>11 DEF QueueOK
  <2>3. /\ active' \in {<<>>} \cup {<<u>> : u \in Texts} /\ outgoing' \in Seq(Texts)
        /\ offline' \in Seq(Texts) /\ IsInjective(offline)' /\ bubble' \in Bubbles
        /\ overtaken' \subseteq Texts /\ overtaken \subseteq overtaken'
    BY <1>1, <2>1, <2>2, OfflineTyped
  <2>4. Typed'
    BY <1>1, <1>3, <1>4, <1>5, <1>6, <1>10, <2>1, <2>3 DEF Typed
  <2>5. Excused \subseteq Excused'
    BY <1>3, <2>3 DEF Excused
  <2>6. Sent(t)' = 0 \/ (t \in doubtful' /\ Sent(t)' <= Sent(t) + 1)
    <3>1. CASE calls[c].at = "buffered"
      <4>1. OnceOK(t) /\ t \in Queued /\ ~ Lost("queue", t)
        BY <1>1, <1>11, <2>2, <3>1, OneTold DEF AllOnce, Lost, Queued
      <4>2. Sent(t)' = Sent(t)
        BY <1>9, <3>1
      <4>3. QED
        BY <4>1, <4>2 DEF OnceOK
    <3>2. CASE calls[c].at # "buffered"
      BY <1>9, <1>10, <3>2
    <3>3. QED
      BY <3>1, <3>2
  <2>7. QueuesOK'
    <3>1. calls'["queue"].at = "none" /\ \A f \in Flushes : calls'[f] = calls[f]
      BY <1>4, <1>11, SendingBounds
    <3>2. UNCHANGED <<flush, written>>
      BY <1>3, <2>1
    <3>3. QED
      BY <1>1, <1>8, <1>10, <2>1, <2>2, <2>4, <2>5, <2>6, <3>1, <3>2, MovesOffline
  <2>8. QED
    BY <1>7, <2>4, <2>7 DEF SendingInv
<1>12. CASE c \in Flushes
  <2>1. c # "queue"
    BY <1>12, SendingBounds
  <2>2. FlushOn(c, Append(flush[c].keep, t)) /\ UNCHANGED <<active, outgoing, bubble, overtaken>>
    BY <1>3, <2>1
  <2>3. FlushOK(c) /\ CopyOK(flush[c]) /\ flush[c].at # "idle" /\ t = Head(flush[c].todo)
    BY <1>1, <1>2, <1>3, <1>12 DEF FlushesOK, FlushOK
  <2>4. PICK kept \in BOOLEAN : kept
    OBVIOUS
  <2>5. FlushOn(c, IF kept THEN Append(flush[c].keep, Head(flush[c].todo)) ELSE flush[c].keep)
    BY <2>2, <2>3, <2>4
  <2>6. /\ flush' \in [Flushes -> FlushRow] /\ offline' \in Seq(Texts) /\ IsInjective(offline)'
    BY <1>1, <1>12, <2>3, <2>5, FlushGoesOn
  <2>7. Typed'
    BY <1>1, <1>3, <1>4, <1>5, <1>6, <1>10, <2>2, <2>6 DEF Typed
  <2>8. Excused \subseteq Excused'
    BY <1>3, <2>2 DEF Excused
  <2>9. t \in doubtful' \/ (kept /\ Sent(t)' = 0)
    <3>1. CASE calls[c].at = "buffered"
      <4>1. t \in Copy(c)
        BY <1>1, <1>12, <2>3, HeadOfCopy
      <4>2. OnceOK(t) /\ ~ Lost(c, t) /\ doubtful' = doubtful /\ Sent(t)' = Sent(t)
        BY <1>1, <1>3, <1>9, <3>1 DEF AllOnce, Lost
      <4>3. QED
        BY <1>12, <2>4, <4>1, <4>2 DEF OnceOK
    <3>2. CASE calls[c].at # "buffered"
      BY <1>10, <3>2
    <3>3. QED
      BY <3>1, <3>2
  <2>10. QueuesOK'
    <3>1. UNCHANGED <<outgoing, active, written>>
      BY <1>3, <2>2
    <3>2. QED
      BY <1>1, <1>4, <1>8, <1>10, <1>12, <2>3, <2>4, <2>5, <2>7, <2>8, <2>9, <3>1, FlushMoves
  <2>11. QED
    BY <1>7, <2>7, <2>10 DEF SendingInv
<1>13. QED
  BY <1>11, <1>12, SendingBounds

LEMMA AcceptTyped ==
  ASSUME Typed, ScreenOK, NEW t \in Texts, Accept(t), UNCHANGED <<rows, unannounced, watching>>
  PROVE  /\ frame' \subseteq Texts /\ drafts' \subseteq Texts /\ raced' \subseteq Texts
         /\ seen' \in [Texts -> Nat] /\ missed' \in BOOLEAN
         /\ saving' \in [Texts -> Nat] /\ accepted' \subseteq Texts
         /\ accepted \subseteq accepted' /\ t \in accepted' /\ ScreenOK'
         /\ saving'[t] = saving[t] + 1 /\ \A u \in Texts \ {t} : saving'[u] = saving[u]
<1>1. /\ saving' = [saving EXCEPT ![t] = @ + 1] /\ ReaderGets("draft", t)
      /\ accepted' = accepted \cup {t} /\ saving \in [Texts -> Nat] /\ accepted \subseteq Texts
  BY DEF Accept, Typed
<1>2. /\ frame' \subseteq Texts /\ drafts' \subseteq Texts /\ raced' \subseteq Texts
      /\ seen' \in [Texts -> Nat] /\ missed' \in BOOLEAN
  BY <1>1, ReaderTyped
<1>3. ScreenOK'
  BY <1>1, DraftShown
<1>4. /\ saving' \in [Texts -> Nat] /\ saving'[t] = saving[t] + 1
      /\ \A u \in Texts \ {t} : saving'[u] = saving[u]
  BY <1>1
<1>5. QED
  BY <1>1, <1>2, <1>3, <1>4

LEMMA HandleMessageKeeps ==
  ASSUME SendingInv, NEW c \in Callers, HandleMessage(c)
  PROVE  SendingInv'
<1>1. Typed /\ LateIsCounted /\ QueuesOK /\ ScreenOK /\ QueueOK /\ FlushesOK /\ AllOnce
  BY DEF SendingInv, QueuesOK
<1>2. PICK t \in Texts : t = calls[c].text
  BY <1>1, RowsTold DEF Typed
<1>3. /\ calls[c].at = "sent" /\ calls' = [calls EXCEPT ![c] = NoCall] /\ Accept(t)
      /\ IF c = "queue" THEN TakeNext(outgoing, bubble) /\ UNCHANGED <<flush, offline>>
         ELSE FlushOn(c, flush[c].keep) /\ UNCHANGED <<active, outgoing, bubble>>
      /\ UNCHANGED <<up, onLine, late, rows, watching, troubles, failures, written, reported,
                     reloaded, overtaken, doubtful, unannounced>>
  BY <1>2 DEF HandleMessage
<1>4. /\ calls' \in [Callers -> CallRow] /\ calls'[c].at = "none"
      /\ \A k \in Callers \ {c} : calls'[k] = calls[k]
  BY <1>1, <1>3, SendingBounds DEF Typed
<1>5. /\ frame' \subseteq Texts /\ drafts' \subseteq Texts /\ raced' \subseteq Texts
      /\ seen' \in [Texts -> Nat] /\ missed' \in BOOLEAN
      /\ saving' \in [Texts -> Nat] /\ accepted' \subseteq Texts
      /\ accepted \subseteq accepted' /\ t \in accepted' /\ ScreenOK'
      /\ saving'[t] = saving[t] + 1 /\ \A u \in Texts \ {t} : saving'[u] = saving[u]
  BY <1>1, <1>3, AcceptTyped
<1>6. LateIsCounted'
  BY <1>1, <1>3 DEF LateIsCounted
<1>7. \A u \in Texts \ {t} : Sent(u)' <= Sent(u)
  <2>1. ASSUME NEW u \in Texts \ {t} PROVE Sent(u)' = Sent(u)
    BY <1>3, <1>5 DEF Sent
  <2>2. QED
    BY <1>1, <2>1, SentIs
<1>8. Sent(t)' = Sent(t) + 1
  <2>1. late[t] \in Nat /\ saving[t] \in Nat /\ rows[t] \in Nat
    BY <1>1, SentIs
  <2>2. QED
    BY <1>3, <1>5, <2>1 DEF Sent
<1>9. Excused \subseteq Excused' /\ t \in Excused'
  BY <1>3, <1>5 DEF Excused
<1>10. ~ Lost(c, t)
  BY <1>3 DEF Lost
<1>11. CASE c = "queue"
  <2>1. TakeNext(outgoing, bubble) /\ UNCHANGED <<flush, offline>> /\ active = <<t>>
    BY <1>1, <1>2, <1>3, <1>11 DEF QueueOK
  <2>2. /\ outgoing \in Seq(Texts) /\ IsInjective(outgoing) /\ bubble \in Bubbles
        /\ offline \in Seq(Texts) /\ IsInjective(offline)
    BY <1>1 DEF Typed, QueueOK
  <2>3. PICK queue \in Seq(Texts), bubbles \in Bubbles : queue = outgoing /\ bubbles = bubble
    BY <2>2
  <2>4. TakeNext(queue, bubbles) /\ IsInjective(queue)
    BY <2>1, <2>2, <2>3
  <2>5. active' \in {<<>>} \cup {<<u>> : u \in Texts} /\ outgoing' \in Seq(Texts)
        /\ bubble' \in Bubbles
    BY <2>4, TakesNext
  <2>6. Typed'
    BY <1>1, <1>3, <1>4, <1>5, <2>1, <2>5 DEF Typed
  <2>7. Sent(t) = 0 /\ Sent(t)' <= 1
    <3>1. OnceOK(t) /\ t \in Queued
      BY <1>1, <2>1, OneTold DEF AllOnce, Queued
    <3>2. Sent(t) = 0
      BY <1>10, <1>11, <3>1 DEF OnceOK
    <3>3. QED
      BY <1>8, <3>2
  <2>8. QueuesOK'
    <3>1. calls'["queue"].at = "none" /\ \A f \in Flushes : calls'[f] = calls[f]
      BY <1>4, <1>11, SendingBounds
    <3>2. UNCHANGED <<flush, offline, written, doubtful>>
      BY <1>3, <2>1
    <3>3. TakeNext(outgoing, bubbles)
      BY <2>1, <2>3
    <3>4. QED
      BY <1>1, <1>7, <1>9, <2>1, <2>6, <2>7, <3>1, <3>2, <3>3, LeavesQueue
  <2>9. QED
    BY <1>5, <1>6, <2>6, <2>8 DEF SendingInv
<1>12. CASE c \in Flushes
  <2>1. c # "queue"
    BY <1>12, SendingBounds
  <2>2. FlushOn(c, flush[c].keep) /\ UNCHANGED <<active, outgoing, bubble>>
    BY <1>3, <2>1
  <2>3. FlushOK(c) /\ CopyOK(flush[c]) /\ flush[c].at # "idle" /\ t = Head(flush[c].todo)
    BY <1>1, <1>2, <1>3, <1>12 DEF FlushesOK, FlushOK
  <2>4. PICK kept \in BOOLEAN : ~kept
    OBVIOUS
  <2>5. FlushOn(c, IF kept THEN Append(flush[c].keep, Head(flush[c].todo)) ELSE flush[c].keep)
    BY <2>2, <2>4
  <2>6. /\ flush' \in [Flushes -> FlushRow] /\ offline' \in Seq(Texts) /\ IsInjective(offline)'
    BY <1>1, <1>12, <2>3, <2>5, FlushGoesOn
  <2>7. Typed'
    BY <1>1, <1>3, <1>4, <1>5, <2>2, <2>6 DEF Typed
  <2>8. t \in doubtful' \/ (~kept /\ Sent(t)' <= 1)
    <3>1. t \in Copy(c)
      BY <1>1, <1>12, <2>3, HeadOfCopy
    <3>2. OnceOK(t) /\ doubtful' = doubtful
      BY <1>1, <1>3 DEF AllOnce
    <3>3. QED
      BY <1>8, <1>10, <1>12, <2>4, <3>1, <3>2 DEF OnceOK
  <2>9. QueuesOK'
    <3>1. UNCHANGED <<outgoing, active, written>> /\ doubtful \subseteq doubtful'
      BY <1>3, <2>2
    <3>2. QED
      BY <1>1, <1>4, <1>7, <1>9, <1>12, <2>3, <2>5, <2>7, <2>8, <3>1, FlushMoves
  <2>10. QED
    BY <1>5, <1>6, <2>7, <2>9 DEF SendingInv
<1>13. QED
  BY <1>11, <1>12, SendingBounds

LEMMA RefuseMessageKeeps ==
  ASSUME SendingInv, NEW c \in Callers, RefuseMessage(c)
  PROVE  SendingInv'
<1>1. Typed /\ LateIsCounted /\ QueuesOK /\ ScreenOK
  BY DEF SendingInv
<1>2. /\ calls[c].at = "sent" /\ Failure /\ calls' = [calls EXCEPT ![c].at = "lost"]
      /\ UNCHANGED <<up, onLine, outgoing, active, offline, flush, bubble, late, saving, rows,
                     watching, frame, drafts, seen, troubles, written, accepted, reported,
                     reloaded, overtaken, doubtful, unannounced, raced, missed>>
  BY DEF RefuseMessage, outbox, server, screen, history
<1>3. PICK r \in CallRow : r = calls[c]
  BY <1>1 DEF Typed
<1>4. PICK row \in CallRow : row = [r EXCEPT !.at = "lost"] /\ row.at = "lost" /\ row.text = r.text
  BY <1>1, CallsTyped DEF Typed
<1>5. /\ calls' \in [Callers -> CallRow] /\ calls'[c] = row
      /\ \A k \in Callers \ {c} : calls'[k] = calls[k]
  <2>1. calls \in [Callers -> CallRow] /\ calls' = [calls EXCEPT ![c] = row]
    BY <1>1, <1>2, <1>3, <1>4 DEF Typed
  <2>2. QED
    BY <2>1
<1>6. failures \in 0 .. MaxFailures /\ failures' = failures + 1 /\ failures' \in 0 .. MaxFailures
      /\ troubles \in 0 .. MaxTroubles
  BY <1>1, <1>2, SendingBounds DEF Typed, Failure
<1>7. Typed'
  BY <1>1, <1>2, <1>5, <1>6 DEF Typed
<1>8. LateIsCounted'
  <2>1. ASSUME NEW u \in Texts PROVE late[u] <= troubles + (failures + 1)
    BY <1>1, <1>6, SentIs, SendingBounds DEF LateIsCounted
  <2>2. QED
    BY <1>2, <1>6, <2>1 DEF LateIsCounted
<1>9. ScreenOK' /\ (\A u : Sent(u)' = Sent(u)) /\ Excused' = Excused
  BY <1>1, <1>2 DEF ScreenOK, Sent, Excused
<1>10. \A u \in Texts : Sent(u)' <= Sent(u)
  BY <1>1, <1>9, SentIs
<1>11. CallsGoOn /\ \A k \in Callers : calls[k].at = "lost" => calls'[k] = calls[k]
  BY <1>2, <1>3, <1>4, <1>5 DEF CallsGoOn
<1>12. QueuesOK'
  BY <1>1, <1>2, <1>7, <1>9, <1>10, <1>11, QueuesStay
<1>13. QED
  BY <1>7, <1>8, <1>9, <1>12 DEF SendingInv

LEMMA RejectMessageKeeps ==
  ASSUME SendingInv, NEW c \in Callers, RejectMessage(c)
  PROVE  SendingInv'
<1>1. Typed /\ LateIsCounted /\ QueuesOK /\ ScreenOK /\ QueueOK /\ FlushesOK /\ AllOnce
  BY DEF SendingInv, QueuesOK
<1>2. PICK t \in Texts : t = calls[c].text
  BY <1>1, RowsTold DEF Typed
<1>3. /\ calls[c].at = "sent" /\ Failure /\ calls' = [calls EXCEPT ![c] = NoCall]
      /\ IF c = "queue" THEN GiveUp(t) /\ UNCHANGED <<flush, offline>>
         ELSE /\ FlushOn(c, Append(flush[c].keep, t))
              /\ UNCHANGED <<active, outgoing, bubble, reported>>
      /\ UNCHANGED <<up, onLine, late, saving, rows, watching, frame, drafts, seen, troubles,
                     written, accepted, reloaded, overtaken, doubtful, unannounced, raced,
                     missed>>
  BY <1>2 DEF RejectMessage, server, screen
<1>4. /\ calls' \in [Callers -> CallRow] /\ calls'[c].at = "none"
      /\ \A k \in Callers \ {c} : calls'[k] = calls[k]
  BY <1>1, <1>3, SendingBounds DEF Typed
<1>5. failures \in 0 .. MaxFailures /\ failures' = failures + 1 /\ failures' \in 0 .. MaxFailures
      /\ troubles \in 0 .. MaxTroubles
  BY <1>1, <1>3, SendingBounds DEF Typed, Failure
<1>6. LateIsCounted'
  <2>1. ASSUME NEW u \in Texts PROVE late[u] <= troubles + (failures + 1)
    BY <1>1, <1>5, SentIs, SendingBounds DEF LateIsCounted
  <2>2. QED
    BY <1>3, <1>5, <2>1 DEF LateIsCounted
<1>7. ScreenOK' /\ \A u : Sent(u)' = Sent(u)
  BY <1>1, <1>3 DEF ScreenOK, Sent
<1>8. \A u \in Texts \ {t} : Sent(u)' <= Sent(u)
  BY <1>1, <1>7, SentIs
<1>9. ~ Lost(c, t) /\ OnceOK(t)
  BY <1>1, <1>3 DEF Lost, AllOnce
<1>10. CASE c = "queue"
  <2>1. GiveUp(t) /\ UNCHANGED <<flush, offline>> /\ active = <<t>>
    BY <1>1, <1>2, <1>3, <1>10 DEF QueueOK
  <2>2. bubble \in Bubbles /\ outgoing \in Seq(Texts) /\ IsInjective(outgoing)
    BY <1>1 DEF Typed, QueueOK
  <2>3. PICK bubbles \in Bubbles : bubbles = [bubble EXCEPT ![t] = "none"]
    BY <2>2 DEF Bubbles
  <2>4. TakeNext(outgoing, bubbles) /\ reported' = reported \cup {t}
    BY <2>1, <2>3 DEF GiveUp
  <2>5. PICK queue \in Seq(Texts) : queue = outgoing
    BY <2>2
  <2>6. TakeNext(queue, bubbles) /\ IsInjective(queue)
    BY <2>2, <2>4, <2>5
  <2>7. active' \in {<<>>} \cup {<<u>> : u \in Texts} /\ outgoing' \in Seq(Texts)
        /\ bubble' \in Bubbles
    BY <2>6, TakesNext
  <2>8. reported \subseteq Texts /\ reported' \subseteq Texts
    BY <1>1, <2>4 DEF Typed
  <2>9. Typed'
    BY <1>1, <1>3, <1>4, <1>5, <2>1, <2>7, <2>8 DEF Typed
  <2>10. Excused \subseteq Excused' /\ t \in Excused'
    BY <1>3, <2>4 DEF Excused
  <2>11. Sent(t) = 0 /\ Sent(t)' <= 1
    <3>1. t \in Queued
      BY <2>1, OneTold DEF Queued
    <3>2. QED
      BY <1>7, <1>9, <1>10, <3>1 DEF OnceOK
  <2>12. QueuesOK'
    <3>1. calls'["queue"].at = "none" /\ \A f \in Flushes : calls'[f] = calls[f]
      BY <1>4, <1>10, SendingBounds
    <3>2. UNCHANGED <<flush, offline, written, doubtful>>
      BY <1>3, <2>1
    <3>3. QED
      BY <1>1, <1>8, <2>1, <2>4, <2>9, <2>10, <2>11, <3>1, <3>2, LeavesQueue
  <2>13. QED
    BY <1>6, <1>7, <2>9, <2>12 DEF SendingInv
<1>11. CASE c \in Flushes
  <2>1. c # "queue"
    BY <1>11, SendingBounds
  <2>2. /\ FlushOn(c, Append(flush[c].keep, t))
        /\ UNCHANGED <<active, outgoing, bubble, reported>>
    BY <1>3, <2>1
  <2>3. FlushOK(c) /\ CopyOK(flush[c]) /\ flush[c].at # "idle" /\ t = Head(flush[c].todo)
    BY <1>1, <1>2, <1>3, <1>11 DEF FlushesOK, FlushOK
  <2>4. PICK kept \in BOOLEAN : kept
    OBVIOUS
  <2>5. FlushOn(c, IF kept THEN Append(flush[c].keep, Head(flush[c].todo)) ELSE flush[c].keep)
    BY <2>2, <2>3, <2>4
  <2>6. /\ flush' \in [Flushes -> FlushRow] /\ offline' \in Seq(Texts) /\ IsInjective(offline)'
    BY <1>1, <1>11, <2>3, <2>5, FlushGoesOn
  <2>7. Typed'
    BY <1>1, <1>3, <1>4, <1>5, <2>2, <2>6 DEF Typed
  <2>8. Excused \subseteq Excused'
    BY <1>3, <2>2 DEF Excused
  <2>9. t \in doubtful' \/ (kept /\ Sent(t)' = 0)
    <3>1. t \in Copy(c) /\ doubtful' = doubtful
      BY <1>1, <1>3, <1>11, <2>3, HeadOfCopy
    <3>2. QED
      BY <1>7, <1>9, <1>11, <2>4, <3>1 DEF OnceOK
  <2>10. QueuesOK'
    <3>1. UNCHANGED <<outgoing, active, written>> /\ doubtful \subseteq doubtful'
      BY <1>3, <2>2
    <3>2. QED
      BY <1>1, <1>4, <1>8, <1>11, <2>3, <2>4, <2>5, <2>7, <2>8, <2>9, <3>1, FlushMoves
  <2>11. QED
    BY <1>6, <1>7, <2>7, <2>10 DEF SendingInv
<1>12. QED
  BY <1>10, <1>11, SendingBounds

LEMMA HandleLateKeeps ==
  ASSUME SendingInv, NEW t \in Texts, HandleLate(t)
  PROVE  SendingInv'
<1>1. Typed /\ LateIsCounted /\ QueuesOK /\ ScreenOK
  BY DEF SendingInv
<1>2. /\ late[t] > 0 /\ late' = [late EXCEPT ![t] = @ - 1] /\ Accept(t)
      /\ UNCHANGED <<up, onLine, outgoing, active, offline, flush, bubble, calls, rows, watching,
                     troubles, failures, written, reported, reloaded, overtaken, doubtful,
                     unannounced>>
  BY DEF HandleLate, outbox
<1>3. /\ frame' \subseteq Texts /\ drafts' \subseteq Texts /\ raced' \subseteq Texts
      /\ seen' \in [Texts -> Nat] /\ missed' \in BOOLEAN
      /\ saving' \in [Texts -> Nat] /\ accepted' \subseteq Texts
      /\ accepted \subseteq accepted' /\ ScreenOK'
      /\ saving'[t] = saving[t] + 1 /\ \A u \in Texts \ {t} : saving'[u] = saving[u]
  BY <1>1, <1>2, AcceptTyped
<1>4. late \in [Texts -> 0 .. MaxTroubles + MaxFailures] /\ MaxTroubles + MaxFailures \in Nat
  BY <1>1, SendingBounds, SMTT(20) DEF Typed
<1>5. /\ late'[t] = late[t] - 1 /\ (\A u \in Texts \ {t} : late'[u] = late[u])
      /\ late' \in [Texts -> 0 .. MaxTroubles + MaxFailures]
  BY <1>2, <1>4
<1>6. Typed'
  BY <1>1, <1>2, <1>3, <1>5 DEF Typed
<1>7. LateIsCounted'
  <2>1. ASSUME NEW u \in Texts PROVE late'[u] <= troubles + failures
    <3>1. late[u] \in Nat /\ late[u] <= troubles + failures
          /\ troubles \in Nat /\ failures \in Nat
      BY <1>1, SentIs, SendingBounds DEF LateIsCounted, Typed
    <3>2. late'[u] = late[u] \/ late'[u] = late[u] - 1
      BY <1>5
    <3>3. QED
      BY <3>1, <3>2
  <2>2. QED
    BY <1>2, <2>1 DEF LateIsCounted
<1>8. ASSUME NEW u \in Texts PROVE Sent(u)' <= Sent(u)
  <2>1. late[u] \in Nat /\ saving[u] \in Nat /\ rows[u] \in Nat
    BY <1>1, SentIs
  <2>2. CASE u = t
    BY <1>2, <1>3, <1>5, <2>1, <2>2 DEF Sent
  <2>3. CASE u # t
    BY <1>2, <1>3, <1>5, <2>1, <2>3 DEF Sent
  <2>4. QED
    BY <2>2, <2>3
<1>9. Excused \subseteq Excused' /\ CallsGoOn
  BY <1>2, <1>3 DEF Excused, CallsGoOn
<1>10. QueuesOK'
  BY <1>1, <1>2, <1>6, <1>8, <1>9, QueuesStay
<1>11. QED
  BY <1>3, <1>6, <1>7, <1>10 DEF SendingInv

\* The answer of the server: what is stored of a text was being stored.
LEMMA AnswerKeeps ==
  ASSUME SendingInv, NEW t \in Texts, NEW kind \in {"commit", "rollback"}, Announce(kind, t),
         saving[t] > 0, saving' = [saving EXCEPT ![t] = @ - 1],
         NEW stored \in {0, 1}, rows' = [rows EXCEPT ![t] = @ + stored],
         kind = "commit" => stored = 1 /\ unannounced' = unannounced,
         kind = "rollback" => unannounced' = [unannounced EXCEPT ![t] = @ + stored],
         failures' \in 0 .. MaxFailures, failures <= failures',
         UNCHANGED <<up, onLine, outgoing, active, offline, flush, calls, late, watching,
                     troubles, written, accepted, reloaded, overtaken, doubtful>>
  PROVE  SendingInv'
<1>1. Typed /\ LateIsCounted /\ QueuesOK /\ ScreenOK
  BY DEF SendingInv
<1>2. /\ ReaderGets(kind, t)
      /\ bubble' = IF up THEN [bubble EXCEPT ![t] = "none"] ELSE bubble
      /\ reported' = IF up /\ kind = "rollback" THEN reported \cup {t} ELSE reported
  BY DEF Announce
<1>3. /\ frame' \subseteq Texts /\ drafts' \subseteq Texts /\ raced' \subseteq Texts
      /\ seen' \in [Texts -> Nat] /\ missed' \in BOOLEAN
  BY <1>1, <1>2, ReaderTyped
<1>4. /\ saving \in [Texts -> Nat] /\ rows \in [Texts -> Nat] /\ unannounced \in [Texts -> Nat]
      /\ bubble \in Bubbles /\ reported \subseteq Texts
  BY <1>1 DEF Typed
<1>5. saving' \in [Texts -> Nat] /\ rows' \in [Texts -> Nat]
  BY <1>4
<1>6. unannounced' \in [Texts -> Nat]
  BY <1>4
<1>7. bubble' \in Bubbles /\ reported' \subseteq Texts /\ reported \subseteq reported'
  BY <1>2, <1>4 DEF Bubbles
<1>8. Typed'
  BY <1>1, <1>3, <1>5, <1>6, <1>7 DEF Typed
<1>9. ScreenOK'
  BY <1>1, <1>2, DraftAnswered
<1>10. LateIsCounted'
  <2>1. ASSUME NEW u \in Texts PROVE late[u] <= troubles + failures'
    <3>1. late[u] \in Nat /\ late[u] <= troubles + failures
          /\ troubles \in Nat /\ failures \in Nat /\ failures' \in Nat
      BY <1>1, SentIs, SendingBounds DEF LateIsCounted, Typed
    <3>2. QED
      BY <3>1
  <2>2. QED
    BY <2>1 DEF LateIsCounted
<1>11. ASSUME NEW u \in Texts PROVE Sent(u)' <= Sent(u)
  <2>1. late[u] \in Nat /\ saving[u] \in Nat /\ rows[u] \in Nat
    BY <1>1, SentIs
  <2>2. CASE u = t
    BY <1>4, <2>1, <2>2 DEF Sent
  <2>3. CASE u # t
    BY <1>4, <2>1, <2>3 DEF Sent
  <2>4. QED
    BY <2>2, <2>3
<1>12. Excused \subseteq Excused' /\ CallsGoOn
  BY <1>7 DEF Excused, CallsGoOn
<1>13. QueuesOK'
  BY <1>1, <1>8, <1>11, <1>12, QueuesStay
<1>14. QED
  BY <1>8, <1>9, <1>10, <1>13 DEF SendingInv

LEMMA PersistKeeps ==
  ASSUME SendingInv, NEW t \in Texts, Persist(t)
  PROVE  SendingInv'
<1>1. PICK kind \in {"commit", "rollback"}, stored \in {0, 1} : kind = "commit" /\ stored = 1
  OBVIOUS
<1>2. /\ saving[t] > 0 /\ saving' = [saving EXCEPT ![t] = @ - 1]
      /\ rows' = [rows EXCEPT ![t] = @ + stored] /\ Announce(kind, t)
      /\ UNCHANGED <<up, onLine, outgoing, active, offline, flush, calls, late, watching,
                     troubles, written, accepted, reloaded, overtaken, doubtful>>
      /\ UNCHANGED <<unannounced, failures>>
  BY <1>1 DEF Persist
<1>3. failures \in 0 .. MaxFailures /\ failures \in Nat
  BY SendingBounds DEF SendingInv, Typed
<1>4. failures' \in 0 .. MaxFailures /\ failures <= failures'
  BY <1>2, <1>3
<1>5. /\ kind = "commit" => stored = 1 /\ unannounced' = unannounced
      /\ kind = "rollback" => unannounced' = [unannounced EXCEPT ![t] = @ + stored]
  BY <1>1, <1>2
<1>6. QED
  BY <1>2, <1>4, <1>5, AnswerKeeps

LEMMA PersistFailsKeeps ==
  ASSUME SendingInv, NEW t \in Texts, PersistFails(t)
  PROVE  SendingInv'
<1>1. PICK stored \in {0, 1} : /\ rows' = [rows EXCEPT ![t] = @ + stored]
                               /\ unannounced' = [unannounced EXCEPT ![t] = @ + stored]
  BY DEF PersistFails
<1>2. PICK kind \in {"commit", "rollback"} : kind = "rollback"
  OBVIOUS
<1>3. /\ saving[t] > 0 /\ Failure /\ saving' = [saving EXCEPT ![t] = @ - 1] /\ Announce(kind, t)
      /\ UNCHANGED <<up, onLine, outgoing, active, offline, flush, calls, late, watching,
                     troubles, written, accepted, reloaded, overtaken, doubtful>>
  BY <1>2 DEF PersistFails
<1>4. failures \in 0 .. MaxFailures /\ failures' = failures + 1 /\ failures < MaxFailures
  BY <1>3 DEF SendingInv, Typed, Failure
<1>5. failures' \in 0 .. MaxFailures /\ failures <= failures'
  BY <1>4, SendingBounds
<1>6. /\ kind = "commit" => stored = 1 /\ unannounced' = unannounced
      /\ kind = "rollback" => unannounced' = [unannounced EXCEPT ![t] = @ + stored]
  BY <1>1, <1>2
<1>7. QED
  BY <1>1, <1>3, <1>5, <1>6, AnswerKeeps

\* The reader's frame, and the reader's connection.
LEMMA ReaderKeeps ==
  ASSUME SendingInv, ShowFrame \/ ReaderLeaves \/ ReaderReturns
  PROVE  SendingInv'
<1>1. Typed /\ LateIsCounted /\ QueuesOK /\ ScreenOK
  BY DEF SendingInv
<1>2. UNCHANGED <<up, onLine, outgoing, active, offline, flush, bubble, calls, late, saving, rows,
                  seen, failures, written, accepted, reported, reloaded, overtaken, doubtful,
                  unannounced, raced, missed>>
  BY DEF ShowFrame, ReaderLeaves, ReaderReturns, outbox, server, history
<1>3. /\ frame' \cup drafts' = frame \cup drafts /\ watching' \in BOOLEAN
      /\ troubles' \in 0 .. MaxTroubles /\ troubles' >= troubles
  <2>1. frame \subseteq Texts /\ drafts \subseteq Texts /\ watching \in BOOLEAN
        /\ troubles \in 0 .. MaxTroubles
    BY <1>1 DEF Typed
  <2>2. CASE ShowFrame
    BY <2>1, <2>2, SendingBounds DEF ShowFrame
  <2>3. CASE ReaderLeaves
    <3>1. /\ troubles < MaxTroubles /\ troubles' = troubles + 1 /\ watching' = FALSE
          /\ frame' = frame /\ drafts' = drafts
      BY <2>3 DEF ReaderLeaves, Trouble
    <3>2. MaxTroubles \in Nat
      BY SendingBounds
    <3>3. troubles \in Nat /\ troubles' \in 0 .. MaxTroubles /\ troubles' >= troubles
      <4>1. troubles \in Nat /\ troubles + 1 <= MaxTroubles
        BY <2>1, <3>1, <3>2
      <4>2. QED
        BY <3>1, <3>2, <4>1
    <3>4. QED
      BY <3>1, <3>3
  <2>4. CASE ReaderReturns
    BY <2>1, <2>4, SendingBounds DEF ReaderReturns
  <2>5. QED
    BY <2>2, <2>3, <2>4
<1>4. frame' \subseteq Texts /\ drafts' \subseteq Texts
  BY <1>1, <1>3 DEF Typed
<1>5. Typed'
  BY <1>1, <1>2, <1>3, <1>4 DEF Typed
<1>6. LateIsCounted'
  <2>1. ASSUME NEW u \in Texts PROVE late[u] <= troubles' + failures
    <3>1. late[u] \in Nat /\ late[u] <= troubles + failures
          /\ troubles \in Nat /\ failures \in Nat /\ troubles' \in Nat
      BY <1>1, <1>3, SentIs, SendingBounds DEF LateIsCounted, Typed
    <3>2. QED
      BY <1>3, <3>1
  <2>2. QED
    BY <1>2, <2>1 DEF LateIsCounted
<1>7. ScreenOK'
  BY <1>1, <1>2, <1>3 DEF ScreenOK
<1>8. ASSUME NEW u \in Texts PROVE Sent(u)' <= Sent(u)
  <2>1. Sent(u)' = Sent(u)
    BY <1>2 DEF Sent
  <2>2. QED
    BY <1>1, <2>1, SentIs
<1>9. Excused' = Excused /\ CallsGoOn
  BY <1>2 DEF Excused, CallsGoOn
<1>10. QueuesOK'
  BY <1>1, <1>2, <1>5, <1>8, <1>9, QueuesStay
<1>11. QED
  BY <1>5, <1>6, <1>7, <1>10 DEF SendingInv

-----------------------------------------------------------------------------
(* Connections, pages and processes                                        *)

LEMMA TroubleCounts ==
  ASSUME SendingInv, Trouble
  PROVE  /\ troubles \in Nat /\ troubles' = troubles + 1 /\ troubles' \in 0 .. MaxTroubles
         /\ failures \in 0 .. MaxFailures
         /\ \A u \in Texts : late[u] \in Nat /\ late[u] + 1 <= troubles' + failures
<1>1. /\ troubles \in 0 .. MaxTroubles /\ failures \in 0 .. MaxFailures
      /\ MaxTroubles \in Nat /\ MaxFailures \in Nat
      /\ troubles < MaxTroubles /\ troubles' = troubles + 1
  BY SendingBounds DEF SendingInv, Typed, Trouble
<1>2. ASSUME NEW u \in Texts PROVE late[u] \in Nat /\ late[u] + 1 <= troubles' + failures
  <2>1. late[u] \in Nat /\ late[u] <= troubles + failures
    BY SentIs DEF SendingInv, LateIsCounted
  <2>2. QED
    BY <1>1, <2>1
<1>3. QED
  BY <1>1, <1>2

LEMMA CutGives ==
  ASSUME SendingInv, Trouble, NEW waiting \in BOOLEAN, Cut(waiting), failures' = failures
  PROVE  /\ late' \in [Texts -> 0 .. MaxTroubles + MaxFailures] /\ LateIsCounted'
         /\ \A u \in Texts : \/ late'[u] = late[u]
                             \/ /\ late'[u] = late[u] + 1
                                /\ \E c \in Callers : calls[c].at = "sent" /\ calls[c].text = u
<1>1. PICK arrived \in SUBSET {c \in Callers : calls[c].at = "sent"} :
        late' = [t \in Texts |-> late[t] + IF \E c \in arrived : calls[c].text = t THEN 1 ELSE 0]
  BY DEF Cut
<1>2. /\ troubles' \in 0 .. MaxTroubles /\ failures \in 0 .. MaxFailures
      /\ troubles' \in Nat /\ failures \in Nat
      /\ \A u \in Texts : late[u] \in Nat /\ late[u] + 1 <= troubles' + failures
  BY TroubleCounts, SendingBounds
<1>3. ASSUME NEW u \in Texts
      PROVE  /\ late'[u] \in 0 .. MaxTroubles + MaxFailures /\ late'[u] <= troubles' + failures
             /\ \/ late'[u] = late[u]
                \/ /\ late'[u] = late[u] + 1
                   /\ \E c \in Callers : calls[c].at = "sent" /\ calls[c].text = u
  <2>1. CASE \E c \in arrived : calls[c].text = u
    <3>1. late'[u] = late[u] + 1
      BY <1>1, <2>1
    <3>2. \E c \in Callers : calls[c].at = "sent" /\ calls[c].text = u
      BY <2>1
    <3>3. PICK n \in Nat : n = late'[u] /\ n <= troubles' + failures
      BY <1>2, <3>1
    <3>4. n \in 0 .. MaxTroubles + MaxFailures
      BY <1>2, <3>3, LateBounded
    <3>5. QED
      BY <3>1, <3>2, <3>3, <3>4
  <2>2. CASE ~ \E c \in arrived : calls[c].text = u
    <3>1. late[u] + 0 = late[u]
      BY <1>2
    <3>2. late'[u] = late[u]
      BY <1>1, <2>2, <3>1
    <3>3. PICK n \in Nat : n = late'[u] /\ n <= troubles' + failures
      <4>1. late[u] \in Nat /\ late[u] + 1 <= troubles' + failures
        BY <1>2
      <4>2. late[u] <= troubles' + failures
        BY <1>2, <4>1
      <4>3. QED
        BY <3>2, <4>1, <4>2
    <3>4. n \in 0 .. MaxTroubles + MaxFailures
      BY <1>2, <3>3, LateBounded
    <3>5. QED
      BY <3>2, <3>3, <3>4
  <2>3. QED
    BY <2>1, <2>2
<1>4. late' \in [Texts -> 0 .. MaxTroubles + MaxFailures]
  BY <1>1, <1>3
<1>5. LateIsCounted'
  BY <1>3 DEF LateIsCounted
<1>6. QED
  BY <1>3, <1>4, <1>5

\* Every call that was sent waits for an answer that will not come, or is sent from the buffer.
LEMMA CallsMove ==
  ASSUME Typed, NEW from \in {"sent", "buffered"}, NEW to \in {"lost", "sent"},
         calls' = [c \in Callers |-> IF calls[c].at = from
                                     THEN [calls[c] EXCEPT !.at = to] ELSE calls[c]]
  PROVE  /\ calls' \in [Callers -> CallRow] /\ CallsGoOn
         /\ \A c \in Callers : calls[c].at = "lost" => calls'[c] = calls[c]
         /\ \A c \in Callers : calls[c].at = from => calls'[c].at = to
<1>1. ASSUME NEW c \in Callers
      PROVE  /\ calls'[c] \in CallRow /\ calls'[c].text = calls[c].text
             /\ calls[c].at # from => calls'[c] = calls[c]
             /\ calls[c].at = from => calls'[c].at = to
  <2>1. PICK r \in CallRow : r = calls[c]
    BY DEF Typed
  <2>2. calls'[c] = IF r.at = from THEN [r EXCEPT !.at = to] ELSE r
    BY <2>1
  <2>3. /\ [r EXCEPT !.at = to] \in CallRow
        /\ [r EXCEPT !.at = to].at = to /\ [r EXCEPT !.at = to].text = r.text
    BY CallsTyped DEF Typed
  <2>4. QED
    BY <2>1, <2>2, <2>3
<1>2. calls' \in [Callers -> CallRow]
  BY <1>1
<1>3. CallsGoOn
  BY <1>1 DEF CallsGoOn
<1>4. QED
  BY <1>1, <1>2, <1>3

LEMMA DisconnectKeeps ==
  ASSUME SendingInv, Disconnect
  PROVE  SendingInv'
<1>1. Typed /\ LateIsCounted /\ QueuesOK /\ ScreenOK
  BY DEF SendingInv
<1>2. /\ Trouble /\ up' = FALSE /\ onLine' \in BOOLEAN /\ Cut(TRUE)
      /\ UNCHANGED <<outgoing, active, offline, flush, bubble, saving, rows, watching, frame,
                     drafts, seen, failures, written, accepted, reported, reloaded, overtaken,
                     doubtful, unannounced, raced, missed>>
  BY DEF Disconnect, server, screen, history
<1>3. calls' = [c \in Callers |-> IF calls[c].at = "sent"
                                  THEN [calls[c] EXCEPT !.at = "lost"] ELSE calls[c]]
  BY <1>2 DEF Cut
<1>4. /\ calls' \in [Callers -> CallRow] /\ CallsGoOn
      /\ \A c \in Callers : calls[c].at = "lost" => calls'[c] = calls[c]
      /\ \A c \in Callers : calls[c].at = "sent" => calls'[c].at = "lost"
  BY <1>1, <1>3, CallsMove
<1>5. /\ late' \in [Texts -> 0 .. MaxTroubles + MaxFailures] /\ LateIsCounted'
      /\ \A u \in Texts : \/ late'[u] = late[u]
                          \/ /\ late'[u] = late[u] + 1
                             /\ \E c \in Callers : calls[c].at = "sent" /\ calls[c].text = u
  BY <1>2, CutGives
<1>6. troubles' \in 0 .. MaxTroubles
  BY <1>2, TroubleCounts
<1>7. Typed'
  BY <1>1, <1>2, <1>4, <1>5, <1>6 DEF Typed
<1>8. ScreenOK' /\ Excused' = Excused
  BY <1>1, <1>2 DEF ScreenOK, Excused
<1>9. ASSUME NEW u \in Texts
      PROVE  \/ Sent(u)' <= Sent(u)
             \/ /\ Sent(u)' = Sent(u) + 1
                /\ \E c \in Callers : /\ calls[c].at = "sent" /\ calls[c].text = u
                                      /\ calls'[c].at = "lost"
  <2>1. late[u] \in Nat /\ saving[u] \in Nat /\ rows[u] \in Nat
    BY <1>1, SentIs
  <2>2. CASE late'[u] = late[u]
    BY <1>2, <2>1, <2>2 DEF Sent
  <2>3. CASE late'[u] = late[u] + 1 /\ \E c \in Callers : calls[c].at = "sent" /\ calls[c].text = u
    <3>1. Sent(u)' = Sent(u) + 1
      BY <1>2, <2>1, <2>3 DEF Sent
    <3>2. QED
      BY <1>4, <2>3, <3>1
  <2>4. QED
    BY <1>5, <2>2, <2>3
<1>10. QueuesOK'
  BY <1>1, <1>2, <1>4, <1>7, <1>8, <1>9, CallsLost
<1>11. QED
  BY <1>5, <1>7, <1>8, <1>10 DEF SendingInv

LEMMA ServerStopsKeeps ==
  ASSUME SendingInv, ServerStops
  PROVE  SendingInv'
<1>1. Typed /\ LateIsCounted /\ QueuesOK /\ ScreenOK
  BY DEF SendingInv
<1>2. /\ Trouble /\ up' = FALSE
      /\ calls' = [c \in Callers |-> IF calls[c].at = "sent"
                                     THEN [calls[c] EXCEPT !.at = "lost"] ELSE calls[c]]
      /\ late' = [t \in Texts |-> 0] /\ saving' = [t \in Texts |-> 0] /\ missed' = TRUE
      /\ UNCHANGED <<onLine, outgoing, active, offline, flush, bubble, watching, frame,
                     drafts, seen, failures, written, accepted, reported, reloaded, overtaken,
                     doubtful, unannounced, raced>>
  BY DEF ServerStops, screen
<1>3. PICK stored \in [Texts -> 0 .. 1] : /\ \A t \in Texts : stored[t] <= saving[t]
                                          /\ rows' = [t \in Texts |-> rows[t] + stored[t]]
  BY DEF ServerStops
<1>4. /\ calls' \in [Callers -> CallRow] /\ CallsGoOn
      /\ \A c \in Callers : calls[c].at = "lost" => calls'[c] = calls[c]
  BY <1>1, <1>2, CallsMove
<1>5. \A u \in Texts : late[u] \in Nat /\ saving[u] \in Nat /\ rows[u] \in Nat
  BY <1>1, SentIs
<1>6. rows' \in [Texts -> Nat] /\ saving' \in [Texts -> Nat]
  BY <1>2, <1>3, <1>5
<1>7. late' \in [Texts -> 0 .. MaxTroubles + MaxFailures]
  BY <1>2, SendingBounds
<1>8. /\ troubles' \in 0 .. MaxTroubles /\ troubles' \in Nat /\ failures \in Nat
  BY <1>2, TroubleCounts, SendingBounds
<1>9. Typed'
  BY <1>1, <1>2, <1>4, <1>6, <1>7, <1>8 DEF Typed
<1>10. LateIsCounted' /\ ScreenOK' /\ Excused' = Excused
  BY <1>2, <1>8 DEF LateIsCounted, ScreenOK, Excused
<1>11. ASSUME NEW u \in Texts PROVE Sent(u)' <= Sent(u)
  <2>1. late'[u] = 0 /\ saving'[u] = 0 /\ rows'[u] = rows[u] + stored[u] /\ stored[u] <= saving[u]
        /\ stored[u] \in Nat
    BY <1>2, <1>3
  <2>2. QED
    BY <1>5, <2>1 DEF Sent
<1>12. QueuesOK'
  BY <1>1, <1>2, <1>4, <1>9, <1>10, <1>11, CallsLost
<1>13. QED
  BY <1>9, <1>10, <1>12 DEF SendingInv

LEMMA BackOnlineKeeps ==
  ASSUME SendingInv, BackOnline
  PROVE  SendingInv'
<1>1. Typed /\ LateIsCounted /\ QueuesOK /\ ScreenOK
  BY DEF SendingInv
<1>2. /\ onLine' = TRUE /\ StartFlush
      /\ UNCHANGED <<up, outgoing, active, offline, bubble, calls, late, saving, rows, watching,
                     frame, drafts, seen, troubles, failures, written, accepted, reported,
                     reloaded, overtaken, unannounced, raced, missed>>
  BY DEF BackOnline, server, screen
<1>3. flush' \in [Flushes -> FlushRow] /\ doubtful' \subseteq Texts
  BY <1>1, <1>2, StartTyped
<1>4. Typed'
  BY <1>1, <1>2, <1>3 DEF Typed
<1>5. LateIsCounted' /\ ScreenOK' /\ CallsGoOn
  BY <1>1, <1>2 DEF LateIsCounted, ScreenOK, CallsGoOn
<1>6. QueuesOK'
  BY <1>1, <1>2, <1>4, <1>5, FlushStarts
<1>7. QED
  BY <1>4, <1>5, <1>6 DEF SendingInv

LEMMA ReconnectKeeps ==
  ASSUME SendingInv, Reconnect
  PROVE  SendingInv'
<1>1. Typed /\ LateIsCounted /\ QueuesOK /\ ScreenOK
  BY DEF SendingInv
<1>2. /\ up' = TRUE /\ StartFlush
      /\ calls' = [c \in Callers |-> IF calls[c].at = "buffered"
                                     THEN [calls[c] EXCEPT !.at = "sent"] ELSE calls[c]]
      /\ UNCHANGED <<onLine, outgoing, active, offline, bubble, late, saving, rows, watching,
                     frame, drafts, seen, troubles, failures, written, accepted, reported,
                     reloaded, overtaken, unannounced, raced, missed>>
  BY DEF Reconnect, server, screen
<1>3. flush' \in [Flushes -> FlushRow] /\ doubtful' \subseteq Texts
  BY <1>1, <1>2, StartTyped
<1>4. /\ calls' \in [Callers -> CallRow] /\ CallsGoOn
      /\ \A c \in Callers : calls[c].at = "lost" => calls'[c] = calls[c]
  BY <1>1, <1>2, CallsMove
<1>5. Typed'
  BY <1>1, <1>2, <1>3, <1>4 DEF Typed
<1>6. LateIsCounted' /\ ScreenOK'
  BY <1>1, <1>2 DEF LateIsCounted, ScreenOK
<1>7. QueuesOK'
  BY <1>1, <1>2, <1>4, <1>5, FlushStarts
<1>8. QED
  BY <1>5, <1>6, <1>7 DEF SendingInv

\* A reload leaves nothing but the offline queue, which held all that the flushes did.
LEMMA ReloadKeeps ==
  ASSUME SendingInv, Reload
  PROVE  SendingInv'
<1>1. Typed /\ LateIsCounted /\ QueuesOK /\ ScreenOK /\ QueueOK /\ FlushesOK /\ CopiesAgree
      /\ AllOnce /\ NoTextVanishes
  BY DEF SendingInv, QueuesOK
<1>2. /\ Trouble /\ up' = FALSE /\ Cut(FALSE)
      /\ reloaded' = reloaded \cup ToSet(outgoing) \cup ToSet(active)
      /\ doubtful' = IF Flushing = {} THEN doubtful ELSE doubtful \cup ToSet(offline)
      /\ outgoing' = <<>> /\ active' = <<>> /\ flush' = [f \in Flushes |-> Idle]
      /\ bubble' = [t \in Texts |-> "none"]
      /\ UNCHANGED <<onLine, offline, saving, rows, watching, frame, drafts, seen, failures,
                     written, accepted, reported, overtaken, unannounced, raced, missed>>
  BY DEF Reload, server, screen
<1>3. calls' = [c \in Callers |-> NoCall]
  BY <1>2 DEF Cut
<1>4. /\ late' \in [Texts -> 0 .. MaxTroubles + MaxFailures] /\ LateIsCounted'
      /\ \A u \in Texts : \/ late'[u] = late[u]
                          \/ /\ late'[u] = late[u] + 1
                             /\ \E c \in Callers : calls[c].at = "sent" /\ calls[c].text = u
  BY <1>2, CutGives
<1>5. troubles' \in 0 .. MaxTroubles
  BY <1>2, TroubleCounts
<1>6. outgoing \in Seq(Texts) /\ offline \in Seq(Texts) /\ reloaded \subseteq Texts
      /\ doubtful \subseteq Texts /\ active \in Seq(Texts)
  BY <1>1, NoneTold, OneTold DEF Typed
<1>7. ToSet(outgoing) \subseteq Texts /\ ToSet(offline) \subseteq Texts /\ ToSet(active) \subseteq Texts
  BY <1>6, ToldBounds
<1>8. /\ reloaded' \subseteq Texts /\ doubtful' \subseteq Texts /\ bubble' \in Bubbles
      /\ flush' \in [Flushes -> FlushRow] /\ calls' \in [Callers -> CallRow]
      /\ outgoing' \in Seq(Texts) /\ active' \in {<<>>} \cup {<<u>> : u \in Texts}
  BY <1>2, <1>3, <1>6, <1>7, SendingBounds, NoneTold DEF Bubbles
<1>9. Typed'
  BY <1>1, <1>2, <1>4, <1>5, <1>8 DEF Typed
<1>10. ScreenOK'
  BY <1>1, <1>2 DEF ScreenOK
<1>11. /\ Queued' = {} /\ Stored' = Stored /\ Flushing' = {}
       /\ \A f \in Flushes : Copy(f)' = {} /\ calls'[f].at = "none" /\ flush'[f] = Idle
  BY <1>2, <1>3, NoneTold, SendingBounds DEF Queued, Stored, Flushing, Copy
<1>12. Excused \cup Queued \subseteq Excused'
  BY <1>2 DEF Excused, Queued
<1>13. QueueOK'
  <2>1. calls'["queue"].at = "none"
    BY <1>3, SendingBounds
  <2>2. IsInjective(outgoing)' /\ ToSet(active)' = {} /\ ToSet(outgoing)' = {}
    BY <1>2, NoneTold
  <2>3. QED
    BY <1>1, <1>2, <1>11, <2>1, <2>2 DEF QueueOK
<1>14. FlushesOK'
  <2>1. SUFFICES ASSUME NEW f \in Flushes PROVE FlushOK(f)'
    BY DEF FlushesOK
  <2>2. CopyOK(flush'[f])
    BY <1>11, SendingBounds
  <2>3. QED
    BY <1>11, <2>2 DEF FlushOK
<1>15. CopiesAgree'
  BY <1>11 DEF CopiesAgree
<1>16. NoTextVanishes'
  <2>1. ASSUME NEW u, u \in Queued \/ u \in Stored \/ \E f \in Flushes : u \in Copy(f), u \notin Excused'
        PROVE  u \in Stored'
    <3>1. u \notin Excused /\ u \notin Queued
      BY <1>12, <2>1
    <3>2. CASE u \in Stored
      BY <1>11, <3>2
    <3>3. CASE u \notin Stored
      <4>1. PICK f \in Flushes : u \in Copy(f)
        BY <2>1, <3>1, <3>3
      <4>2. FlushOK(f) /\ flush[f] \in FlushRow
        BY <1>1 DEF FlushesOK, Typed
      <4>3. f \in Flushing
        BY <4>1, <4>2, SendingBounds DEF FlushOK, CopyOK, Flushing, Copy
      <4>4. u \in Texts
        BY <4>1, <4>2, RowsTold, ToldBounds DEF Copy
      <4>5. QED
        BY <1>1, <1>11, <3>1, <4>1, <4>3, <4>4 DEF CopiesAgree
    <3>4. QED
      BY <3>2, <3>3
  <2>2. QED
    BY <1>1, <1>2, <1>12, <2>1, HeldStays
<1>17. ASSUME NEW u \in Texts PROVE OnceOK(u)'
  <2>1. OnceOK(u) /\ Sent(u) \in Nat /\ Sent(u)' \in Nat /\ late[u] \in Nat /\ saving[u] \in Nat
        /\ rows[u] \in Nat
    BY <1>1, <1>9, SentIs, SentWillBe DEF AllOnce
  <2>2. u \notin doubtful' => u \notin doubtful /\ (Flushing # {} => u \notin Stored)
    BY <1>2 DEF Stored
  <2>3. CASE late'[u] = late[u]
    <3>1. Sent(u)' = Sent(u)
      BY <1>2, <2>3 DEF Sent
    <3>2. QED
      BY <1>2, <1>11, <2>1, <2>2, <3>1 DEF OnceOK
  <2>4. CASE late'[u] = late[u] + 1 /\ \E c \in Callers : calls[c].at = "sent" /\ calls[c].text = u
    <3>1. Sent(u)' = Sent(u) + 1
      BY <1>2, <2>1, <2>4 DEF Sent
    <3>2. PICK c \in Callers : calls[c].at = "sent" /\ calls[c].text = u
      BY <2>4
    <3>3. ~ Lost(c, u)
      BY <3>2 DEF Lost
    <3>4. CASE c = "queue"
      <4>1. active = <<u>>
        BY <1>1, <3>2, <3>4 DEF QueueOK
      <4>2. u \in Queued /\ u \in written /\ u \notin Stored
        BY <1>1, <4>1, OneTold DEF Queued, QueueOK
      <4>3. Sent(u) = 0
        BY <2>1, <3>3, <3>4, <4>2 DEF OnceOK
      <4>4. QED
        BY <1>2, <1>11, <2>1, <3>1, <4>2, <4>3 DEF OnceOK
    <3>5. CASE c \in Flushes
      <4>1. FlushOK(c) /\ CopyOK(flush[c]) /\ flush[c].at # "idle" /\ u = Head(flush[c].todo)
        BY <1>1, <3>2, <3>5 DEF FlushesOK, FlushOK
      <4>2. u \in Copy(c) /\ u \in written /\ c \in Flushing
        BY <1>1, <3>5, <4>1, HeadOfCopy DEF FlushOK, Flushing
      <4>3. u \notin doubtful' => Sent(u) = 0 /\ u \notin Stored
        BY <2>1, <2>2, <3>3, <3>5, <4>2 DEF OnceOK
      <4>4. QED
        BY <1>2, <1>11, <2>1, <3>1, <4>2, <4>3 DEF OnceOK
    <3>6. QED
      BY <3>4, <3>5, SendingBounds
  <2>5. QED
    BY <1>4, <2>3, <2>4
<1>18. QED
  BY <1>4, <1>9, <1>10, <1>13, <1>14, <1>15, <1>16, <1>17 DEF SendingInv, QueuesOK, AllOnce

-----------------------------------------------------------------------------
(* The theorems                                                            *)

LEMMA SendingStarts == SendingInit => SendingInv
<1>1. SUFFICES ASSUME SendingInit PROVE SendingInv
  OBVIOUS
<1>2. /\ outgoing = <<>> /\ active = <<>> /\ offline = <<>> /\ flush = [f \in Flushes |-> Idle]
      /\ calls = [c \in Callers |-> NoCall] /\ late = [t \in Texts |-> 0]
      /\ saving = [t \in Texts |-> 0] /\ rows = [t \in Texts |-> 0]
      /\ seen = [t \in Texts |-> 0] /\ unannounced = [t \in Texts |-> 0]
      /\ bubble = [t \in Texts |-> "none"] /\ troubles = 0 /\ failures = 0
      /\ frame = {} /\ drafts = {} /\ written = {} /\ accepted = {} /\ reported = {}
      /\ reloaded = {} /\ overtaken = {} /\ doubtful = {} /\ raced = {}
      /\ up \in BOOLEAN /\ onLine \in BOOLEAN /\ watching \in BOOLEAN /\ missed \in BOOLEAN
  BY <1>1 DEF SendingInit
<1>3. /\ calls \in [Callers -> CallRow] /\ flush \in [Flushes -> FlushRow] /\ bubble \in Bubbles
      /\ 0 \in 0 .. MaxTroubles /\ 0 \in 0 .. MaxFailures /\ 0 \in 0 .. MaxTroubles + MaxFailures
  BY <1>2, SendingBounds DEF Bubbles
<1>4. Typed
  BY <1>2, <1>3, NoneTold DEF Typed
<1>5. /\ Queued = {} /\ Stored = {} /\ Flushing = {}
      /\ \A f \in Flushes : Copy(f) = {} /\ calls[f].at = "none" /\ CopyOK(flush[f])
  BY <1>2, NoneTold, SendingBounds DEF Queued, Stored, Flushing, Copy
<1>6. QueueOK
  <2>1. calls["queue"].at = "none"
    BY <1>2, SendingBounds
  <2>2. QED
    BY <1>2, <1>5, <2>1, NoneTold DEF QueueOK
<1>7. FlushesOK
  BY <1>5 DEF FlushesOK, FlushOK
<1>8. CopiesAgree /\ NoTextVanishes
  BY <1>2, <1>5 DEF CopiesAgree, NoTextVanishes
<1>9. ASSUME NEW u \in Texts PROVE OnceOK(u)
  <2>1. Sent(u) = 0
    BY <1>2 DEF Sent
  <2>2. QED
    BY <1>5, <2>1 DEF OnceOK
<1>10. LateIsCounted /\ ScreenOK
  BY <1>2 DEF LateIsCounted, ScreenOK
<1>11. QED
  BY <1>4, <1>6, <1>7, <1>8, <1>9, <1>10 DEF SendingInv, QueuesOK, AllOnce

LEMMA SendingStutters ==
  ASSUME SendingInv, UNCHANGED sendingVars
  PROVE  SendingInv'
<1>1. UNCHANGED <<up, onLine, outgoing, active, offline, flush, calls, late, saving, rows, bubble,
                  watching, frame, drafts, seen, troubles, failures, written, accepted, reported,
                  reloaded, overtaken, doubtful, unannounced, raced, missed>>
  BY DEF sendingVars, outbox, server, screen, history
<1>2. Typed'
  BY <1>1 DEF SendingInv, Typed
<1>3. LateIsCounted' /\ ScreenOK' /\ Excused' = Excused /\ CallsGoOn
  BY <1>1 DEF SendingInv, LateIsCounted, ScreenOK, Excused, CallsGoOn
<1>4. ASSUME NEW u \in Texts PROVE Sent(u)' <= Sent(u)
  <2>1. Sent(u)' = Sent(u)
    BY <1>1 DEF Sent
  <2>2. QED
    BY <2>1, SentIs DEF SendingInv
<1>5. QueuesOK'
  BY <1>1, <1>2, <1>3, <1>4, QueuesStay DEF SendingInv
<1>6. QED
  BY <1>2, <1>3, <1>5 DEF SendingInv

LEMMA SendingSteps ==
  ASSUME SendingInv, [SendingNext]_sendingVars
  PROVE  SendingInv'
<1>1. ASSUME NEW t \in Texts, SendMessage(t) \/ HandleLate(t) \/ Persist(t) \/ PersistFails(t)
      PROVE  SendingInv'
  BY <1>1, SendMessageKeeps, HandleLateKeeps, PersistKeeps, PersistFailsKeeps
<1>2. ASSUME NEW f \in Flushes, FlushEmit(f) \/ FlushKeep(f) PROVE SendingInv'
  BY <1>2, FlushEmitKeeps, FlushKeepKeeps
<1>3. ASSUME NEW c \in Callers,
             TimeOut(c) \/ HandleMessage(c) \/ RefuseMessage(c) \/ RejectMessage(c)
      PROVE  SendingInv'
  BY <1>3, TimeOutKeeps, HandleMessageKeeps, RefuseMessageKeeps, RejectMessageKeeps
<1>4. ASSUME EmitNext \/ RefuseNext \/ BackOnline \/ Reconnect \/ Disconnect \/ Reload \/ ServerStops
      PROVE  SendingInv'
  BY <1>4, EmitNextKeeps, RefuseNextKeeps, BackOnlineKeeps, ReconnectKeeps, DisconnectKeeps,
     ReloadKeeps, ServerStopsKeeps
<1>5. QED
  BY <1>1, <1>2, <1>3, <1>4, ReaderKeeps, SendingStutters DEF SendingNext

\* The invariant behind the three theorems below, from the first state on, for any number of
\* texts and of overlapping flushes: the queue, the flushes and the offline queue agree on
\* where a text is (processOutgoingTextMessageQueue, flushOfflineQueuedMessages, app.js).
THEOREM SendingInductive == SendingSpec => []SendingInv
<1>1. QED
  BY SendingStarts, SendingSteps, PTL DEF SendingSpec

\* Every state is well typed, and the offline queue never holds a text twice
\* (queueOfflineTextMessage looks for the id before it adds).
THEOREM SendingTypeCorrect == SendingSpec => []SendingTypeOK
<1>1. SendingInv => SendingTypeOK
  BY TypedIs DEF SendingInv
<1>2. QED
  BY <1>1, SendingInductive, PTL

\* A text that its author sent off stays in the browser until the server has taken it or the
\* author was told, but for a reload and for what was queued while a flush ran.
THEOREM TextsAreKept == SendingSpec => []NoTextVanishes
<1>1. SendingInv => NoTextVanishes
  BY DEF SendingInv, QueuesOK
<1>2. QED
  BY <1>1, SendingInductive, PTL

\* A text that nobody sent again in doubt is stored once at most.
THEOREM TextsAreStoredOnce == SendingSpec => []StoredOnce
<1>1. ASSUME SendingInv, NEW t \in Texts, saving[t] + rows[t] > 1 PROVE t \in doubtful
  <2>1. OnceOK(t) /\ late[t] \in Nat /\ saving[t] \in Nat /\ rows[t] \in Nat
    BY <1>1, SentIs DEF SendingInv, QueuesOK, AllOnce
  <2>2. Sent(t) > 1
    BY <1>1, <2>1 DEF Sent
  <2>3. QED
    BY <2>1, <2>2 DEF OnceOK, Sent
<1>2. SendingInv => StoredOnce
  BY <1>1 DEF StoredOnce
<1>3. QED
  BY <1>2, SendingInductive, PTL

\* Once the server is done, a reader who missed nothing has the stored messages on the screen.
THEOREM ReaderIsUpToDate == SendingSpec => []ReaderSeesWhatIsStored
<1>1. ASSUME SendingInv, Settled, ~missed, NEW t \in Texts
      PROVE  seen[t] + unannounced[t] = rows[t] /\ (t \in drafts => t \in raced)
  BY <1>1 DEF SendingInv, ScreenOK, Settled
<1>2. SendingInv => ReaderSeesWhatIsStored
  BY <1>1 DEF ReaderSeesWhatIsStored
<1>3. QED
  BY <1>2, SendingInductive, PTL

-----------------------------------------------------------------------------
(* The life of a text.  What the author, the server and the reader know of  *)
(* it goes one way only: no copy of a text that was taken or given up is     *)
(* sent again, but for the texts in doubt.                                  *)

\* The server has taken the text, or its author was told of a failure, and nothing of it was
\* sent again in doubt.
Concluded(u) == u \in accepted \cup reported /\ u \notin doubtful

\* Where the text still waits, its call was lost, or a flush is at work on the queue: it will
\* not be sent again without a doubt.
NotSentAgain(u) ==
  /\ u \in Queued => Lost("queue", u)
  /\ \A f \in Flushes : u \in Copy(f) => Lost(f, u)
  /\ u \in Stored => Flushing # {}

ConcludedOK(u) == Concluded(u) => late[u] = 0 /\ NotSentAgain(u)

\* A text that its author was told of, and the server has not taken, has left the browser.
GivenUpOK(u) == u \in reported /\ u \notin accepted \cup doubtful => ~ Held(u)

\* What happens to a text happens in order: it is written, taken, drawn.
OrderOK(u) ==
  /\ u \in accepted \cup reported \cup doubtful => u \in written
  /\ u \in frame \cup drafts \/ saving[u] > 0 => u \in accepted

LifeOK(u) == OrderOK(u) /\ ConcludedOK(u) /\ GivenUpOK(u)
LifeInv == \A u \in Texts : LifeOK(u)

\* A caller's text is its own, and is not concluded unless its call was lost.
LEMMA CallersText ==
  ASSUME SendingInv, NEW c \in Callers, calls[c].at # "none", NEW u, u = calls[c].text
  PROVE  /\ u \in Texts /\ u \in written /\ Held(u)
         /\ IF c = "queue" THEN active = <<u>> /\ u \in Queued
            ELSE /\ c \in Flushes /\ flush[c].at = "calling" /\ u = Head(flush[c].todo)
                 /\ u \in Copy(c)
<1>1. Typed /\ QueueOK /\ FlushesOK
  BY DEF SendingInv, QueuesOK
<1>2. u \in Texts
  BY <1>1, RowsTold DEF Typed
<1>3. CASE c = "queue"
  <2>1. active = <<u>>
    BY <1>1, <1>3 DEF QueueOK
  <2>2. u \in Queued
    BY <1>2, <2>1, OneTold DEF Queued
  <2>3. QED
    BY <1>1, <1>2, <1>3, <2>1, <2>2, HeldIs DEF QueueOK
<1>4. CASE c # "queue"
  <2>1. c \in Flushes
    BY <1>4, SendingBounds
  <2>2. FlushOK(c) /\ CopyOK(flush[c]) /\ flush[c].at = "calling" /\ u = Head(flush[c].todo)
    BY <1>1, <2>1 DEF FlushesOK, FlushOK
  <2>3. u \in Copy(c)
    BY <1>1, <2>1, <2>2, HeadOfCopy
  <2>4. QED
    BY <1>2, <1>4, <2>1, <2>2, <2>3, HeldIs DEF FlushOK
<1>5. QED
  BY <1>3, <1>4

LEMMA CallIsOpen ==
  ASSUME SendingInv, NEW c \in Callers, calls[c].at \in {"buffered", "sent"},
         ConcludedOK(calls[c].text)
  PROVE  ~ Concluded(calls[c].text)
<1>1. ~ Lost(c, calls[c].text)
  BY DEF Lost
<1>2. IF c = "queue" THEN calls[c].text \in Queued ELSE c \in Flushes /\ calls[c].text \in Copy(c)
  BY CallersText
<1>3. QED
  BY <1>1, <1>2 DEF ConcludedOK, NotSentAgain

\* The queue's text before its call, and that of a flush before its own.
LEMMA NextIsOpen ==
  ASSUME SendingInv, LifeInv
  PROVE  /\ active # <<>> /\ calls["queue"].at = "none" => ~ Concluded(active[1])
         /\ \A f \in Flushes : flush[f].at # "idle" /\ calls[f].at = "none"
                                 => ~ Concluded(Head(flush[f].todo))
<1>1. Typed /\ FlushesOK
  BY DEF SendingInv, QueuesOK
<1>2. ASSUME active # <<>>, calls["queue"].at = "none" PROVE ~ Concluded(active[1])
  <2>1. active[1] \in Texts /\ active[1] \in Queued
    BY <1>2, OnItsWay
  <2>2. QED
    BY <1>2, <2>1 DEF LifeInv, LifeOK, ConcludedOK, NotSentAgain, Lost
<1>3. ASSUME NEW f \in Flushes, flush[f].at # "idle", calls[f].at = "none"
      PROVE  ~ Concluded(Head(flush[f].todo))
  <2>1. Head(flush[f].todo) \in Texts /\ Head(flush[f].todo) \in Copy(f)
    BY <1>1, <1>3, HeadOfCopy DEF FlushesOK, FlushOK
  <2>2. QED
    BY <1>3, <2>1 DEF LifeInv, LifeOK, ConcludedOK, NotSentAgain, Lost
<1>4. QED
  BY <1>2, <1>3

-----------------------------------------------------------------------------
(* The moves of a text, again                                              *)

\* What a move leaves to a text: it is not held anew, and not sent again.
Settles(u) ==
  /\ Held(u)' => Held(u)
  /\ Concluded(u) /\ u \notin doubtful' => NotSentAgain(u)'

\* The queues stay as they are, and so do the lost calls.
LEMMA StillSettles ==
  ASSUME LifeInv, NEW u \in Texts, Queued' = Queued, Stored' = Stored, Flushing' = Flushing,
         \A f \in Flushes : Copy(f)' = Copy(f),
         \A c \in Callers : calls[c].at = "lost" => calls'[c] = calls[c]
  PROVE  Settles(u)
<1>1. Held(u)' <=> Held(u)
  BY DEF Held, Queued, Stored, Copy
<1>2. \A c \in Callers : Lost(c, u) => Lost(c, u)'
  BY DEF Lost
<1>3. QED
  BY <1>1, <1>2, SendingBounds DEF Settles, LifeInv, LifeOK, ConcludedOK, NotSentAgain

LEMMA UnchangedSettles ==
  ASSUME LifeInv, NEW u \in Texts, UNCHANGED <<outgoing, active, offline, flush>>,
         \A c \in Callers : calls[c].at = "lost" => calls'[c] = calls[c]
  PROVE  Settles(u)
<1>1. Queued' = Queued /\ Stored' = Stored /\ Flushing' = Flushing /\ \A f : Copy(f)' = Copy(f)
  BY DEF Queued, Stored, Flushing, Copy
<1>2. QED
  BY <1>1, StillSettles

\* The queue is done with its text, which goes to the offline queue or is gone.
LEMMA QueueSettles ==
  ASSUME SendingInv, LifeInv, NEW t \in Texts, active = <<t>>, UNCHANGED flush,
         Queued' = Queued \ {t}, Stored' \subseteq Stored \cup {t},
         \A f \in Flushes : calls'[f] = calls[f],
         Concluded(t) => t \in doubtful', NEW u \in Texts
  PROVE  Settles(u) /\ (Stored' = Stored => ~ Held(t)')
<1>1. QueueOK /\ FlushesOK /\ t \in Queued
  BY OneTold DEF SendingInv, QueuesOK, Queued
<1>2. (\A f \in Flushes : Copy(f)' = Copy(f)) /\ Flushing' = Flushing
  BY DEF Copy, Flushing
<1>3. /\ Held(u)' <=> u \in Queued' \/ u \in Stored' \/ \E f \in Flushes : u \in Copy(f)'
      /\ Held(t)' <=> t \in Queued' \/ t \in Stored' \/ \E f \in Flushes : t \in Copy(f)'
  BY DEF Held, Queued, Stored, Copy
<1>4. Held(u)' => Held(u)
  BY <1>1, <1>2, <1>3, HeldIs
<1>5. Stored' = Stored => ~ Held(t)'
  BY <1>1, <1>2, <1>3 DEF QueueOK, FlushesOK, FlushOK
<1>6. ASSUME Concluded(u), u \notin doubtful' PROVE NotSentAgain(u)'
  <2>1. u # t /\ NotSentAgain(u)
    BY <1>6 DEF LifeInv, LifeOK, ConcludedOK
  <2>2. u \notin Queued
    BY <1>1, <2>1 DEF NotSentAgain, QueueOK, Lost
  <2>3. \A f \in Flushes : Lost(f, u) => Lost(f, u)'
    BY DEF Lost
  <2>4. QED
    BY <1>2, <2>1, <2>2, <2>3 DEF NotSentAgain
<1>7. QED
  BY <1>4, <1>5, <1>6 DEF Settles

\* A flush is done with the first text of its copy.
LEMMA FlushSettles ==
  ASSUME SendingInv, LifeInv, NEW f \in Flushes, flush[f].at # "idle", NEW kept \in BOOLEAN,
         FlushOn(f, IF kept THEN Append(flush[f].keep, Head(flush[f].todo)) ELSE flush[f].keep),
         UNCHANGED <<outgoing, active>>,
         \A c \in Callers \ {f} : calls'[c] = calls[c],
         NEW h, h = Head(flush[f].todo), Concluded(h) => h \in doubtful', NEW u \in Texts
  PROVE  /\ Settles(u) /\ Queued' = Queued
         /\ \A g \in Flushes \ {f} : Copy(g)' = Copy(g)
         /\ Copy(f)' \subseteq IF kept THEN Copy(f) ELSE Copy(f) \ {h}
         /\ \/ Stored' = Stored /\ Flushing' # {}
            \/ Stored' = IF kept THEN Copy(f) ELSE Copy(f) \ {h}
<1>1. Typed /\ QueueOK /\ FlushesOK /\ FlushOK(f) /\ CopyOK(flush[f]) /\ f # "queue"
  BY SendingBounds DEF SendingInv, QueuesOK, FlushesOK, FlushOK
<1> DEFINE left == IF kept THEN Copy(f) ELSE Copy(f) \ {h}
<1>2. /\ \A g \in Flushes \ {f} : flush'[g] = flush[g]
      /\ \/ flush'[f].at = "encrypting" /\ offline' = offline /\ Copy(f)' = left
         \/ flush'[f].at = "idle" /\ Stored' = left /\ Copy(f)' = {}
  BY <1>1, FlushGoesOn
<1>3. left \subseteq Copy(f)
  OBVIOUS
<1> HIDE DEF left
<1>4. Queued' = Queued /\ (\A g \in Flushes \ {f} : Copy(g)' = Copy(g)) /\ Copy(f)' \subseteq left
  BY <1>2 DEF Queued, Copy
<1>5. (Stored' = Stored /\ Flushing' # {}) \/ Stored' = left
  BY <1>2 DEF Stored, Flushing
<1>6. Held(u)' => Held(u)
  <2>1. Held(u)' <=> u \in Queued' \/ u \in Stored' \/ \E g \in Flushes : u \in Copy(g)'
    BY DEF Held, Queued, Stored, Copy
  <2>2. QED
    BY <1>3, <1>4, <1>5, <2>1, HeldIs
<1>7. ASSUME Concluded(u), u \notin doubtful' PROVE NotSentAgain(u)'
  <2>1. u # h /\ NotSentAgain(u)
    BY <1>7 DEF LifeInv, LifeOK, ConcludedOK
  <2>2. ~ Lost(f, u)
    BY <1>1, <2>1 DEF FlushOK, Lost
  <2>3. u \notin Copy(f)
    BY <2>1, <2>2 DEF NotSentAgain
  <2>4. \A c \in Callers : Lost(c, u) => Lost(c, u)'
    BY <2>2 DEF Lost
  <2>5. QED
    BY <1>1, <1>3, <1>4, <1>5, <2>1, <2>3, <2>4, SendingBounds DEF NotSentAgain
<1>8. QED
  BY <1>4, <1>5, <1>6, <1>7 DEF Settles, left

\* A flush begins: what it finds in the queue while another runs is sent in doubt.
LEMMA StartSettles ==
  ASSUME SendingInv, LifeInv, StartFlush, UNCHANGED <<outgoing, active, offline>>,
         \A c \in Callers : calls[c].at = "lost" => calls'[c] = calls[c], NEW u \in Texts
  PROVE  Settles(u) /\ (u \in doubtful' => u \in doubtful \/ Held(u))
<1>1. Typed
  BY DEF SendingInv
<1>2. CASE offline = <<>>
  BY <1>2, UnchangedSettles DEF StartFlush
<1>3. CASE offline # <<>>
  <2>1. PICK f \in Flushes :
          /\ flush[f] = Idle
          /\ flush' = [flush EXCEPT ![f] = [at |-> "encrypting", todo |-> offline, keep |-> <<>>]]
          /\ doubtful' = IF Flushing = {} THEN doubtful ELSE doubtful \cup ToSet(offline)
    BY <1>3 DEF StartFlush
  <2>2. PICK row \in FlushRow : row = [at |-> "encrypting", todo |-> offline, keep |-> <<>>]
    BY <1>1, NoneTold DEF FlushRow, Typed
  <2>3. /\ row.at = "encrypting" /\ row.todo = offline /\ row.keep = <<>>
        /\ flush'[f] = row /\ \A g \in Flushes \ {f} : flush'[g] = flush[g]
    BY <1>1, <2>1, <2>2 DEF Typed
  <2>4. /\ Copy(f)' = Stored /\ Stored' = Stored /\ Queued' = Queued /\ Flushing' # {}
        /\ \A g \in Flushes \ {f} : Copy(g)' = Copy(g)
    BY <2>3, NoneTold DEF Copy, Stored, Queued, Flushing
  <2>5. Held(u)' => Held(u)
    <3>1. Held(u)' <=> u \in Queued' \/ u \in Stored' \/ \E g \in Flushes : u \in Copy(g)'
      BY DEF Held, Queued, Stored, Copy
    <3>2. QED
      BY <2>4, <3>1, HeldIs
  <2>6. u \in doubtful' => u \in doubtful \/ Held(u)
    BY <2>1, HeldIs DEF Stored
  <2>7. ASSUME Concluded(u), u \notin doubtful' PROVE NotSentAgain(u)'
    <3>1. NotSentAgain(u)
      BY <2>7 DEF LifeInv, LifeOK, ConcludedOK
    <3>2. u \notin Stored
      BY <2>1, <2>7, <3>1 DEF NotSentAgain, Stored
    <3>3. \A c \in Callers : Lost(c, u) => Lost(c, u)'
      BY DEF Lost
    <3>4. QED
      BY <2>4, <3>1, <3>2, <3>3, SendingBounds DEF NotSentAgain
  <2>8. QED
    BY <2>5, <2>6, <2>7 DEF Settles
<1>4. QED
  BY <1>2, <1>3

-----------------------------------------------------------------------------
(* What becomes of a text                                                  *)

\* The steps of a life and its view in TextLife, from l to m and from v to w.
May(l, m, v, w) ==
  \/ m = l /\ w = v
  \/ l = "new" /\ m = "kept" /\ w = v
  \/ l \in {"kept", "adrift"} /\ m \in {"taken", "lost"} /\ w = v
  \/ l = "kept" /\ m \in {"told", "adrift"} /\ w = v
  \/ l = "taken" /\ m \in {"stored", "dropped"} /\ (w = v \/ (v = "draft" /\ w = "nothing"))
  \/ l = "taken" /\ m = "stored" /\ w = "message"
  \/ l \in {"taken", "stored", "dropped"} /\ m = l /\ v = "nothing" /\ w = "draft"
  \/ l \in {"kept", "taken", "stored", "dropped"} /\ m = "doubtful" /\ w = v
  \/ l = "doubtful" /\ m = l /\ v # "message"

\* A text goes on with its life, and the invariant holds of it.
GoesOn(u) == May(LifeOf(u), LifeOf(u)', ViewOf(u), ViewOf(u)') /\ LifeOK(u)'

\* The step leaves what the server and the reader have of the text; it may move in the
\* browser, fall into doubt, or be given up.
Rests(u) ==
  /\ u \in written' <=> u \in written
  /\ u \in accepted' <=> u \in accepted
  /\ rows'[u] = rows[u] /\ saving'[u] = saving[u] /\ seen'[u] = seen[u]
  /\ u \in drafts' <=> u \in drafts
  /\ u \in frame' => u \in frame
  /\ u \in doubtful => u \in doubtful'
  /\ u \in doubtful' => u \in doubtful \/ Held(u)
  /\ u \in reported => u \in reported'
  /\ u \in reported' => u \in reported \cup accepted \/ (Held(u) /\ ~ Held(u)' /\ late'[u] = 0)
  /\ late'[u] > 0 => late[u] > 0 \/ (Held(u) /\ ~ Concluded(u))
  /\ Settles(u)

LEMMA HeldIsWritten ==
  ASSUME SendingInv, NEW u, Held(u)
  PROVE  u \in written
  BY HeldIs DEF SendingInv, QueuesOK, QueueOK, FlushesOK, FlushOK

LEMMA NotHeldNotSent ==
  ASSUME NEW u, ~ Held(u)'
  PROVE  NotSentAgain(u)'
<1>1. u \notin Queued' /\ u \notin Stored' /\ \A f \in Flushes : u \notin Copy(f)'
  BY DEF Held, Queued, Stored, Copy
<1>2. QED
  BY <1>1 DEF NotSentAgain

\* The life of a text that was not sent off, or of one in doubt.
LEMMA TextRests ==
  ASSUME SendingInv, SendingInv', NEW u \in Texts, LifeOK(u), Rests(u)
  PROVE  GoesOn(u)
<1>1. /\ rows[u] \in Nat /\ saving[u] \in Nat /\ late[u] \in Nat /\ late'[u] \in Nat
      /\ Held(u) => u \in written
  BY SentIs, SentWillBe, HeldIsWritten DEF SendingInv
<1>2. OrderOK(u)'
  BY <1>1 DEF LifeOK, OrderOK, Rests
<1>3. GivenUpOK(u)'
  BY DEF LifeOK, GivenUpOK, Rests, Settles
<1>4. ConcludedOK(u)'
  <2>1. SUFFICES ASSUME u \in accepted' \cup reported', u \notin doubtful'
                 PROVE  late'[u] = 0 /\ NotSentAgain(u)'
    BY DEF ConcludedOK, Concluded
  <2>2. CASE Concluded(u)
    BY <1>1, <2>1, <2>2 DEF LifeOK, ConcludedOK, Rests, Settles
  <2>3. CASE ~ Concluded(u)
    BY <2>1, <2>3, NotHeldNotSent DEF Rests, Concluded
  <2>4. QED
    BY <2>2, <2>3
<1>5. ViewOf(u)' = ViewOf(u)
  BY DEF ViewOf, Rests
<1>6. \/ LifeOf(u)' = LifeOf(u)
      \/ LifeOf(u) = "kept" /\ LifeOf(u)' \in {"told", "adrift", "lost"}
      \/ LifeOf(u) = "adrift" /\ LifeOf(u)' = "lost"
      \/ LifeOf(u) \in {"kept", "taken", "stored", "dropped"} /\ LifeOf(u)' = "doubtful"
  <2>1. CASE u \notin written
    BY <2>1 DEF LifeOf, Rests
  <2>2. CASE u \in written /\ u \in doubtful
    BY <2>2 DEF LifeOf, Rests
  <2>3. CASE u \in written /\ u \notin doubtful /\ u \in doubtful'
    <3>1. Held(u) /\ LifeOf(u)' = "doubtful"
      BY <2>3 DEF Rests, LifeOf
    <3>2. LifeOf(u) \in {"kept", "taken", "stored", "dropped"}
      BY <2>3, <3>1 DEF LifeOf, LifeOK, GivenUpOK
    <3>3. QED
      BY <3>1, <3>2
  <2>4. CASE u \in written /\ u \notin doubtful' /\ (rows[u] > 0 \/ saving[u] > 0 \/ u \in accepted)
    BY <2>4 DEF LifeOf, Rests
  <2>5. CASE /\ u \in written /\ u \notin doubtful' /\ ~ (rows[u] > 0 \/ saving[u] > 0)
             /\ u \notin accepted
    <3>1. CASE u \in reported
      BY <2>5, <3>1 DEF LifeOf, Rests
    <3>2. CASE u \notin reported
      <4>1. /\ LifeOf(u) = IF Held(u) THEN "kept" ELSE IF late[u] > 0 THEN "adrift" ELSE "lost"
            /\ LifeOf(u)' = IF u \in reported' THEN "told"
                            ELSE IF Held(u)' THEN "kept"
                            ELSE IF late'[u] > 0 THEN "adrift" ELSE "lost"
        BY <2>5, <3>2 DEF LifeOf, Rests
      <4>2. /\ u \in reported' => Held(u)
            /\ Held(u)' => Held(u)
            /\ late'[u] > 0 => late[u] > 0 \/ Held(u)
        BY <2>5, <3>2 DEF Rests, Settles
      <4>3. QED
        BY <4>1, <4>2
    <3>3. QED
      BY <3>1, <3>2
  <2>6. QED
    BY <2>1, <2>2, <2>3, <2>4, <2>5
<1>7. May(LifeOf(u), LifeOf(u)', ViewOf(u), ViewOf(u)')
  BY <1>5, <1>6 DEF May
<1>8. QED
  BY <1>2, <1>3, <1>4, <1>7 DEF GoesOn, LifeOK

LEMMA ReaderSees ==
  ASSUME Typed, NEW t \in Texts, NEW kind, ReaderGets(kind, t)
  PROVE  /\ \A u \in Texts \ {t} : /\ seen'[u] = seen[u] /\ (u \in drafts' <=> u \in drafts)
                                   /\ u \in frame' <=> u \in frame
         /\ kind = "draft" => seen' = seen /\ drafts' = drafts
         /\ kind # "draft" => frame' = frame
         /\ t \in drafts' => t \in drafts
         /\ seen'[t] = seen[t] \/ (kind = "commit" /\ seen'[t] = seen[t] + 1)
<1>1. seen \in [Texts -> Nat]
  BY DEF Typed
<1>2. CASE watching
  <2>1. /\ frame' = IF kind = "draft" THEN frame \cup {t} ELSE frame
        /\ drafts' = IF Removes(kind) THEN drafts \ {t} ELSE drafts
        /\ seen' = IF kind = "commit" THEN [seen EXCEPT ![t] = @ + 1] ELSE seen
    BY <1>2, Zenon DEF ReaderGets
  <2>2. QED
    BY <1>1, <2>1 DEF Removes
<1>3. CASE ~ watching
  BY <1>3 DEF ReaderGets
<1>4. QED
  BY <1>2, <1>3

-----------------------------------------------------------------------------
(* The steps of the author's browser                                       *)

LEMMA SendMessageLives ==
  ASSUME SendingInv, SendingInv', LifeInv, NEW t \in Texts, SendMessage(t), NEW u \in Texts
  PROVE  GoesOn(u)
<1>1. Typed /\ QueueOK /\ FlushesOK /\ OnceOK(t) /\ LifeOK(u) /\ LifeOK(t)
  BY DEF SendingInv, QueuesOK, AllOnce, LifeInv
<1>2. /\ t \notin written /\ written' = written \cup {t}
      /\ UNCHANGED <<offline, flush, calls, late, saving, rows, frame, drafts, seen, accepted,
                     reported, doubtful>>
  BY DEF SendMessage, server, screen
<1>3. Queued' = Queued \cup {t}
  <2>1. CASE active = <<>>
    <3>1. /\ TakeNext(<<t>>, [bubble EXCEPT ![t] = IF onLine /\ up THEN "queued" ELSE "queued-offline"])
          /\ outgoing = <<>>
      BY <1>1, <2>1 DEF SendMessage, QueueOK
    <3>2. PICK queue \in Seq(Texts) : queue = <<t>> /\ IsInjective(queue) /\ ToSet(queue) = {t}
      BY OneTold
    <3>3. PICK bubbles : TakeNext(queue, bubbles)
      BY <3>1, <3>2
    <3>4. QED
      BY <2>1, <3>1, <3>2, <3>3, TakesNext, NoneTold DEF Queued
  <2>2. CASE active # <<>>
    <3>1. outgoing' = Append(outgoing, t) /\ active' = active
      BY <2>2 DEF SendMessage
    <3>2. ToSet(Append(outgoing, t)) = ToSet(outgoing) \cup {t}
      BY <1>1, AppendTold DEF Typed
    <3>3. QED
      BY <3>1, <3>2 DEF Queued
  <2>3. QED
    BY <2>1, <2>2
<1>4. /\ Stored' = Stored /\ Flushing' = Flushing /\ (\A f : Copy(f)' = Copy(f))
      /\ \A c, v : Lost(c, v)' <=> Lost(c, v)
  BY <1>2 DEF Stored, Flushing, Copy, Lost
<1>5. \A v : Held(v)' <=> v \in Queued' \/ v \in Stored' \/ \E f \in Flushes : v \in Copy(f)'
  BY DEF Held, Queued, Stored, Copy
<1>6. CASE u # t
  <2>1. Settles(u)
    BY <1>1, <1>3, <1>4, <1>5, <1>6, HeldIs
       DEF Settles, LifeOK, ConcludedOK, NotSentAgain
  <2>2. Rests(u)
    BY <1>2, <1>6, <2>1 DEF Rests
  <2>3. QED
    BY <1>1, <2>2, TextRests
<1>7. CASE u = t
  <2>1. t \notin accepted \cup reported \cup doubtful /\ LifeOK(t)'
    BY <1>1, <1>2 DEF LifeOK, OrderOK, ConcludedOK, GivenUpOK, Concluded
  <2>2. late[t] = 0 /\ saving[t] = 0 /\ rows[t] = 0
    <3>1. late[t] \in Nat /\ saving[t] \in Nat /\ rows[t] \in Nat
      BY <1>1, SentIs
    <3>2. QED
      BY <1>1, <1>2, <3>1 DEF OnceOK, Sent
  <2>3. Held(t)'
    BY <1>3, <1>5
  <2>4. LifeOf(t) = "new" /\ LifeOf(t)' = "kept" /\ ViewOf(t)' = ViewOf(t)
    BY <1>2, <2>1, <2>2, <2>3 DEF LifeOf, ViewOf
  <2>5. QED
    BY <1>7, <2>1, <2>4 DEF GoesOn, May
<1>8. QED
  BY <1>6, <1>7

\* The loop goes on without its text.
LEMMA QueueGoesOn ==
  ASSUME SendingInv, NEW t \in Texts, active = <<t>>, NEW bubbles, TakeNext(outgoing, bubbles)
  PROVE  Queued' = Queued \ {t}
<1>1. outgoing \in Seq(Texts) /\ IsInjective(outgoing) /\ ToSet(active) = {t} /\ t \notin ToSet(outgoing)
  BY OneTold DEF SendingInv, Typed, QueuesOK, QueueOK
<1>2. PICK queue \in Seq(Texts) : queue = outgoing
  BY <1>1
<1>3. TakeNext(queue, bubbles) /\ IsInjective(queue)
  BY <1>1, <1>2
<1>4. Queued' = ToSet(queue)
  BY <1>3, TakesNext
<1>5. QED
  BY <1>1, <1>2, <1>4 DEF Queued

LEMMA EmitNextLives ==
  ASSUME SendingInv, SendingInv', LifeInv, EmitNext, NEW u \in Texts
  PROVE  GoesOn(u)
<1>1. Typed /\ QueueOK /\ LifeOK(u)
  BY DEF SendingInv, QueuesOK, LifeInv
<1>2. /\ active # <<>> /\ calls["queue"].at = "none"
      /\ UNCHANGED <<flush, late, saving, rows, frame, drafts, seen, written, accepted, reported,
                     doubtful>>
  BY DEF EmitNext, server, screen
<1>3. PICK t \in Texts : t = active[1] /\ active = <<t>> /\ ~ Concluded(t)
  BY <1>2, OnItsWay, NextIsOpen
<1>4. CASE onLine /\ up
  <2>1. /\ calls' = [calls EXCEPT !["queue"] = [at |-> "sent", text |-> active[1]]]
        /\ UNCHANGED <<outgoing, active, offline>>
    BY <1>4 DEF EmitNext
  <2>2. \A c \in Callers : calls[c].at = "lost" => calls'[c] = calls[c]
    BY <1>1, <1>2, <2>1 DEF Typed
  <2>3. Settles(u)
    BY <1>2, <2>1, <2>2, UnchangedSettles
  <2>4. QED
    BY <1>1, <1>2, <2>3, TextRests DEF Rests
<1>5. CASE ~(onLine /\ up)
  <2>1. PutOffline(t) /\ calls' = calls
    BY <1>3, <1>5 DEF EmitNext
  <2>2. Queued' = Queued \ {t} /\ Stored' = Stored \cup {t}
    BY <1>1, <1>3, <2>1, OfflineTyped
  <2>3. Settles(u)
    BY <1>2, <1>3, <2>1, <2>2, QueueSettles
  <2>4. QED
    BY <1>1, <1>2, <2>3, TextRests DEF Rests
<1>6. QED
  BY <1>4, <1>5

LEMMA RefuseNextLives ==
  ASSUME SendingInv, SendingInv', LifeInv, RefuseNext, NEW u \in Texts
  PROVE  GoesOn(u)
<1>1. Typed /\ QueueOK /\ LifeOK(u)
  BY DEF SendingInv, QueuesOK, LifeInv
<1>2. /\ active # <<>> /\ calls["queue"].at = "none"
      /\ UNCHANGED <<flush, calls, late, saving, rows, frame, drafts, seen, written, accepted,
                     doubtful>>
  BY DEF RefuseNext, server, screen
<1>3. PICK t \in Texts : /\ t = active[1] /\ active = <<t>> /\ ~ Concluded(t) /\ t \in Queued
                         /\ Sent(t) = 0
  BY <1>2, OnItsWay, NextIsOpen DEF Lost
<1>4. ASSUME GiveUp(t), UNCHANGED <<offline, overtaken>> PROVE GoesOn(u)
  <2>1. GiveUp(t) /\ UNCHANGED <<offline, overtaken>>
    BY <1>4
  <2>2. PICK bubbles : TakeNext(outgoing, bubbles) /\ reported' = reported \cup {t}
    BY <2>1 DEF GiveUp
  <2>3. Queued' = Queued \ {t} /\ Stored' = Stored
    BY <1>3, <2>1, <2>2, QueueGoesOn DEF Stored
  <2>4. Settles(u) /\ ~ Held(t)'
    BY <1>2, <1>3, <2>3, QueueSettles
  <2>5. Held(t) /\ late'[t] = 0
    <3>1. late[t] \in Nat /\ saving[t] \in Nat /\ rows[t] \in Nat
      BY <1>1, SentIs
    <3>2. late[t] = 0
      BY <1>3, <3>1 DEF Sent
    <3>3. QED
      BY <1>2, <1>3, <3>2, HeldIs
  <2>6. QED
    BY <1>1, <1>2, <2>2, <2>4, <2>5, TextRests DEF Rests
<1>5. ASSUME PutOffline(t), reported' = reported PROVE GoesOn(u)
  <2>1. PutOffline(t) /\ reported' = reported
    BY <1>5
  <2>2. Queued' = Queued \ {t} /\ Stored' = Stored \cup {t}
    BY <1>1, <1>3, <2>1, OfflineTyped
  <2>3. Settles(u)
    BY <1>2, <1>3, <2>1, <2>2, QueueSettles
  <2>4. QED
    BY <1>1, <1>2, <2>1, <2>3, TextRests DEF Rests
<1>6. QED
  BY <1>3, <1>4, <1>5 DEF RefuseNext

LEMMA FlushEmitLives ==
  ASSUME SendingInv, SendingInv', LifeInv, NEW f \in Flushes, FlushEmit(f), NEW u \in Texts
  PROVE  GoesOn(u)
<1>1. Typed /\ FlushOK(f) /\ LifeOK(u)
  BY DEF SendingInv, QueuesOK, FlushesOK, LifeInv
<1>2. /\ flush[f].at = "encrypting" /\ flush' = [flush EXCEPT ![f].at = "calling"]
      /\ \A c \in Callers \ {f} : calls'[c] = calls[c]
      /\ UNCHANGED <<outgoing, active, offline, late, saving, rows, frame, drafts, seen, written,
                     accepted, reported, doubtful>>
  BY <1>1 DEF FlushEmit, server, screen, history, Typed
<1>3. \A c \in Callers : calls[c].at = "lost" => calls'[c] = calls[c]
  BY <1>1, <1>2, SendingBounds DEF FlushOK
<1>4. PICK r \in FlushRow : r = flush[f]
  BY <1>1 DEF Typed
<1>5. /\ flush'[f].at = "calling" /\ flush'[f].todo = flush[f].todo /\ flush'[f].keep = flush[f].keep
      /\ \A g \in Flushes \ {f} : flush'[g] = flush[g]
  <2>1. /\ [r EXCEPT !.at = "calling"].at = "calling"
        /\ [r EXCEPT !.at = "calling"].todo = r.todo /\ [r EXCEPT !.at = "calling"].keep = r.keep
    BY DEF FlushRow
  <2>2. flush'[f] = [r EXCEPT !.at = "calling"]
    BY <1>1, <1>2, <1>4 DEF Typed
  <2>3. QED
    BY <1>1, <1>2, <1>4, <2>1, <2>2 DEF Typed
<1>6. /\ Queued' = Queued /\ Stored' = Stored /\ (\A g \in Flushes : Copy(g)' = Copy(g))
      /\ \A g \in Flushes : flush'[g].at # "idle" <=> flush[g].at # "idle"
  BY <1>2, <1>5 DEF Queued, Stored, Copy
<1>7. Flushing' = Flushing
  BY <1>6 DEF Flushing
<1>8. Settles(u)
  BY <1>3, <1>6, <1>7, StillSettles
<1>9. QED
  BY <1>1, <1>2, <1>8, TextRests DEF Rests

LEMMA FlushKeepLives ==
  ASSUME SendingInv, SendingInv', LifeInv, NEW f \in Flushes, FlushKeep(f), NEW u \in Texts
  PROVE  GoesOn(u)
<1>1. FlushOK(f) /\ LifeOK(u)
  BY DEF SendingInv, QueuesOK, FlushesOK, LifeInv
<1>2. /\ flush[f].at = "encrypting" /\ FlushOn(f, Append(flush[f].keep, Head(flush[f].todo)))
      /\ UNCHANGED <<outgoing, active, calls, late, saving, rows, frame, drafts, seen, written,
                     accepted, reported, doubtful>>
  BY DEF FlushKeep, server, screen, history
<1>3. calls[f].at = "none"
  BY <1>1, <1>2 DEF FlushOK
<1>4. ~ Concluded(Head(flush[f].todo))
  BY <1>2, <1>3, NextIsOpen
<1>5. PICK kept \in BOOLEAN : kept
  OBVIOUS
<1>6. FlushOn(f, IF kept THEN Append(flush[f].keep, Head(flush[f].todo)) ELSE flush[f].keep)
  BY <1>2, <1>5
<1>7. Settles(u)
  BY <1>2, <1>4, <1>6, FlushSettles
<1>8. QED
  BY <1>1, <1>2, <1>7, TextRests DEF Rests

\* Only a packet that may be on its way leaves its text in doubt.
LEMMA TimeOutLives ==
  ASSUME SendingInv, SendingInv', LifeInv, NEW c \in Callers, TimeOut(c), NEW u \in Texts
  PROVE  GoesOn(u)
<1>1. Typed /\ QueueOK /\ FlushesOK /\ LifeOK(u)
  BY DEF SendingInv, QueuesOK, LifeInv
<1>2. PICK t \in Texts : t = calls[c].text
  BY <1>1, RowsTold DEF Typed
<1>3. /\ calls[c].at \in {"buffered", "sent", "lost"}
      /\ calls' = [calls EXCEPT ![c] = NoCall]
      /\ IF calls[c].at = "sent" THEN late' = [late EXCEPT ![t] = @ + 1] ELSE late' = late
      /\ doubtful' = IF calls[c].at = "buffered" THEN doubtful ELSE doubtful \cup {t}
      /\ IF c = "queue" THEN PutOffline(t) /\ UNCHANGED flush
         ELSE FlushOn(c, Append(flush[c].keep, t)) /\ UNCHANGED <<active, outgoing>>
      /\ UNCHANGED <<saving, rows, frame, drafts, seen, written, accepted, reported>>
  BY <1>2 DEF TimeOut, server, screen
<1>4. \A k \in Callers \ {c} : calls'[k] = calls[k]
  BY <1>1, <1>3 DEF Typed
<1>5. /\ Held(t)
      /\ IF c = "queue" THEN active = <<t>>
         ELSE c \in Flushes /\ flush[c].at = "calling" /\ t = Head(flush[c].todo)
  BY <1>2, <1>3, CallersText
<1>6. calls[c].at \in {"buffered", "sent"} => ~ Concluded(t)
  BY <1>2, CallIsOpen DEF LifeInv, LifeOK
<1>7. Concluded(t) => t \in doubtful'
  BY <1>3, <1>6
<1>8. late'[u] > 0 => late[u] > 0 \/ (Held(u) /\ ~ Concluded(u))
  <2>1. CASE calls[c].at = "sent" /\ u = t
    BY <1>5, <1>6, <2>1
  <2>2. CASE calls[c].at # "sent" \/ u # t
    <3>1. late \in [Texts -> 0 .. MaxTroubles + MaxFailures]
      BY <1>1 DEF Typed
    <3>2. late'[u] = late[u]
      BY <1>3, <2>2, <3>1
    <3>3. QED
      BY <3>2
  <2>3. QED
    BY <2>1, <2>2
<1>9. Settles(u)
  <2>1. CASE c = "queue"
    <3>1. PutOffline(t) /\ UNCHANGED flush /\ active = <<t>>
      BY <1>3, <1>5, <2>1
    <3>2. Queued' = Queued \ {t} /\ Stored' = Stored \cup {t}
      BY <1>1, <3>1, OfflineTyped
    <3>3. \A f \in Flushes : calls'[f] = calls[f]
      BY <1>4, <2>1, SendingBounds
    <3>4. QED
      BY <1>7, <3>1, <3>2, <3>3, QueueSettles
  <2>2. CASE c # "queue"
    <3>1. /\ c \in Flushes /\ flush[c].at # "idle" /\ t = Head(flush[c].todo)
          /\ FlushOn(c, Append(flush[c].keep, t)) /\ UNCHANGED <<active, outgoing>>
      BY <1>3, <1>5, <2>2
    <3>2. PICK kept \in BOOLEAN : kept
      OBVIOUS
    <3>3. FlushOn(c, IF kept THEN Append(flush[c].keep, Head(flush[c].todo)) ELSE flush[c].keep)
      BY <3>1, <3>2
    <3>4. QED
      BY <1>4, <1>7, <3>1, <3>3, FlushSettles
  <2>3. QED
    BY <2>1, <2>2
<1>10. Rests(u)
  BY <1>3, <1>5, <1>8, <1>9 DEF Rests
<1>11. QED
  BY <1>1, <1>10, TextRests

-----------------------------------------------------------------------------
(* The steps of the server and of the reader                               *)

\* A text that is taken for the first time, or again in doubt.
LEMMA TakenLives ==
  ASSUME SendingInv, SendingInv', LifeInv, NEW t \in Texts,
         t \notin doubtful => /\ ~ Concluded(t) /\ Sent(t) = late[t]
                              /\ Held(t) \/ late[t] > 0
                              /\ late'[t] = 0 /\ NotSentAgain(t)',
         Accept(t), UNCHANGED <<rows, written, reported, doubtful>>, t \in written
  PROVE  GoesOn(t)
<1>1. Typed /\ Typed' /\ LifeOK(t)
  BY DEF SendingInv, LifeInv
<1>2. /\ saving' = [saving EXCEPT ![t] = @ + 1] /\ ReaderGets("draft", t)
      /\ accepted' = accepted \cup {t}
  BY DEF Accept
<1>3. /\ late[t] \in Nat /\ saving[t] \in Nat /\ rows[t] \in Nat /\ seen[t] \in Nat
      /\ saving'[t] = saving[t] + 1
  BY <1>1, <1>2, SentIs DEF Typed
<1>4. seen' = seen /\ drafts' = drafts
  BY <1>1, <1>2, ReaderSees
<1>5. LifeOK(t)'
  BY <1>2 DEF LifeOK, OrderOK, GivenUpOK, ConcludedOK, Concluded
<1>6. ViewOf(t)' = ViewOf(t)
  BY <1>4 DEF ViewOf
<1>7. CASE t \in doubtful
  <2>1. LifeOf(t) = "doubtful" /\ LifeOf(t)' = "doubtful"
    BY <1>7 DEF LifeOf
  <2>2. QED
    BY <1>5, <1>6, <2>1 DEF GoesOn, May
<1>8. CASE t \notin doubtful
  <2>1. saving[t] = 0 /\ rows[t] = 0 /\ t \notin accepted \cup reported
    BY <1>3, <1>8 DEF Sent, Concluded
  <2>2. LifeOf(t) \in {"kept", "adrift"}
    BY <1>8, <2>1 DEF LifeOf
  <2>3. LifeOf(t)' = "taken"
    BY <1>2, <1>3, <1>8, <2>1 DEF LifeOf
  <2>4. QED
    BY <1>5, <1>6, <2>2, <2>3 DEF GoesOn, May
<1>9. QED
  BY <1>7, <1>8

\* The other texts do not notice.
LEMMA OthersRest ==
  ASSUME SendingInv, SendingInv', LifeInv, NEW t \in Texts, Accept(t), NEW u \in Texts \ {t},
         Settles(u), late'[u] = late[u], UNCHANGED <<rows, written, reported, doubtful>>
  PROVE  GoesOn(u)
<1>1. Typed /\ LifeOK(u)
  BY DEF SendingInv, LifeInv
<1>2. /\ saving' = [saving EXCEPT ![t] = @ + 1] /\ ReaderGets("draft", t)
      /\ accepted' = accepted \cup {t}
  BY DEF Accept
<1>3. seen'[u] = seen[u] /\ (u \in drafts' <=> u \in drafts) /\ (u \in frame' <=> u \in frame)
  BY <1>1, <1>2, ReaderSees
<1>4. saving'[u] = saving[u]
  BY <1>1, <1>2 DEF Typed
<1>5. QED
  BY <1>1, <1>2, <1>3, <1>4, TextRests DEF Rests

LEMMA HandleMessageLives ==
  ASSUME SendingInv, SendingInv', LifeInv, NEW c \in Callers, HandleMessage(c), NEW u \in Texts
  PROVE  GoesOn(u)
<1>1. Typed /\ QueueOK /\ FlushesOK /\ AllOnce
  BY DEF SendingInv, QueuesOK
<1>2. PICK t \in Texts : t = calls[c].text
  BY <1>1, RowsTold DEF Typed
<1>3. /\ calls[c].at = "sent" /\ calls' = [calls EXCEPT ![c] = NoCall] /\ Accept(t)
      /\ IF c = "queue" THEN TakeNext(outgoing, bubble) /\ UNCHANGED <<flush, offline>>
         ELSE FlushOn(c, flush[c].keep) /\ UNCHANGED <<active, outgoing>>
      /\ UNCHANGED <<late, rows, written, reported, doubtful>>
  BY <1>2 DEF HandleMessage
<1>4. \A k \in Callers \ {c} : calls'[k] = calls[k]
  BY <1>1, <1>3 DEF Typed
<1>5. /\ Held(t) /\ t \in written
      /\ IF c = "queue" THEN active = <<t>> /\ t \in Queued
         ELSE c \in Flushes /\ flush[c].at = "calling" /\ t = Head(flush[c].todo) /\ t \in Copy(c)
  BY <1>2, <1>3, CallersText
<1>6. ~ Concluded(t) /\ ~ Lost(c, t) /\ OnceOK(t)
  BY <1>1, <1>2, <1>3, CallIsOpen DEF LifeInv, LifeOK, Lost, AllOnce
<1>7. late[t] \in Nat /\ saving[t] \in Nat /\ rows[t] \in Nat
  BY <1>1, SentIs
<1>8. t \notin doubtful => Sent(t) = 0
  BY <1>5, <1>6 DEF OnceOK
<1>9. t \notin doubtful => Sent(t) = late[t] /\ late'[t] = 0
  <2>1. ASSUME Sent(t) = 0 PROVE late[t] = 0
    BY <1>7, <2>1 DEF Sent
  <2>2. QED
    BY <1>3, <1>8, <2>1
<1>10. Settles(u) /\ (t \notin doubtful => NotSentAgain(t)')
  <2>1. CASE c = "queue"
    <3>1. TakeNext(outgoing, bubble) /\ UNCHANGED <<flush, offline>> /\ active = <<t>>
      BY <1>3, <1>5, <2>1
    <3>2. Queued' = Queued \ {t} /\ Stored' = Stored
      BY <3>1, QueueGoesOn DEF Stored
    <3>3. \A f \in Flushes : calls'[f] = calls[f]
      BY <1>4, <2>1, SendingBounds
    <3>4. Settles(u) /\ ~ Held(t)'
      BY <1>6, <3>1, <3>2, <3>3, QueueSettles
    <3>5. QED
      BY <3>4, NotHeldNotSent
  <2>2. CASE c # "queue"
    <3>1. /\ c \in Flushes /\ flush[c].at # "idle" /\ t = Head(flush[c].todo) /\ t \in Copy(c)
          /\ FlushOn(c, flush[c].keep) /\ UNCHANGED <<active, outgoing>>
      BY <1>3, <1>5, <2>2
    <3>2. PICK kept \in BOOLEAN : ~ kept
      OBVIOUS
    <3>3. FlushOn(c, IF kept THEN Append(flush[c].keep, Head(flush[c].todo)) ELSE flush[c].keep)
      BY <3>1, <3>2
    <3>4. /\ Settles(u) /\ Queued' = Queued
          /\ \A g \in Flushes \ {c} : Copy(g)' = Copy(g)
          /\ Copy(c)' \subseteq IF kept THEN Copy(c) ELSE Copy(c) \ {t}
          /\ \/ Stored' = Stored /\ Flushing' # {}
             \/ Stored' = IF kept THEN Copy(c) ELSE Copy(c) \ {t}
      BY <1>4, <1>6, <3>1, <3>3, FlushSettles
    <3>5. ASSUME t \notin doubtful PROVE NotSentAgain(t)'
      <4>1. t \notin Queued'
        BY <1>1, <3>1, <3>4 DEF FlushesOK, FlushOK
      <4>2. \A g \in Flushes : t \notin Copy(g)'
        BY <1>6, <3>1, <3>2, <3>4, <3>5 DEF OnceOK
      <4>3. t \in Stored' => Flushing' # {}
        BY <3>2, <3>4
      <4>4. QED
        BY <4>1, <4>2, <4>3 DEF NotSentAgain
    <3>6. QED
      BY <3>4, <3>5
  <2>3. QED
    BY <2>1, <2>2
<1>11. CASE u = t
  BY <1>3, <1>5, <1>6, <1>9, <1>10, <1>11, TakenLives
<1>12. CASE u # t
  BY <1>3, <1>10, <1>12, OthersRest
<1>13. QED
  BY <1>11, <1>12

LEMMA RefuseMessageLives ==
  ASSUME SendingInv, SendingInv', LifeInv, NEW c \in Callers, RefuseMessage(c), NEW u \in Texts
  PROVE  GoesOn(u)
<1>1. Typed /\ LifeOK(u)
  BY DEF SendingInv, LifeInv
<1>2. /\ calls[c].at = "sent" /\ calls' = [calls EXCEPT ![c].at = "lost"]
      /\ UNCHANGED <<outgoing, active, offline, flush, late, saving, rows, frame, drafts, seen,
                     written, accepted, reported, doubtful>>
  BY DEF RefuseMessage, outbox, server, screen, history
<1>3. \A k \in Callers : calls[k].at = "lost" => calls'[k] = calls[k]
  BY <1>1, <1>2 DEF Typed
<1>4. Settles(u)
  BY <1>2, <1>3, UnchangedSettles
<1>5. QED
  BY <1>1, <1>2, <1>4, TextRests DEF Rests

LEMMA RejectMessageLives ==
  ASSUME SendingInv, SendingInv', LifeInv, NEW c \in Callers, RejectMessage(c), NEW u \in Texts
  PROVE  GoesOn(u)
<1>1. Typed /\ AllOnce /\ LifeOK(u)
  BY DEF SendingInv, QueuesOK, LifeInv
<1>2. PICK t \in Texts : t = calls[c].text
  BY <1>1, RowsTold DEF Typed
<1>3. /\ calls[c].at = "sent" /\ calls' = [calls EXCEPT ![c] = NoCall]
      /\ IF c = "queue" THEN GiveUp(t) /\ UNCHANGED <<flush, offline>>
         ELSE /\ FlushOn(c, Append(flush[c].keep, t))
              /\ UNCHANGED <<active, outgoing, reported>>
      /\ UNCHANGED <<late, saving, rows, frame, drafts, seen, written, accepted, doubtful>>
  BY <1>2 DEF RejectMessage, server, screen
<1>4. \A k \in Callers \ {c} : calls'[k] = calls[k]
  BY <1>1, <1>3 DEF Typed
<1>5. /\ Held(t)
      /\ IF c = "queue" THEN active = <<t>> /\ t \in Queued
         ELSE c \in Flushes /\ flush[c].at = "calling" /\ t = Head(flush[c].todo)
  BY <1>2, <1>3, CallersText
<1>6. ~ Concluded(t) /\ ~ Lost(c, t) /\ OnceOK(t)
  BY <1>1, <1>2, <1>3, CallIsOpen DEF LifeInv, LifeOK, Lost, AllOnce
<1>7. CASE c = "queue"
  <2>1. GiveUp(t) /\ UNCHANGED <<flush, offline>> /\ active = <<t>>
    BY <1>3, <1>5, <1>7
  <2>2. PICK bubbles : TakeNext(outgoing, bubbles) /\ reported' = reported \cup {t}
    BY <2>1 DEF GiveUp
  <2>3. Queued' = Queued \ {t} /\ Stored' = Stored
    BY <2>1, <2>2, QueueGoesOn DEF Stored
  <2>4. \A f \in Flushes : calls'[f] = calls[f]
    BY <1>4, <1>7, SendingBounds
  <2>5. Settles(u) /\ ~ Held(t)'
    BY <1>6, <2>1, <2>3, <2>4, QueueSettles
  <2>6. late'[t] = 0
    <3>1. late[t] \in Nat /\ saving[t] \in Nat /\ rows[t] \in Nat
      BY <1>1, SentIs
    <3>2. Sent(t) = 0
      BY <1>5, <1>6, <1>7 DEF OnceOK
    <3>3. late[t] = 0
      BY <3>1, <3>2 DEF Sent
    <3>4. QED
      BY <1>3, <3>3
  <2>7. QED
    BY <1>1, <1>3, <1>5, <2>2, <2>5, <2>6, TextRests DEF Rests
<1>8. CASE c # "queue"
  <2>1. /\ c \in Flushes /\ flush[c].at # "idle" /\ t = Head(flush[c].todo)
        /\ FlushOn(c, Append(flush[c].keep, t)) /\ UNCHANGED <<active, outgoing, reported>>
    BY <1>3, <1>5, <1>8
  <2>2. PICK kept \in BOOLEAN : kept
    OBVIOUS
  <2>3. FlushOn(c, IF kept THEN Append(flush[c].keep, Head(flush[c].todo)) ELSE flush[c].keep)
    BY <2>1, <2>2
  <2>4. Settles(u)
    BY <1>4, <1>6, <2>1, <2>3, FlushSettles
  <2>5. QED
    BY <1>1, <1>3, <2>1, <2>4, TextRests DEF Rests
<1>9. QED
  BY <1>7, <1>8

LEMMA HandleLateLives ==
  ASSUME SendingInv, SendingInv', LifeInv, NEW t \in Texts, HandleLate(t), NEW u \in Texts
  PROVE  GoesOn(u)
<1>1. Typed /\ AllOnce /\ OnceOK(t) /\ LifeOK(t)
  BY DEF SendingInv, QueuesOK, AllOnce, LifeInv
<1>2. /\ late[t] > 0 /\ late' = [late EXCEPT ![t] = @ - 1] /\ Accept(t)
      /\ UNCHANGED <<outgoing, active, offline, flush, calls, rows, written, reported, doubtful>>
  BY DEF HandleLate, outbox
<1>3. Settles(u)
  BY <1>2, UnchangedSettles
<1>4. /\ late'[t] = late[t] - 1 /\ \A v \in Texts \ {t} : late'[v] = late[v]
  BY <1>1, <1>2 DEF Typed
<1>5. late[t] \in Nat /\ saving[t] \in Nat /\ rows[t] \in Nat
  BY <1>1, SentIs
<1>6. Sent(t) > 0
  BY <1>2, <1>5 DEF Sent
<1>7. t \in written /\ ~ Concluded(t)
  BY <1>1, <1>2, <1>6 DEF OnceOK, LifeOK, ConcludedOK
<1>8. ASSUME t \notin doubtful PROVE Sent(t) = late[t] /\ late'[t] = 0 /\ NotSentAgain(t)'
  <2>1. Sent(t) <= 1
    BY <1>1, <1>8 DEF OnceOK
  <2>2. Sent(t) = late[t] /\ late'[t] = 0
    BY <1>2, <1>4, <1>5, <2>1 DEF Sent
  <2>3. NotSentAgain(t)
    BY <1>1, <1>6, <1>8, <2>2, SendingBounds DEF OnceOK, NotSentAgain
  <2>4. NotSentAgain(t)'
    BY <1>2, <2>3 DEF NotSentAgain, Queued, Stored, Copy, Lost, Flushing
  <2>5. QED
    BY <2>2, <2>4
<1>9. CASE u = t
  BY <1>2, <1>7, <1>8, <1>9, TakenLives
<1>10. CASE u # t
  BY <1>2, <1>3, <1>4, <1>10, OthersRest
<1>11. QED
  BY <1>9, <1>10

\* What is stored of a text, or dropped, was taken; the reader's draft gives way to the
\* message, or goes.
LEMMA AnswerLives ==
  ASSUME SendingInv, SendingInv', LifeInv, NEW t \in Texts,
         NEW kind \in {"commit", "rollback"}, Announce(kind, t),
         saving[t] > 0, saving' = [saving EXCEPT ![t] = @ - 1],
         NEW stored \in {0, 1}, rows' = [rows EXCEPT ![t] = @ + stored],
         kind = "commit" => stored = 1,
         UNCHANGED <<outgoing, active, offline, flush, calls, late, written, accepted, doubtful>>,
         NEW u \in Texts
  PROVE  GoesOn(u)
<1>1. Typed /\ LifeOK(u) /\ LifeOK(t) /\ OnceOK(t)
  BY DEF SendingInv, QueuesOK, AllOnce, LifeInv
<1>2. /\ ReaderGets(kind, t) /\ kind # "draft"
      /\ reported' = reported \/ reported' = reported \cup {t}
  BY DEF Announce
<1>3. /\ \A v \in Texts \ {t} : seen'[v] = seen[v] /\ (v \in drafts' <=> v \in drafts)
      /\ frame' = frame /\ (t \in drafts' => t \in drafts)
      /\ seen'[t] = seen[t] \/ (kind = "commit" /\ seen'[t] = seen[t] + 1)
  BY <1>1, <1>2, ReaderSees
<1>4. Settles(u) /\ Settles(t)
  BY UnchangedSettles
<1>5. CASE u # t
  <2>1. rows'[u] = rows[u] /\ saving'[u] = saving[u]
    BY <1>1, <1>5 DEF Typed
  <2>2. QED
    BY <1>1, <1>2, <1>3, <1>4, <1>5, <2>1, TextRests DEF Rests
<1>6. CASE u = t
  <2>1. /\ late[t] \in Nat /\ saving[t] \in Nat /\ rows[t] \in Nat /\ seen[t] \in Nat
        /\ saving'[t] = saving[t] - 1 /\ rows'[t] = rows[t] + stored
    BY <1>1, SentIs DEF Typed
  <2>2. t \in accepted /\ t \in written
    BY <1>1 DEF LifeOK, OrderOK
  <2>3. LifeOK(t)'
    <3>1. OrderOK(t)'
      BY <1>2, <1>3, <2>2 DEF OrderOK
    <3>2. GivenUpOK(t)'
      BY <2>2 DEF GivenUpOK
    <3>3. ConcludedOK(t)'
      BY <1>1, <1>4, <2>2 DEF LifeOK, ConcludedOK, Concluded, Settles
    <3>4. QED
      BY <3>1, <3>2, <3>3 DEF LifeOK
  <2>4. \/ ViewOf(t)' = ViewOf(t)
        \/ ViewOf(t) = "draft" /\ ViewOf(t)' = "nothing"
        \/ kind = "commit" /\ ViewOf(t)' = "message"
    BY <1>3, <2>1 DEF ViewOf
  <2>5. CASE t \in doubtful
    <3>1. LifeOf(t) = "doubtful" /\ LifeOf(t)' = "doubtful"
      BY <2>2, <2>5 DEF LifeOf
    <3>2. ViewOf(t) = "message" => ViewOf(t)' = "message"
      BY <1>3, <2>1 DEF ViewOf
    <3>3. QED
      BY <1>6, <2>3, <3>1, <3>2 DEF GoesOn, May
  <2>6. CASE t \notin doubtful
    <3>1. saving[t] = 1 /\ rows[t] = 0
      BY <1>1, <2>1, <2>6 DEF OnceOK, Sent
    <3>2. LifeOf(t) = "taken"
      BY <2>2, <2>6, <3>1 DEF LifeOf
    <3>3. LifeOf(t)' = IF stored = 1 THEN "stored" ELSE "dropped"
      BY <2>1, <2>2, <2>6, <3>1 DEF LifeOf
    <3>4. May(LifeOf(t), LifeOf(t)', ViewOf(t), ViewOf(t)')
      <4>1. CASE stored = 1
        <5>1. LifeOf(t)' = "stored"
          BY <3>3, <4>1
        <5>2. QED
          BY <2>4, <3>2, <5>1 DEF May
      <4>2. CASE stored # 1
        <5>1. LifeOf(t)' = "dropped" /\ kind # "commit"
          BY <3>3, <4>2
        <5>2. QED
          BY <2>4, <3>2, <5>1 DEF May
      <4>3. QED
        BY <4>1, <4>2
    <3>5. QED
      BY <1>6, <2>3, <3>4 DEF GoesOn
  <2>7. QED
    BY <2>5, <2>6
<1>7. QED
  BY <1>5, <1>6

LEMMA PersistLives ==
  ASSUME SendingInv, SendingInv', LifeInv, NEW t \in Texts, Persist(t) \/ PersistFails(t),
         NEW u \in Texts
  PROVE  GoesOn(u)
<1>1. PICK kind \in {"commit", "rollback"}, stored \in {0, 1} :
        /\ Announce(kind, t) /\ rows' = [rows EXCEPT ![t] = @ + stored]
        /\ kind = "commit" => stored = 1
  <2>1. CASE Persist(t)
    BY <2>1 DEF Persist
  <2>2. CASE PersistFails(t)
    BY <2>2 DEF PersistFails
  <2>3. QED
    BY <2>1, <2>2
<1>2. /\ saving[t] > 0 /\ saving' = [saving EXCEPT ![t] = @ - 1]
      /\ UNCHANGED <<outgoing, active, offline, flush, calls, late, written, accepted, doubtful>>
  BY DEF Persist, PersistFails
<1>3. QED
  BY <1>1, <1>2, AnswerLives

\* A frame shows drafts of what the server has taken.
LEMMA ReaderLives ==
  ASSUME SendingInv, SendingInv', LifeInv, ShowFrame \/ ReaderLeaves \/ ReaderReturns,
         NEW u \in Texts
  PROVE  GoesOn(u)
<1>1. Typed /\ LifeOK(u)
  BY DEF SendingInv, LifeInv
<1>2. UNCHANGED <<outgoing, active, offline, flush, calls, late, saving, rows, seen, written,
                  accepted, reported, doubtful>>
  BY DEF ShowFrame, ReaderLeaves, ReaderReturns, outbox, server, history
<1>3. \/ frame' = frame /\ drafts' = drafts
      \/ drafts' = drafts \cup frame /\ frame' = {}
  BY DEF ShowFrame, ReaderLeaves, ReaderReturns
<1>4. Settles(u)
  BY <1>2, UnchangedSettles
<1>5. CASE u \in frame /\ u \notin drafts /\ frame' = {} /\ drafts' = drafts \cup frame
  <2>1. u \in accepted /\ u \in written
    BY <1>1, <1>5 DEF LifeOK, OrderOK
  <2>2. LifeOf(u)' = LifeOf(u) /\ LifeOf(u) \in {"taken", "stored", "dropped", "doubtful"}
    BY <1>2, <2>1 DEF LifeOf
  <2>3. ViewOf(u)' = ViewOf(u) \/ (ViewOf(u) = "nothing" /\ ViewOf(u)' = "draft")
    BY <1>2, <1>5 DEF ViewOf
  <2>4. LifeOK(u)'
    BY <1>1, <1>2, <1>4, <1>5, <2>1
       DEF LifeOK, OrderOK, ConcludedOK, Concluded, GivenUpOK, Settles
  <2>5. QED
    BY <2>2, <2>3, <2>4 DEF GoesOn, May
<1>6. CASE ~ (u \in frame /\ u \notin drafts /\ frame' = {} /\ drafts' = drafts \cup frame)
  BY <1>1, <1>2, <1>3, <1>4, <1>6, TextRests DEF Rests
<1>7. QED
  BY <1>5, <1>6

-----------------------------------------------------------------------------
(* The steps of connections, pages and processes                           *)

\* A packet that is cut off was one of a text that the browser holds.
LEMMA CutIsHeld ==
  ASSUME SendingInv, LifeInv, NEW waiting \in BOOLEAN, Cut(waiting), NEW u \in Texts
  PROVE  late'[u] > 0 => late[u] > 0 \/ (Held(u) /\ ~ Concluded(u))
<1>1. PICK arrived \in SUBSET {c \in Callers : calls[c].at = "sent"} :
        late' = [t \in Texts |-> late[t] + IF \E c \in arrived : calls[c].text = t THEN 1 ELSE 0]
  BY DEF Cut
<1>2. CASE \E c \in arrived : calls[c].text = u
  <2>1. PICK c \in Callers : calls[c].at = "sent" /\ calls[c].text = u
    BY <1>2
  <2>2. QED
    BY <2>1, CallersText, CallIsOpen DEF LifeInv, LifeOK
<1>3. CASE ~ \E c \in arrived : calls[c].text = u
  <2>1. late[u] \in Nat
    BY SentIs DEF SendingInv
  <2>2. late'[u] = late[u] + 0
    BY <1>1, <1>3
  <2>3. QED
    BY <2>1, <2>2
<1>4. QED
  BY <1>2, <1>3

LEMMA DisconnectLives ==
  ASSUME SendingInv, SendingInv', LifeInv, Disconnect, NEW u \in Texts
  PROVE  GoesOn(u)
<1>1. Typed /\ LifeOK(u)
  BY DEF SendingInv, LifeInv
<1>2. /\ Cut(TRUE)
      /\ UNCHANGED <<outgoing, active, offline, flush, saving, rows, frame, drafts, seen, written,
                     accepted, reported, doubtful>>
  BY DEF Disconnect, server, screen, history
<1>3. calls' = [c \in Callers |-> IF calls[c].at = "sent"
                                  THEN [calls[c] EXCEPT !.at = "lost"] ELSE calls[c]]
  BY <1>2 DEF Cut
<1>4. Settles(u)
  BY <1>2, <1>3, UnchangedSettles
<1>5. late'[u] > 0 => late[u] > 0 \/ (Held(u) /\ ~ Concluded(u))
  BY <1>2, CutIsHeld
<1>6. QED
  BY <1>1, <1>2, <1>4, <1>5, TextRests DEF Rests

LEMMA StartLives ==
  ASSUME SendingInv, SendingInv', LifeInv, BackOnline \/ Reconnect, NEW u \in Texts
  PROVE  GoesOn(u)
<1>1. Typed /\ LifeOK(u)
  BY DEF SendingInv, LifeInv
<1>2. /\ StartFlush /\ \A c \in Callers : calls[c].at = "lost" => calls'[c] = calls[c]
      /\ UNCHANGED <<outgoing, active, offline, late, saving, rows, frame, drafts, seen, written,
                     accepted, reported>>
  BY DEF BackOnline, Reconnect, server, screen
<1>3. Settles(u) /\ (u \in doubtful' => u \in doubtful \/ Held(u)) /\ doubtful \subseteq doubtful'
  BY <1>1, <1>2, StartSettles, StartTyped
<1>4. QED
  BY <1>1, <1>2, <1>3, TextRests DEF Rests

\* A reload leaves nothing but the offline queue.
LEMMA ReloadLives ==
  ASSUME SendingInv, SendingInv', LifeInv, Reload, NEW u \in Texts
  PROVE  GoesOn(u)
<1>1. Typed /\ LifeOK(u)
  BY DEF SendingInv, LifeInv
<1>2. /\ Cut(FALSE) /\ outgoing' = <<>> /\ active' = <<>> /\ flush' = [f \in Flushes |-> Idle]
      /\ doubtful' = IF Flushing = {} THEN doubtful ELSE doubtful \cup Stored
      /\ UNCHANGED <<offline, saving, rows, frame, drafts, seen, written, accepted, reported>>
  BY DEF Reload, server, screen, Stored
<1>3. Queued' = {} /\ Stored' = Stored /\ \A f \in Flushes : Copy(f)' = {}
  BY <1>2, NoneTold, SendingBounds DEF Queued, Stored, Copy
<1>4. Held(u)' => Held(u)
  <2>1. Held(u)' <=> u \in Queued' \/ u \in Stored' \/ \E f \in Flushes : u \in Copy(f)'
    BY DEF Held, Queued, Stored, Copy
  <2>2. QED
    BY <1>3, <2>1, HeldIs
<1>5. Concluded(u) /\ u \notin doubtful' => NotSentAgain(u)'
  BY <1>1, <1>2, <1>3 DEF LifeOK, ConcludedOK, NotSentAgain
<1>6. u \in doubtful' => u \in doubtful \/ Held(u)
  BY <1>2, HeldIs
<1>7. late'[u] > 0 => late[u] > 0 \/ (Held(u) /\ ~ Concluded(u))
  BY <1>2, CutIsHeld
<1>8. QED
  BY <1>1, <1>2, <1>4, <1>5, <1>6, <1>7, TextRests DEF Rests, Settles

\* What the server was storing is stored or dropped, and nobody is told.
LEMMA ServerStopsLives ==
  ASSUME SendingInv, SendingInv', LifeInv, ServerStops, NEW u \in Texts
  PROVE  GoesOn(u)
<1>1. Typed /\ LifeOK(u) /\ OnceOK(u)
  BY DEF SendingInv, QueuesOK, AllOnce, LifeInv
<1>2. /\ late' = [t \in Texts |-> 0] /\ saving' = [t \in Texts |-> 0]
      /\ calls' = [c \in Callers |-> IF calls[c].at = "sent"
                                     THEN [calls[c] EXCEPT !.at = "lost"] ELSE calls[c]]
      /\ UNCHANGED <<outgoing, active, offline, flush, frame, drafts, seen, written, accepted,
                     reported, doubtful>>
  BY DEF ServerStops, screen
<1>3. PICK stored \in [Texts -> 0 .. 1] : /\ \A t \in Texts : stored[t] <= saving[t]
                                          /\ rows' = [t \in Texts |-> rows[t] + stored[t]]
  BY DEF ServerStops
<1>4. /\ late'[u] = 0 /\ saving'[u] = 0 /\ rows'[u] = rows[u] + stored[u]
      /\ stored[u] \in {0, 1} /\ stored[u] <= saving[u]
      /\ late[u] \in Nat /\ saving[u] \in Nat /\ rows[u] \in Nat
  BY <1>1, <1>2, <1>3, SentIs
<1>5. Settles(u)
  BY <1>2, UnchangedSettles
<1>6. CASE saving[u] = 0
  <2>1. rows'[u] = rows[u] /\ saving'[u] = saving[u]
    BY <1>4, <1>6
  <2>2. QED
    BY <1>1, <1>2, <1>4, <1>5, <2>1, TextRests DEF Rests
<1>7. CASE saving[u] # 0
  <2>1. u \in accepted /\ u \in written
    BY <1>1, <1>4, <1>7 DEF LifeOK, OrderOK
  <2>2. LifeOK(u)'
    <3>1. OrderOK(u)'
      BY <1>1, <1>2, <2>1 DEF LifeOK, OrderOK
    <3>2. GivenUpOK(u)'
      BY <1>2, <2>1 DEF GivenUpOK
    <3>3. ConcludedOK(u)'
      BY <1>2, <1>4, <1>5 DEF ConcludedOK, Concluded, Settles
    <3>4. QED
      BY <3>1, <3>2, <3>3 DEF LifeOK
  <2>3. ViewOf(u)' = ViewOf(u)
    BY <1>2 DEF ViewOf
  <2>4. CASE u \in doubtful
    <3>1. LifeOf(u) = "doubtful" /\ LifeOf(u)' = "doubtful"
      BY <1>2, <2>1, <2>4 DEF LifeOf
    <3>2. QED
      BY <2>2, <2>3, <3>1 DEF GoesOn, May
  <2>5. CASE u \notin doubtful
    <3>1. saving[u] = 1 /\ rows[u] = 0
      BY <1>1, <1>4, <1>7, <2>5 DEF OnceOK, Sent
    <3>2. LifeOf(u) = "taken" /\ LifeOf(u)' \in {"stored", "dropped"}
      BY <1>2, <1>4, <2>1, <2>5, <3>1 DEF LifeOf
    <3>3. May(LifeOf(u), LifeOf(u)', ViewOf(u), ViewOf(u)')
      BY <2>3, <3>2 DEF May
    <3>4. QED
      BY <2>2, <3>3 DEF GoesOn
  <2>6. QED
    BY <2>4, <2>5
<1>8. QED
  BY <1>6, <1>7

LEMMA StutterLives ==
  ASSUME SendingInv, SendingInv', LifeInv, UNCHANGED sendingVars, NEW u \in Texts
  PROVE  GoesOn(u)
<1>1. UNCHANGED <<outgoing, active, offline, flush, calls, late, saving, rows, frame, drafts, seen,
                  written, accepted, reported, doubtful>>
  BY DEF sendingVars, outbox, server, screen, history
<1>2. Settles(u)
  BY <1>1, UnchangedSettles
<1>3. LifeOK(u)
  BY DEF LifeInv
<1>4. QED
  BY <1>1, <1>2, <1>3, TextRests DEF Rests

LEMMA TextsGoOn ==
  ASSUME SendingInv, SendingInv', LifeInv, [SendingNext]_sendingVars, NEW u \in Texts
  PROVE  GoesOn(u)
<1>1. ASSUME NEW t \in Texts, SendMessage(t) \/ HandleLate(t) \/ Persist(t) \/ PersistFails(t)
      PROVE  GoesOn(u)
  BY <1>1, SendMessageLives, HandleLateLives, PersistLives
<1>2. ASSUME NEW f \in Flushes, FlushEmit(f) \/ FlushKeep(f) PROVE GoesOn(u)
  BY <1>2, FlushEmitLives, FlushKeepLives
<1>3. ASSUME NEW c \in Callers,
             TimeOut(c) \/ HandleMessage(c) \/ RefuseMessage(c) \/ RejectMessage(c)
      PROVE  GoesOn(u)
  BY <1>3, TimeOutLives, HandleMessageLives, RefuseMessageLives, RejectMessageLives
<1>4. ASSUME EmitNext \/ RefuseNext \/ BackOnline \/ Reconnect \/ Disconnect \/ Reload \/ ServerStops
      PROVE  GoesOn(u)
  BY <1>4, EmitNextLives, RefuseNextLives, StartLives, DisconnectLives, ReloadLives,
     ServerStopsLives
<1>5. QED
  BY <1>1, <1>2, <1>3, <1>4, ReaderLives, StutterLives DEF SendingNext

\* The steps of TextLife, in its own words.
LEMMA MayLives ==
  ASSUME \A u \in Texts : May(LifeOf(u), LifeOf(u)', ViewOf(u), ViewOf(u)')
  PROVE  Promise!Next
<1> DEFINE life == [t \in Texts |-> LifeOf(t)]
           shown == [t \in Texts |-> ViewOf(t)]
<1>1. \A t \in Texts : LifeOf(t)' \in Promise!Lives /\ ViewOf(t)' \in Promise!Views
  BY DEF LifeOf, ViewOf, Promise!Lives, Promise!Views
<1>2. life' \in [Texts -> Promise!Lives] /\ shown' \in [Texts -> Promise!Views]
  BY <1>1
<1>3. ASSUME NEW t \in Texts PROVE Promise!LivesOn(t)
  <2>1. /\ life[t] = LifeOf(t) /\ life'[t] = LifeOf(t)'
        /\ shown[t] = ViewOf(t) /\ shown'[t] = ViewOf(t)'
    OBVIOUS
  <2> HIDE DEF life, shown
  <2>2. May(life[t], life'[t], shown[t], shown'[t])
    BY <2>1
  <2>3. QED
    BY <2>2 DEF May, life, shown, Promise!LivesOn, Promise!Goes, Promise!SameLife, Promise!SameView,
       Promise!DraftGoes, Promise!Write, Promise!Take, Promise!GiveUp, Promise!Escape,
       Promise!Lose, Promise!Store, Promise!Drop, Promise!ShowDraft, Promise!Doubt,
       Promise!Repeat
<1>4. QED
  BY <1>2, <1>3 DEF Promise!Next

\* The queues, flushes, packets, drafts and rows of every text make one simple life of it
\* (TextLife), for any number of texts and overlapping flushes: what was dropped or given up is
\* not stored later, what is stored or seen stays so, and no message is shown before it is
\* stored, but for the texts that were sent again in doubt (app.js, chat.gateway.ts).
THEOREM TextsLiveAsPromised == SendingSpec => ImplementsTextLife
<1>1. SendingInit => SendingInv /\ LifeInv /\ Promise!Init
  <2>1. ASSUME SendingInit PROVE SendingInv /\ LifeInv /\ Promise!Init
    <3>1. /\ late = [t \in Texts |-> 0] /\ saving = [t \in Texts |-> 0]
          /\ seen = [t \in Texts |-> 0]
          /\ frame = {} /\ drafts = {} /\ written = {} /\ accepted = {} /\ reported = {}
          /\ doubtful = {}
      BY <2>1 DEF SendingInit
    <3>2. \A u \in Texts : LifeOK(u)
      BY <3>1 DEF LifeOK, OrderOK, ConcludedOK, Concluded, GivenUpOK
    <3>3. \A u \in Texts : LifeOf(u) = "new" /\ ViewOf(u) = "nothing"
      BY <3>1 DEF LifeOf, ViewOf
    <3>4. QED
      BY <2>1, <3>2, <3>3, SendingStarts DEF LifeInv, Promise!Init
  <2>2. QED
    BY <2>1
<1>2. /\ SendingInv /\ LifeInv /\ [SendingNext]_sendingVars
        => SendingInv' /\ LifeInv' /\ Promise!Next
  <2>1. ASSUME SendingInv, LifeInv, [SendingNext]_sendingVars
        PROVE  SendingInv' /\ LifeInv' /\ Promise!Next
    <3>1. SendingInv'
      BY <2>1, SendingSteps
    <3>2. \A u \in Texts : GoesOn(u)
      BY <2>1, <3>1, TextsGoOn
    <3>3. LifeInv'
      BY <3>2 DEF GoesOn, LifeInv
    <3>4. Promise!Next
      BY <3>2, MayLives DEF GoesOn
    <3>5. QED
      BY <3>1, <3>3, <3>4
  <2>2. QED
    BY <2>1
<1>3. QED
  BY <1>1, <1>2, PTL DEF SendingSpec, ImplementsTextLife, Promise!Spec

-----------------------------------------------------------------------------
(* Attachments: the inductive invariant.  It is said of one file at a time: *)
(* its task t, the request that the queue awaits for it (`rest' if none) and *)
(* the answer, its session s, its answered messages m, the requests S about  *)
(* it that nobody waits for, and whether an answer about a message was lost  *)
(* (u).                                                                      *)

AtOf(r, f) == IF f \in r.of THEN r.at ELSE "rest"
AnswerOf(r, f) == IF f \in r.of THEN r.answer ELSE "none"
About(X, f) == {x \in X : x.of = f}

\* What the run of a file needs to know.
RunFits(t, at) ==
  /\ at # "rest" => t.status \in {"uploading", "finalizing", "cancelled", "completed"}
  /\ t.status = "completed" => at \in {"rest", "tidy"}
  /\ at = "create" => ~t.session
  /\ at \in {"sync", "prepare", "part", "confirm", "finalize", "resync"} => t.session
  /\ at \in {"prepare", "part", "confirm"} => t.parts < Parts
  /\ at = "direct" => t.direct

\* A late request was made when the task was as far as it needs.
StrayFits(t, x) ==
  /\ x.at = "finalize" => t.session
  /\ x.at \in {"part", "confirm"} => x.parts < Parts
  /\ x.at = "direct" => t.direct

HasDirect(S) == \E x \in S : x.at = "direct"

\* The file is sent as a whole once.
OneDirect(at, answer, S) ==
  /\ \A x, y \in S : x.at = "direct" /\ y.at = "direct" => x = y
  /\ at = "direct" /\ answer = "none" => ~HasDirect(S)

\* The server has dealt with the one request that sends the file as a whole.
DirectOver(t, at, answer, S) ==
  t.direct /\ ~(at = "direct" /\ answer = "none") /\ ~HasDirect(S)

Once(b) == IF b THEN 1 ELSE 0

\* A message comes of the session, or of sending the file as a whole.
Counted(t, at, answer, s, m, S) ==
  m <= Once(s.state = "completed") + Once(DirectOver(t, at, answer, S))

Told(at, answer) == at \in {"finalize", "direct"} /\ answer = "ok"

\* Unless an answer was lost, the browser knows of the message, and of one only.
Heard(t, at, answer, m, u) ==
  /\ t.status = "completed" \/ Told(at, answer) => m >= 1
  /\ m > 0 /\ ~u => m = 1 /\ (t.status = "completed" \/ Told(at, answer))

FileFits(t, at, answer, s, m, S, u) ==
  /\ RunFits(t, at)
  /\ \A x \in S : StrayFits(t, x)
  /\ OneDirect(at, answer, S)
  /\ s.state = "completed" => t.session
  /\ Counted(t, at, answer, s, m, S)
  /\ Heard(t, at, answer, m, u)

FileIsFine(f) ==
  FileFits(task[f], AtOf(run, f), AnswerOf(run, f), session[f], answered[f],
           About(strays, f), f \in unheard)

TaskRow == [status : Statuses, session : BOOLEAN, parts : 0 .. Parts,
            retries : 0 .. MaxRetries, direct : BOOLEAN]
RunRow == [of : SUBSET Files, at : Requests, parts : 0 .. Parts,
           answer : {"none", "ok", "refused", "broken"}]
SessionRow == [state : {"none", "open", "spent", "cancelled", "completed"}, parts : 0 .. Parts]
StrayRow == [of : Files, at : Lasting, parts : 0 .. Parts]

BrowserOK ==
  /\ list \in Seq(Files) /\ IsInjective(list)
  /\ task \in [Files -> TaskRow]
  /\ run \in RunRow /\ (run = NoRun \/ \E f \in Files : run.of = {f})
  /\ \A i \in DOMAIN list : task[list[i]].status # "absent"
  /\ presses \in 0 .. MaxPresses /\ faults \in 0 .. MaxFaults

ServerOK ==
  /\ transport \in {"server-relay", "presigned-put"}
  /\ session \in [Files -> SessionRow]
  /\ strays \subseteq StrayRow
  /\ answered \in [Files -> Nat] /\ misjudged \in [Files -> Nat]
  /\ unheard \subseteq Files

QueueInv == BrowserOK /\ ServerOK /\ \A f \in Files : FileIsFine(f)

-----------------------------------------------------------------------------
(* Attachments: what happens to one file.                                  *)

\* The run goes on to another request, or ends.
LEMMA MovesOn ==
  ASSUME NEW t, NEW at, NEW answer, NEW s, NEW m \in Nat, NEW S, NEW u \in BOOLEAN,
         FileFits(t, at, answer, s, m, S, u), ~(at = "direct" /\ answer = "none"),
         NEW r \in TaskRow, NEW next, next # "direct", RunFits(r, next),
         t.session => r.session, r.direct = t.direct, t.direct \in BOOLEAN,
         r.status = "completed" <=> t.status = "completed" \/ Told(at, answer)
  PROVE  FileFits(r, next, "none", s, m, S, u)
<1>1. \A x \in S : StrayFits(r, x)
  BY DEF FileFits, StrayFits
<1>2. OneDirect(next, "none", S)
  BY DEF FileFits, OneDirect
<1>3. s.state = "completed" => r.session
  BY DEF FileFits
<1>4. Counted(r, next, "none", s, m, S)
  BY DEF FileFits, Counted, DirectOver
<1>5. Heard(r, next, "none", m, u)
  BY DEF FileFits, Heard, Told
<1>6. QED
  BY <1>1, <1>2, <1>3, <1>4, <1>5 DEF FileFits

\* The file is sent as a whole.
LEMMA SendsWhole ==
  ASSUME NEW t \in TaskRow, NEW at, NEW answer, NEW s, NEW m \in Nat, NEW S, NEW u \in BOOLEAN,
         FileFits(t, at, answer, s, m, S, u), ~t.direct, t.status # "completed",
         u \/ ~Told(at, answer),
         NEW r \in TaskRow, r.status = "uploading", r.direct, r.session = t.session
  PROVE  FileFits(r, "direct", "none", s, m, S, u)
<1>1. ~HasDirect(S)
  BY DEF FileFits, StrayFits, HasDirect
<1>2. (\A x \in S : StrayFits(r, x)) /\ RunFits(r, "direct")
  BY DEF FileFits, StrayFits, RunFits
<1>3. OneDirect("direct", "none", S)
  BY <1>1 DEF OneDirect, HasDirect
<1>4. Counted(r, "direct", "none", s, m, S)
  BY DEF FileFits, Counted, DirectOver
<1>5. Heard(r, "direct", "none", m, u)
  BY DEF FileFits, Heard, Told
<1>6. QED
  BY <1>2, <1>3, <1>4, <1>5 DEF FileFits

\* The queue gives a request up, which the server may handle later.
LEMMA GivesUp ==
  ASSUME NEW t \in TaskRow, NEW at, NEW answer, NEW s, NEW m \in Nat, NEW S, NEW u \in BOOLEAN,
         FileFits(t, at, answer, s, m, S, u),
         NEW x, x.at = at, x.parts = t.parts, NEW Z, Z = S \cup {x} \/ Z = S,
         Z # S => answer = "none", at = "direct" /\ answer = "none" => Z = S \cup {x},
         NEW v \in BOOLEAN, v <=> u \/ Told(at, answer)
  PROVE  FileFits(t, at, "broken", s, m, Z, v)
<1>1. \A y \in Z : StrayFits(t, y)
  <2>1. StrayFits(t, x)
    BY DEF FileFits, StrayFits, RunFits
  <2>2. QED
    BY <2>1 DEF FileFits
<1>2. OneDirect(at, "broken", Z)
  <2>1. \A y, z \in S : y.at = "direct" /\ z.at = "direct" => y = z
    BY DEF FileFits, OneDirect
  <2>2. CASE Z = S
    BY <2>1, <2>2 DEF OneDirect
  <2>3. CASE Z # S /\ at = "direct"
    <3>1. \A y \in S : y.at # "direct"
      BY <2>3 DEF FileFits, OneDirect, HasDirect
    <3>2. QED
      BY <2>3, <3>1 DEF OneDirect
  <2>4. CASE Z # S /\ at # "direct"
    BY <2>1, <2>4 DEF OneDirect
  <2>5. QED
    BY <2>2, <2>3, <2>4
<1>3. Counted(t, at, "broken", s, m, Z)
  <2>1. DirectOver(t, at, answer, S) => DirectOver(t, at, "broken", Z)
    BY DEF DirectOver, HasDirect
  <2>2. m <= Once(s.state = "completed") + Once(DirectOver(t, at, answer, S))
    BY DEF FileFits, Counted
  <2>3. QED
    BY <2>1, <2>2 DEF Counted, Once
<1>4. Heard(t, at, "broken", m, v)
  BY DEF FileFits, Heard, Told
<1>5. QED
  BY <1>1, <1>2, <1>3, <1>4 DEF FileFits

\* What the server may make of a request.
Served(s, at, o) ==
  /\ o.session \in SessionRow /\ o.answer \in {"ok", "refused", "broken"}
  /\ o.answered \in {0, 1} /\ o.misjudged \in {0, 1}
  /\ o.answered = 1 => /\ o.answer = "ok"
                   /\ \/ at = "direct"
                      \/ at = "finalize" /\ s.state # "completed" /\ o.session.state = "completed"
  /\ o.session.state = "completed" => s.state = "completed" \/ at = "finalize"
  /\ s.state = "completed" /\ at # "create" => o.session.state = "completed"
  /\ Told(at, o.answer) => o.answered = 1

LEMMA ServerServes ==
  ASSUME NEW f, NEW at \in Requests \cup {"cancel"}, NEW parts \in 0 .. Parts,
         session[f] \in SessionRow, transport \in {"server-relay", "presigned-put"},
         at \in {"part", "confirm"} => parts < Parts,
         NEW o \in Serves(f, at, parts)
  PROVE  Served(session[f], at, o)
<1> DEFINE s == session[f]
<1>1. Parts \in Nat \ {0} /\ s.parts \in 0 .. Parts
  BY QueueAssumption DEF SessionRow
<1>2. CASE o = Does("broken", s, 0)
  BY <1>2 DEF Served, Does, Told
<1>3. CASE at = "create" /\ o \in CreateSession(s)
  BY <1>1, <1>3 DEF CreateSession, Ok, Refuses, Does, Served, Told, SessionRow
<1>4. CASE at \in {"sync", "resync"} /\ o \in GetSession(s)
  BY <1>1, <1>4 DEF GetSession, Ok, Does, Served, Told, SessionRow
<1>5. CASE at = "prepare" /\ o \in PrepareChunk(s)
  BY <1>1, <1>5 DEF PrepareChunk, Ok, Refuses, Does, Served, Told, SessionRow
<1>6. CASE at = "part" /\ o \in PutIntoR2(s, parts)
  BY <1>1, <1>6 DEF PutIntoR2, Ok, Refuses, Does, Served, Told, SessionRow
<1>7. CASE at \in {"part", "confirm"} /\ o \in StoreChunk(s, parts)
  <2>1. CASE s.state # "open" \/ s.parts < parts
    BY <1>7, <2>1 DEF StoreChunk, Refuses, Does, Served, Told
  <2>2. CASE s.state = "open" /\ s.parts > parts
    BY <1>1, <1>7, <2>2 DEF StoreChunk, Ok, Does, Served, Told
  <2>3. CASE s.state = "open" /\ s.parts = parts
    <3> DEFINE n == s.parts + 1
    <3>0. n \in 0 .. Parts
      BY <1>1, <1>7, <2>3
    <3> HIDE DEF n
    <3>1. PICK r \in SessionRow : r = [s EXCEPT !.parts = n]
      BY <3>0 DEF SessionRow
    <3>2. r.state = "open"
      BY <2>3, <3>1 DEF SessionRow
    <3>3. o = Ok(r)
      BY <1>1, <1>7, <2>3, <3>1 DEF StoreChunk, n
    <3>4. QED
      BY <1>7, <2>3, <3>2, <3>3 DEF Ok, Does, Served, Told
  <2>4. QED
    BY <1>1, <2>1, <2>2, <2>3
<1>8. CASE at = "finalize" /\ o \in FinalizeSession(s)
  BY <1>1, <1>8 DEF FinalizeSession, Refuses, Does, Served, Told, SessionRow
<1>9. CASE at = "direct" /\ o \in UploadWhole(s)
  BY <1>1, <1>9 DEF UploadWhole, Refuses, Does, Served, Told, SessionRow
<1>10. CASE at \in {"tidy", "cancel"} /\ o \in CancelSession(s)
  BY <1>1, <1>10 DEF CancelSession, Ok, Refuses, Does, Served, Told, SessionRow
<1>11. QED
  <2>1. CASE at = "part"
    BY <1>2, <1>6, <1>7, <2>1 DEF Serves
  <2>2. CASE at # "part"
    BY <1>2, <1>3, <1>4, <1>5, <1>7, <1>8, <1>9, <1>10, <2>2 DEF Serves, Requests
  <2>3. QED
    BY <2>1, <2>2

\* The server answers the queue.
LEMMA AnswerFits ==
  ASSUME NEW t \in TaskRow, NEW at, NEW s, NEW m \in Nat, NEW S, NEW u \in BOOLEAN,
         FileFits(t, at, "none", s, m, S, u), at # "rest", NEW o, Served(s, at, o)
  PROVE  FileFits(t, at, o.answer, o.session, m + o.answered, S, u)
<1>1. o.answer # "none" /\ o.answered \in {0, 1}
  BY DEF Served
<1>2. OneDirect(at, o.answer, S)
  BY <1>1 DEF FileFits, OneDirect
<1>3. o.session.state = "completed" => t.session
  BY DEF FileFits, Served, RunFits
<1>4. Counted(t, at, o.answer, o.session, m + o.answered, S)
  <2>1. m <= Once(s.state = "completed") + Once(DirectOver(t, at, "none", S))
    BY DEF FileFits, Counted
  <2>2. DirectOver(t, at, "none", S) => DirectOver(t, at, o.answer, S)
    BY <1>1 DEF DirectOver
  <2>3. s.state = "completed" => o.session.state = "completed"
    BY DEF FileFits, Served, RunFits
  <2>4. CASE o.answered = 0
    BY <2>1, <2>2, <2>3, <2>4 DEF Counted, Once
  <2>5. CASE o.answered = 1 /\ at = "direct"
    <3>1. ~DirectOver(t, at, "none", S) /\ DirectOver(t, at, o.answer, S)
      BY <1>1, <2>5 DEF FileFits, OneDirect, DirectOver, RunFits
    <3>2. QED
      BY <2>1, <2>3, <2>5, <3>1 DEF Counted, Once
  <2>6. CASE o.answered = 1 /\ at # "direct"
    <3>1. s.state # "completed" /\ o.session.state = "completed"
      BY <2>6 DEF Served
    <3>2. QED
      BY <2>1, <2>2, <2>6, <3>1 DEF Counted, Once
  <2>7. QED
    BY <1>1, <2>4, <2>5, <2>6
<1>5. Heard(t, at, o.answer, m + o.answered, u)
  BY <1>1 DEF FileFits, Heard, Told, Served, RunFits
<1>6. QED
  BY <1>2, <1>3, <1>4, <1>5 DEF FileFits

\* The server handles, or never gets, a request that nobody waits for.
LEMMA StrayFitsGone ==
  ASSUME NEW t \in TaskRow, NEW at, NEW answer, NEW s, NEW m \in Nat, NEW S, NEW u \in BOOLEAN,
         FileFits(t, at, answer, s, m, S, u), NEW x \in S
  PROVE  FileFits(t, at, answer, s, m, S \ {x}, u)
<1>1. OneDirect(at, answer, S \ {x})
  BY DEF FileFits, OneDirect, HasDirect
<1>2. DirectOver(t, at, answer, S) => DirectOver(t, at, answer, S \ {x})
  BY DEF DirectOver, HasDirect
<1>3. Counted(t, at, answer, s, m, S \ {x})
  BY <1>2 DEF FileFits, Counted, Once
<1>4. QED
  BY <1>1, <1>3 DEF FileFits

LEMMA StrayServed ==
  ASSUME NEW t \in TaskRow, NEW at, NEW answer, NEW s, NEW m \in Nat, NEW S, NEW u \in BOOLEAN,
         FileFits(t, at, answer, s, m, S, u), NEW x \in S,
         x.at \in {"part", "confirm", "finalize", "direct", "cancel"},
         NEW o, Served(s, x.at, o), NEW v \in BOOLEAN, v <=> u \/ o.answered > 0,
         NEW n, n = m + o.answered
  PROVE  FileFits(t, at, answer, o.session, n, S \ {x}, v)
<1>1. o.answered \in {0, 1}
  BY DEF Served
<1>2. OneDirect(at, answer, S \ {x})
  BY DEF FileFits, OneDirect, HasDirect
<1>3. o.session.state = "completed" => t.session
  BY DEF FileFits, Served, StrayFits
<1>4. Counted(t, at, answer, o.session, m + o.answered, S \ {x})
  <2>1. m <= Once(s.state = "completed") + Once(DirectOver(t, at, answer, S))
    BY DEF FileFits, Counted
  <2>2. DirectOver(t, at, answer, S) => DirectOver(t, at, answer, S \ {x})
    BY DEF DirectOver, HasDirect
  <2>3. s.state = "completed" => o.session.state = "completed"
    BY DEF Served
  <2>4. CASE o.answered = 0
    BY <2>1, <2>2, <2>3, <2>4 DEF Counted, Once
  <2>5. CASE o.answered = 1 /\ x.at = "direct"
    <3>1. ~DirectOver(t, at, answer, S)
      BY <2>5 DEF DirectOver, HasDirect
    <3>2. DirectOver(t, at, answer, S \ {x})
      BY <2>5 DEF FileFits, StrayFits, OneDirect, DirectOver, HasDirect
    <3>3. QED
      BY <2>1, <2>3, <2>5, <3>1, <3>2 DEF Counted, Once
  <2>6. CASE o.answered = 1 /\ x.at # "direct"
    <3>1. s.state # "completed" /\ o.session.state = "completed"
      BY <2>6 DEF Served
    <3>2. QED
      BY <2>1, <2>2, <2>6, <3>1 DEF Counted, Once
  <2>7. QED
    BY <1>1, <2>4, <2>5, <2>6
<1>5. Heard(t, at, answer, m + o.answered, v)
  BY <1>1 DEF FileFits, Heard
<1>6. QED
  BY <1>2, <1>3, <1>4, <1>5 DEF FileFits

\* The user stops a file; more requests may be on their way.
LEMMA StopFits ==
  ASSUME NEW t \in TaskRow, NEW at, NEW answer, NEW s, NEW m \in Nat, NEW S, NEW u \in BOOLEAN,
         FileFits(t, at, answer, s, m, S, u), t.status # "completed",
         NEW r \in TaskRow, r.status = "cancelled", r.session = t.session, r.direct = t.direct,
         r.parts = t.parts, NEW Z,
         \A x \in Z : x.at = "cancel" \/ (x.at = "part" /\ x.parts < Parts)
  PROVE  FileFits(r, at, answer, s, m, S \cup Z, u)
<1>1. HasDirect(S \cup Z) <=> HasDirect(S)
  BY DEF HasDirect
<1>2. OneDirect(at, answer, S \cup Z)
  BY <1>1 DEF FileFits, OneDirect
<1>3. \A x \in S \cup Z : StrayFits(r, x)
  BY DEF FileFits, StrayFits
<1>4. RunFits(r, at)
  BY DEF FileFits, RunFits
<1>5. Counted(r, at, answer, s, m, S \cup Z)
  BY <1>1 DEF FileFits, Counted, DirectOver
<1>6. Heard(r, at, answer, m, u)
  BY DEF FileFits, Heard
<1>7. s.state = "completed" => r.session
  BY DEF FileFits
<1>8. QED
  BY <1>2, <1>3, <1>4, <1>5, <1>6, <1>7 DEF FileFits

\* Between runs nothing but the status counts.
LEMMA RestFits ==
  ASSUME NEW t \in TaskRow, NEW s, NEW m \in Nat, NEW S, NEW u \in BOOLEAN,
         FileFits(t, "rest", "none", s, m, S, u), t.status # "completed",
         NEW r \in TaskRow, r.session = t.session, r.direct = t.direct, r.status # "completed"
  PROVE  FileFits(r, "rest", "none", s, m, S, u)
<1>1. RunFits(r, "rest")
  BY DEF RunFits
<1>2. QED
  BY <1>1, MovesOn DEF Told, TaskRow

\* A queued file is taken up.
LEMMA TakenFits ==
  ASSUME NEW t \in TaskRow, NEW s, NEW m \in Nat, NEW S, NEW u \in BOOLEAN,
         FileFits(t, "rest", "none", s, m, S, u), t.status = "queued",
         NEW r \in TaskRow, r.session = t.session, r.direct = t.direct, r.status = "uploading"
  PROVE  FileFits(r, IF t.session THEN "sync" ELSE "create", "none", s, m, S, u)
<1>1. RunFits(r, IF t.session THEN "sync" ELSE "create")
  BY DEF RunFits, TaskRow
<1>2. QED
  BY <1>1, MovesOn DEF Told, TaskRow

-----------------------------------------------------------------------------
(* Attachments: rows, and the list.                                        *)

LEMMA WithMakes ==
  ASSUME NEW t \in [Files -> TaskRow], NEW f \in Files, NEW x \in Statuses
  PROVE  /\ With(t, f, x) \in [Files -> TaskRow]
         /\ \A g \in Files \ {f} : With(t, f, x)[g] = t[g]
         /\ With(t, f, x)[f].status = x /\ With(t, f, x)[f].session = t[f].session
         /\ With(t, f, x)[f].parts = t[f].parts /\ With(t, f, x)[f].direct = t[f].direct
<1>1. PICK r \in TaskRow : r = [t[f] EXCEPT !.status = x]
  BY DEF TaskRow
<1>2. r.status = x /\ r.session = t[f].session /\ r.parts = t[f].parts /\ r.direct = t[f].direct
  BY <1>1 DEF TaskRow
<1>3. With(t, f, x) = [t EXCEPT ![f] = r]
  BY <1>1 DEF With
<1>4. QED
  BY <1>2, <1>3

LEMMA RetryMakes ==
  ASSUME NEW t \in [Files -> TaskRow], NEW f \in Files
  PROVE  LET z == ScheduleRetry(t, f)
         IN /\ z \in [Files -> TaskRow] /\ \A g \in Files \ {f} : z[g] = t[g]
            /\ z[f].status \in {"failed", "retrying"}
            /\ z[f].session = t[f].session /\ z[f].direct = t[f].direct
<1>1. CASE t[f].retries >= MaxRetries
  <2>1. "failed" \in Statuses /\ ScheduleRetry(t, f) = With(t, f, "failed")
    BY <1>1 DEF Statuses, ScheduleRetry
  <2>2. QED
    BY <2>1, WithMakes
<1>2. CASE ~(t[f].retries >= MaxRetries)
  <2> DEFINE n == t[f].retries + 1
  <2>1. n \in 0 .. MaxRetries /\ "retrying" \in Statuses
    BY <1>2, QueueAssumption DEF TaskRow, Statuses
  <2>2. ScheduleRetry(t, f) = [t EXCEPT ![f] = [@ EXCEPT !.retries = n, !.status = "retrying"]]
    BY <1>2 DEF ScheduleRetry
  <2> HIDE DEF n
  <2>3. PICK r \in TaskRow : r = [t[f] EXCEPT !.retries = n, !.status = "retrying"]
    BY <2>1 DEF TaskRow
  <2>4. r.status = "retrying" /\ r.session = t[f].session /\ r.direct = t[f].direct
    BY <2>3 DEF TaskRow
  <2>5. ScheduleRetry(t, f) = [t EXCEPT ![f] = r]
    BY <2>2, <2>3
  <2>6. QED
    BY <2>4, <2>5
<1>3. QED
  BY <1>1, <1>2

LEMMA KnownMakes ==
  ASSUME BrowserOK, NEW f \in Files
  PROVE  /\ Known(f) \in [Files -> TaskRow] /\ \A g \in Files \ {f} : Known(f)[g] = task[g]
         /\ Known(f)[f].status = task[f].status /\ Known(f)[f].session = task[f].session
         /\ Known(f)[f].direct = task[f].direct
<1>1. PICK n \in 0 .. Parts : n = run.parts
  BY DEF BrowserOK, RunRow
<1>2. PICK r \in TaskRow : r = [task[f] EXCEPT !.parts = n]
  BY DEF BrowserOK, TaskRow
<1>3. r.status = task[f].status /\ r.session = task[f].session /\ r.direct = task[f].direct
  BY <1>2 DEF BrowserOK, TaskRow
<1>4. Known(f) = [task EXCEPT ![f] = r]
  BY <1>1, <1>2 DEF Known
<1>5. QED
  BY <1>3, <1>4 DEF BrowserOK

LEMMA WithoutKeeps ==
  ASSUME list \in Seq(Files), IsInjective(list), NEW f \in Files
  PROVE  /\ Without(f) \in Seq(Files) /\ IsInjective(Without(f))
         /\ \A i \in DOMAIN Without(f) : \E j \in DOMAIN list : Without(f)[i] = list[j]
<1>1. CASE f \notin Range(list)
  BY <1>1 DEF Without
<1>2. CASE f \in Range(list)
  <2>1. PICK k \in 1 .. Len(list) : k = CHOOSE i \in DOMAIN list : list[i] = f
    <3>1. \E i \in DOMAIN list : list[i] = f
      BY <1>2 DEF Range
    <3>2. QED
      BY <3>1
  <2>2. Without(f) = SubSeq(list, 1, k - 1) \o SubSeq(list, k + 1, Len(list))
    BY <1>2, <2>1 DEF Without, RemoveAt
  <2> DEFINE A == SubSeq(list, 1, k - 1)
             B == SubSeq(list, k + 1, Len(list))
             n == Len(list)
  <2>3. n \in Nat /\ k \in 1 .. n /\ \A i \in 1 .. n : list[i] \in Files
    OBVIOUS
  <2>4. A \in Seq(Files) /\ Len(A) = k - 1 /\ \A i \in 1 .. k - 1 : A[i] = list[i]
    BY <2>3
  <2>5. B \in Seq(Files) /\ Len(B) = n - k /\ \A i \in 1 .. n - k : B[i] = list[k + i]
    BY <2>3
  <2> HIDE DEF A, B
  <2>6. A \o B \in Seq(Files) /\ Len(A \o B) = n - 1
    <3>1. Len(A \o B) = Len(A) + Len(B)
      BY <2>4, <2>5, ConcatProperties
    <3>2. QED
      BY <2>3, <2>4, <2>5, <3>1
  <2>7. \A i \in 1 .. n - 1 : (A \o B)[i] = list[IF i < k THEN i ELSE i + 1]
    <3>1. SUFFICES ASSUME NEW i \in 1 .. n - 1
                   PROVE  (A \o B)[i] = list[IF i < k THEN i ELSE i + 1]
      OBVIOUS
    <3>2. CASE i < k
      <4>1. i \in 1 .. Len(A)
        BY <2>3, <2>4, <3>2
      <4>2. (A \o B)[i] = A[i]
        BY <2>4, <2>5, <4>1
      <4>3. QED
        BY <2>4, <3>2, <4>1, <4>2
    <3>3. CASE ~(i < k)
      <4>1. i - Len(A) \in 1 .. Len(B) /\ i \in 1 .. Len(A) + Len(B) /\ ~(i <= Len(A))
        BY <2>3, <2>4, <2>5, <3>3
      <4>2. (A \o B)[i] = B[i - Len(A)]
        BY <2>4, <2>5, <4>1
      <4>3. k + (i - Len(A)) = i + 1 /\ i - Len(A) \in 1 .. n - k
        BY <2>3, <2>4, <2>5, <4>1
      <4>4. QED
        BY <2>5, <3>3, <4>2, <4>3
    <3>4. QED
      BY <3>2, <3>3
  <2>8. \A i, j \in 1 .. n - 1 : (A \o B)[i] = (A \o B)[j] => i = j
    <3>1. SUFFICES ASSUME NEW i \in 1 .. n - 1, NEW j \in 1 .. n - 1, (A \o B)[i] = (A \o B)[j]
                   PROVE  i = j
      OBVIOUS
    <3> DEFINE x == IF i < k THEN i ELSE i + 1
               y == IF j < k THEN j ELSE j + 1
    <3>2. x \in 1 .. n /\ y \in 1 .. n
      BY <2>3
    <3>3. list[x] = list[y]
      BY <2>7, <3>1
    <3>4. x = y
      BY <3>2, <3>3 DEF IsInjective
    <3>5. QED
      BY <2>3, <3>4
  <2>9. \A i \in 1 .. n - 1 : \E j \in 1 .. n : (A \o B)[i] = list[j]
    <3>1. SUFFICES ASSUME NEW i \in 1 .. n - 1 PROVE \E j \in 1 .. n : (A \o B)[i] = list[j]
      OBVIOUS
    <3>2. (IF i < k THEN i ELSE i + 1) \in 1 .. n
      BY <2>3
    <3>3. QED
      BY <2>7, <3>2
  <2>10. Without(f) = A \o B
    BY <2>2 DEF A, B
  <2> DEFINE C == A \o B
  <2>11. C \in Seq(Files) /\ DOMAIN C = 1 .. n - 1
    BY <2>6
  <2>12. IsInjective(C)
    BY <2>8, <2>11 DEF IsInjective
  <2>13. \A i \in DOMAIN C : \E j \in DOMAIN list : C[i] = list[j]
    <3>1. DOMAIN list = 1 .. n
      BY <2>3
    <3>2. QED
      BY <2>9, <2>11, <3>1
  <2>14. QED
    BY <2>10, <2>11, <2>12, <2>13
<1>3. QED
  BY <1>1, <1>2

-----------------------------------------------------------------------------
(* Attachments: a step of the queue.                                       *)

\* The server rests, and of the requests nobody waits for only those about f change.
Elsewhere(f) ==
  /\ session' = session /\ answered' = answered /\ transport' = transport
  /\ \A g \in Files \ {f} : /\ About(strays', g) = About(strays, g)
                           /\ (g \in unheard') = (g \in unheard)

Counters == presses' \in 0 .. MaxPresses /\ faults' \in 0 .. MaxFaults

LEMMA OthersFit ==
  ASSUME QueueInv, NEW f \in Files, run.of = {f}, Elsewhere(f)
  PROVE  \A g \in Files \ {f} :
           FileFits(task[g], "rest", "none", session'[g], answered'[g],
                    About(strays', g), g \in unheard')
<1>1. SUFFICES ASSUME NEW g \in Files \ {f}
               PROVE  FileFits(task[g], "rest", "none", session'[g], answered'[g],
                               About(strays', g), g \in unheard')
  OBVIOUS
<1>2. FileIsFine(g) /\ g \notin run.of
  BY DEF QueueInv
<1>3. FileFits(task[g], "rest", "none", session[g], answered[g], About(strays, g), g \in unheard)
  BY <1>2 DEF FileIsFine, AtOf, AnswerOf
<1>4. QED
  BY <1>3 DEF Elsewhere

\* The queue awaits another request about the file.
LEMMA RunContinues ==
  ASSUME QueueInv, NEW f \in Files, run.of = {f}, Elsewhere(f), Counters, list' = list,
         task' \in [Files -> TaskRow], \A g \in Files \ {f} : task'[g] = task[g],
         NEW next \in Requests, run' = Awaits(f, next),
         FileFits(task'[f], next, "none", session[f], answered[f], About(strays', f),
                  f \in unheard')
  PROVE  BrowserOK' /\ \A g \in Files : FileIsFine(g)'
<1>1. run' \in RunRow /\ run'.of = {f} /\ run'.at = next /\ run'.answer = "none"
  BY QueueAssumption DEF Awaits, RunRow
<1>2. task'[f].status # "absent"
  BY DEF FileFits, RunFits, Requests
<1>3. BrowserOK'
  BY <1>1, <1>2 DEF QueueInv, BrowserOK, Counters
<1>4. ASSUME NEW g \in Files PROVE FileIsFine(g)'
  <2>1. CASE g = f
    BY <1>1, <2>1 DEF FileIsFine, AtOf, AnswerOf, Elsewhere
  <2>2. CASE g # f
    <3>1. FileFits(task[g], "rest", "none", session'[g], answered'[g], About(strays', g),
                   g \in unheard')
      BY <2>2, OthersFit
    <3>2. QED
      BY <1>1, <2>2, <3>1 DEF FileIsFine, AtOf, AnswerOf
  <2>3. QED
    BY <2>1, <2>2
<1>5. QED
  BY <1>3, <1>4

\* The queue is free, and takes up a file if one is queued.
LEMMA TakeFits ==
  ASSUME NEW l \in Seq(Files), IsInjective(l), NEW t \in [Files -> TaskRow],
         \A i \in DOMAIN l : t[l[i]].status # "absent",
         Counters, answered' \in [Files -> Nat],
         \A g \in Files : FileFits(t[g], "rest", "none", session'[g], answered'[g],
                                  About(strays', g), g \in unheard'),
         TakeFirst(l, t)
  PROVE  BrowserOK' /\ \A g \in Files : FileIsFine(g)'
<1>1. list' = l
  BY DEF TakeFirst
<1>2. CASE task' = t /\ run' = NoRun
  <2>1. run' \in RunRow /\ run'.of = {}
    BY <1>2, QueueAssumption DEF NoRun, RunRow, Requests
  <2>2. BrowserOK'
    BY <1>1, <1>2, <2>1 DEF BrowserOK, Counters, NoRun
  <2>3. \A g \in Files : FileIsFine(g)'
    BY <1>2, <2>1 DEF FileIsFine, AtOf, AnswerOf
  <2>4. QED
    BY <2>2, <2>3
<1>3. ASSUME NEW i \in DOMAIN l, t[l[i]].status = "queued",
             task' = With(t, l[i], "uploading"),
             run' = Awaits(l[i], IF t[l[i]].session THEN "sync" ELSE "create")
      PROVE  BrowserOK' /\ \A g \in Files : FileIsFine(g)'
  <2>1. PICK f \in Files : f = l[i]
    OBVIOUS
  <2>2. PICK at \in {"sync", "create"} : at = IF t[f].session THEN "sync" ELSE "create"
    OBVIOUS
  <2>3. run' \in RunRow /\ run'.of = {f} /\ run'.at = at /\ run'.answer = "none"
    BY <1>3, <2>1, <2>2, QueueAssumption DEF Awaits, RunRow, Requests
  <2>4. "uploading" \in Statuses
    BY DEF Statuses
  <2>5. /\ task' \in [Files -> TaskRow] /\ \A g \in Files \ {f} : task'[g] = t[g]
        /\ task'[f].status = "uploading" /\ task'[f].session = t[f].session
        /\ task'[f].direct = t[f].direct
    BY <1>3, <2>1, <2>4, WithMakes
  <2>6. BrowserOK'
    <3>1. \A j \in DOMAIN l : task'[l[j]].status # "absent"
      <4>1. TAKE j \in DOMAIN l
      <4>2. l[j] \in Files
        OBVIOUS
      <4>3. QED
        BY <2>5, <4>2
    <3>2. QED
      BY <1>1, <2>3, <2>5, <3>1 DEF BrowserOK, Counters
  <2>7. FileFits(task'[f], at, "none", session'[f], answered'[f], About(strays', f),
                 f \in unheard')
    <3>1. t[f] \in TaskRow /\ task'[f] \in TaskRow /\ answered'[f] \in Nat
          /\ (f \in unheard') \in BOOLEAN /\ t[f].status = "queued"
      BY <1>3, <2>1, <2>5
    <3> DEFINE u == f \in unheard'
    <3>2. u \in BOOLEAN
      OBVIOUS
    <3>3. FileFits(t[f], "rest", "none", session'[f], answered'[f], About(strays', f), u)
      OBVIOUS
    <3> HIDE DEF u
    <3>4. FileFits(task'[f], IF t[f].session THEN "sync" ELSE "create", "none", session'[f],
                   answered'[f], About(strays', f), u)
      BY <2>5, <3>1, <3>2, <3>3, TakenFits
    <3>5. QED
      BY <2>2, <3>4 DEF u
  <2>8. ASSUME NEW g \in Files PROVE FileIsFine(g)'
    <3>1. CASE g = f
      BY <2>3, <2>7, <3>1 DEF FileIsFine, AtOf, AnswerOf
    <3>2. CASE g # f
      BY <2>3, <2>5, <3>2 DEF FileIsFine, AtOf, AnswerOf
    <3>3. QED
      BY <3>1, <3>2
  <2>9. QED
    BY <2>6, <2>8
<1>4. QED
  BY <1>2, <1>3 DEF TakeFirst

\* The run of a file ends.
LEMMA RunEnds ==
  ASSUME QueueInv, NEW f \in Files, run.of = {f}, Elsewhere(f), Counters,
         NEW t \in [Files -> TaskRow], \A g \in Files \ {f} : t[g] = task[g],
         t[f].status # "absent", NEW l, l = list \/ l = Without(f), Finish(l, t),
         FileFits(t[f], "rest", "none", session[f], answered[f], About(strays', f),
                  f \in unheard')
  PROVE  BrowserOK' /\ \A g \in Files : FileIsFine(g)'
<1>1. list \in Seq(Files) /\ IsInjective(list) /\ answered' \in [Files -> Nat]
      /\ \A i \in DOMAIN list : task[list[i]].status # "absent"
  BY DEF QueueInv, BrowserOK, ServerOK, Elsewhere
<1>2. l \in Seq(Files) /\ IsInjective(l)
      /\ \A i \in DOMAIN l : \E j \in DOMAIN list : l[i] = list[j]
  BY <1>1, WithoutKeeps
<1>3. \A i \in DOMAIN l : t[l[i]].status # "absent"
  <2>1. TAKE i \in DOMAIN l
  <2>2. PICK j \in DOMAIN list : l[i] = list[j]
    BY <1>2
  <2>3. QED
    BY <1>1, <2>2
<1>4. \A g \in Files : FileFits(t[g], "rest", "none", session'[g], answered'[g],
                               About(strays', g), g \in unheard')
  <2>1. TAKE g \in Files
  <2>2. CASE g = f
    BY <2>2 DEF Elsewhere
  <2>3. CASE g # f
    BY <2>3, OthersFit
  <2>4. QED
    BY <2>2, <2>3
<1>5. QED
  BY <1>1, <1>2, <1>3, <1>4, TakeFits DEF Finish

\* A request of the run has failed: what CatchError does of it.
LEMMA CatchFits ==
  ASSUME QueueInv, NEW f \in Files, run.of = {f}, Elsewhere(f), Counters,
         NEW answer \in {"refused", "broken"}, NEW fault, CatchError(f, fault),
         FileFits(task[f], run.at, answer, session[f], answered[f], About(strays', f),
                  f \in unheard')
  PROVE  BrowserOK' /\ \A g \in Files : FileIsFine(g)'
<1> DEFINE u == f \in unheard'
           S == About(strays', f)
<1>1. /\ task \in [Files -> TaskRow] /\ task[f] \in TaskRow /\ run.at \in Requests
      /\ answered[f] \in Nat /\ u \in BOOLEAN
      /\ task[f].session \in BOOLEAN /\ task[f].direct \in BOOLEAN
  BY DEF QueueInv, BrowserOK, ServerOK, RunRow, TaskRow
<1>2. /\ task[f].status \in {"uploading", "finalizing", "cancelled", "completed"}
      /\ task[f].status = "completed" => run.at = "tidy"
  BY <1>1 DEF FileFits, RunFits, Requests
<1>3. ~Told(run.at, answer) /\ ~(run.at = "direct" /\ answer = "none")
  BY DEF Told
<1> HIDE DEF u, S
<1>4. FileFits(task[f], run.at, answer, session[f], answered[f], S, u)
  BY DEF u, S
\* Every outcome but another attempt leaves the status as completed as it was.
<1>5. ASSUME NEW r \in TaskRow, r.session = task[f].session, r.direct = task[f].direct,
             NEW next, next \in {"rest", "resync"}, RunFits(r, next),
             r.status = "completed" <=> task[f].status = "completed"
      PROVE  FileFits(r, next, "none", session[f], answered[f], S, u)
  BY <1>1, <1>3, <1>4, <1>5, MovesOn
<1>6. ASSUME Finish(list, ScheduleRetry(task, f)), run.at # "tidy"
      PROVE  BrowserOK' /\ \A g \in Files : FileIsFine(g)'
  <2>1. PICK z \in [Files -> TaskRow] :
          /\ z = ScheduleRetry(task, f) /\ \A g \in Files \ {f} : z[g] = task[g]
          /\ z[f].status \in {"failed", "retrying"}
          /\ z[f].session = task[f].session /\ z[f].direct = task[f].direct
    BY <1>1, RetryMakes
  <2>2. RunFits(z[f], "rest")
    BY <2>1 DEF RunFits
  <2>3. FileFits(z[f], "rest", "none", session[f], answered[f], S, u)
    BY <1>2, <1>5, <1>6, <2>1, <2>2
  <2>4. QED
    BY <1>6, <2>1, <2>3, RunEnds DEF u, S
<1>7. ASSUME Settle(f, fault), run.at # "tidy"
      PROVE  BrowserOK' /\ \A g \in Files : FileIsFine(g)'
  <2>1. CASE fault # "network"
    <3>1. Finish(list, With(task, f, "failed")) /\ "failed" \in Statuses
      BY <1>7, <2>1 DEF Settle, Statuses
    <3>2. PICK z \in [Files -> TaskRow] :
            /\ z = With(task, f, "failed") /\ \A g \in Files \ {f} : z[g] = task[g]
            /\ z[f].status = "failed"
            /\ z[f].session = task[f].session /\ z[f].direct = task[f].direct
      BY <1>1, <3>1, WithMakes
    <3>3. RunFits(z[f], "rest")
      BY <3>2 DEF RunFits
    <3>4. FileFits(z[f], "rest", "none", session[f], answered[f], S, u)
      BY <1>2, <1>5, <1>7, <3>2, <3>3
    <3>5. QED
      BY <3>1, <3>2, <3>4, RunEnds DEF u, S
  <2>2. CASE fault = "network" /\ task[f].session
    <3>1. UNCHANGED <<list, task>> /\ run' = Awaits(f, "resync")
      BY <1>7, <2>2 DEF Settle
    <3>2. RunFits(task[f], "resync") /\ "resync" \in Requests
      BY <1>2, <1>7, <2>2 DEF RunFits, Requests
    <3>3. FileFits(task[f], "resync", "none", session[f], answered[f], S, u)
      BY <1>1, <1>5, <3>2
    <3>4. QED
      BY <1>1, <3>1, <3>2, <3>3, RunContinues DEF u, S
  <2>3. CASE fault = "network" /\ ~task[f].session
    BY <1>6, <1>7, <2>3 DEF Settle
  <2>4. QED
    BY <2>1, <2>2, <2>3
<1>8. CASE run.at = "tidy"
  <2>1. Finish(Without(f), task)
    BY <1>8 DEF CatchError
  <2>2. RunFits(task[f], "rest")
    BY DEF RunFits
  <2>3. FileFits(task[f], "rest", "none", session[f], answered[f], S, u)
    BY <1>1, <1>5, <2>2
  <2>4. task[f].status # "absent"
    BY <1>2
  <2>5. QED
    BY <1>1, <2>1, <2>3, <2>4, RunEnds DEF u, S
<1>9. CASE run.at = "resync"
  BY <1>6, <1>9 DEF CatchError
<1>10. CASE run.at = "direct"
  BY <1>7, <1>10 DEF CatchError
<1>11. CASE run.at \notin {"tidy", "resync", "direct"}
  <2>1. \/ FallsBack(f, fault) /\ SendWhole(f)
        \/ Settle(f, fault)
        \/ Finish(list, With(task, f, "cancelled"))
    BY <1>11 DEF CatchError
  <2>2. ASSUME FallsBack(f, fault), SendWhole(f)
        PROVE  BrowserOK' /\ \A g \in Files : FileIsFine(g)'
    <3>1. PICK r \in TaskRow : r = [task[f] EXCEPT !.direct = TRUE, !.status = "uploading"]
      BY <1>1 DEF TaskRow, Statuses
    <3>2. r.direct /\ r.status = "uploading" /\ r.session = task[f].session
      BY <1>1, <3>1 DEF TaskRow
    <3>3. task' = [task EXCEPT ![f] = r] /\ list' = list /\ run' = Awaits(f, "direct")
      BY <2>2, <3>1 DEF SendWhole
    <3>4. task' \in [Files -> TaskRow] /\ task'[f] = r
          /\ \A g \in Files \ {f} : task'[g] = task[g]
      BY <1>1, <3>3
    <3>5. ~task[f].direct /\ task[f].status # "completed"
      BY <1>2, <1>11, <2>2 DEF FallsBack
    <3>6. FileFits(r, "direct", "none", session[f], answered[f], S, u)
      BY <1>1, <1>3, <1>4, <3>2, <3>5, SendsWhole
    <3>7. "direct" \in Requests
      BY DEF Requests
    <3>8. QED
      BY <3>3, <3>4, <3>6, <3>7, RunContinues DEF u, S
  <2>3. ASSUME Finish(list, With(task, f, "cancelled"))
        PROVE  BrowserOK' /\ \A g \in Files : FileIsFine(g)'
    <3>1. "cancelled" \in Statuses
      BY DEF Statuses
    <3>2. PICK z \in [Files -> TaskRow] :
            /\ z = With(task, f, "cancelled") /\ \A g \in Files \ {f} : z[g] = task[g]
            /\ z[f].status = "cancelled"
            /\ z[f].session = task[f].session /\ z[f].direct = task[f].direct
      BY <1>1, <3>1, WithMakes
    <3>3. RunFits(z[f], "rest")
      BY <3>2 DEF RunFits
    <3>4. FileFits(z[f], "rest", "none", session[f], answered[f], S, u)
      BY <1>2, <1>5, <1>11, <3>2, <3>3
    <3>5. QED
      BY <2>3, <3>2, <3>4, RunEnds DEF u, S
  <2>4. QED
    BY <1>7, <1>11, <2>1, <2>2, <2>3
<1>12. QED
  BY <1>8, <1>9, <1>10, <1>11

-----------------------------------------------------------------------------
(* Attachments: the actions.                                               *)

LEMMA RunIsOf ==
  ASSUME QueueInv, NEW f \in run.of
  PROVE  /\ f \in Files /\ run.of = {f} /\ run.at \in Requests
         /\ run.answer \in {"none", "ok", "refused", "broken"}
         /\ task \in [Files -> TaskRow] /\ task[f] \in TaskRow
         /\ answered[f] \in Nat /\ session[f] \in SessionRow
         /\ FileFits(task[f], run.at, run.answer, session[f], answered[f], About(strays, f),
                     f \in unheard)
<1>1. f \in Files /\ run.of = {f}
  BY DEF QueueInv, BrowserOK, RunRow, NoRun
<1>2. FileIsFine(f)
  BY <1>1 DEF QueueInv
<1>3. FileFits(task[f], run.at, run.answer, session[f], answered[f], About(strays, f),
               f \in unheard)
  BY <1>2 DEF FileIsFine, AtOf, AnswerOf
<1>4. QED
  BY <1>1, <1>3 DEF QueueInv, BrowserOK, ServerOK, RunRow

LEMMA SameServer ==
  ASSUME QueueInv, UNCHANGED <<transport, session, strays, answered, misjudged, unheard>>
  PROVE  ServerOK' /\ \A f \in Files : Elsewhere(f)
  BY DEF QueueInv, ServerOK, Elsewhere, StrayRow, Lasting

LEMMA SameCounters == ASSUME QueueInv, UNCHANGED <<presses, faults>> PROVE Counters
  BY DEF QueueInv, BrowserOK, Counters

LEMMA ServeKeeps == ASSUME QueueInv, Serve PROVE QueueInv'
<1>0. PICK f \in run.of : \E o \in Serves(f, run.at, task[f].parts) :
        /\ run.answer = "none"
        /\ session' = [session EXCEPT ![f] = o.session]
        /\ Stores(f, o)
        /\ run' = [run EXCEPT !.answer = o.answer, !.parts = o.session.parts]
        /\ faults' = IF o.answer = "broken" THEN faults + 1 ELSE faults
        /\ faults' <= MaxFaults
        /\ UNCHANGED <<transport, list, task, strays, unheard, presses>>
  BY DEF Serve
<1>1. PICK o \in Serves(f, run.at, task[f].parts) :
        /\ run.answer = "none"
        /\ session' = [session EXCEPT ![f] = o.session]
        /\ Stores(f, o)
        /\ run' = [run EXCEPT !.answer = o.answer, !.parts = o.session.parts]
        /\ faults' = IF o.answer = "broken" THEN faults + 1 ELSE faults
        /\ faults' <= MaxFaults
        /\ UNCHANGED <<transport, list, task, strays, unheard, presses>>
  BY <1>0
<1>2. /\ f \in Files /\ run.of = {f} /\ run.at \in Requests /\ task[f] \in TaskRow
      /\ answered[f] \in Nat /\ session[f] \in SessionRow
      /\ FileFits(task[f], run.at, run.answer, session[f], answered[f], About(strays, f),
                  f \in unheard)
  BY RunIsOf
<1>3. Served(session[f], run.at, o)
  <2>1. run.at \in {"part", "confirm"} => task[f].parts < Parts
    BY <1>2 DEF FileFits, RunFits
  <2>2. task[f].parts \in 0 .. Parts /\ transport \in {"server-relay", "presigned-put"}
    BY <1>2 DEF TaskRow, QueueInv, ServerOK
  <2>3. QED
    BY <1>2, <2>1, <2>2, ServerServes
<1>4. o.session \in SessionRow /\ o.answer \in {"ok", "refused", "broken"}
      /\ o.answered \in {0, 1} /\ o.misjudged \in {0, 1}
      /\ o.session.parts \in 0 .. Parts
  BY <1>3 DEF Served, SessionRow
<1>5. FileFits(task[f], run.at, o.answer, o.session, answered[f] + o.answered, About(strays, f),
               f \in unheard)
  <2> DEFINE u == f \in unheard
  <2>1. u \in BOOLEAN /\ run.at # "rest"
    BY <1>2 DEF Requests
  <2>2. FileFits(task[f], run.at, "none", session[f], answered[f], About(strays, f), u)
    BY <1>1, <1>2
  <2> HIDE DEF u
  <2>3. FileFits(task[f], run.at, o.answer, o.session, answered[f] + o.answered,
                 About(strays, f), u)
    BY <1>2, <1>3, <2>1, <2>2, AnswerFits
  <2>4. QED
    BY <2>3 DEF u
<1>6. /\ session' \in [Files -> SessionRow]
      /\ answered' \in [Files -> Nat] /\ misjudged' \in [Files -> Nat]
      /\ session'[f] = o.session /\ answered'[f] = answered[f] + o.answered
      /\ \A g \in Files \ {f} : session'[g] = session[g] /\ answered'[g] = answered[g]
  BY <1>1, <1>2, <1>4 DEF Stores, QueueInv, ServerOK
<1>7. /\ run' \in RunRow /\ run'.of = {f} /\ run'.at = run.at /\ run'.answer = o.answer
  <2> DEFINE a == o.answer
             n == o.session.parts
  <2>1. a \in {"ok", "refused", "broken"} /\ n \in 0 .. Parts /\ run \in RunRow
        /\ run' = [run EXCEPT !.answer = a, !.parts = n]
    BY <1>1, <1>4 DEF QueueInv, BrowserOK
  <2> HIDE DEF a, n
  <2>2. PICK r \in RunRow : r = [run EXCEPT !.answer = a, !.parts = n]
    BY <2>1 DEF RunRow
  <2>3. r.of = run.of /\ r.at = run.at /\ r.answer = a
    BY <2>1, <2>2 DEF RunRow
  <2>4. QED
    BY <1>2, <2>1, <2>2, <2>3 DEF a
<1>8. faults' \in 0 .. MaxFaults
  BY <1>1, QueueAssumption DEF QueueInv, BrowserOK
<1>9. BrowserOK'
  BY <1>1, <1>2, <1>7, <1>8 DEF QueueInv, BrowserOK
<1>10. ServerOK'
  BY <1>1, <1>6 DEF QueueInv, ServerOK, StrayRow, Lasting
<1>11. ASSUME NEW g \in Files PROVE FileIsFine(g)'
  <2>1. CASE g = f
    BY <1>1, <1>5, <1>6, <1>7, <2>1 DEF FileIsFine, AtOf, AnswerOf
  <2>2. CASE g # f
    <3>1. FileIsFine(g)
      BY DEF QueueInv
    <3>2. QED
      BY <1>1, <1>2, <1>6, <1>7, <2>2, <3>1 DEF FileIsFine, AtOf, AnswerOf
  <2>3. QED
    BY <2>1, <2>2
<1>12. QED
  BY <1>9, <1>10, <1>11 DEF QueueInv

LEMMA StrayKeeps == ASSUME QueueInv, ServeStray PROVE QueueInv'
<1>1. PICK x \in strays :
        /\ strays' = strays \ {x}
        /\ \/ UNCHANGED <<session, answered, misjudged, unheard>>
           \/ \E o \in Serves(x.of, x.at, x.parts) :
                /\ session' = [session EXCEPT ![x.of] = o.session]
                /\ Stores(x.of, o)
                /\ unheard' = IF o.answered > 0 THEN unheard \cup {x.of} ELSE unheard
        /\ UNCHANGED <<transport, list, task, run, presses, faults>>
  BY DEF ServeStray
<1> DEFINE f == x.of
           at == AtOf(run, f)
           a == AnswerOf(run, f)
           S == About(strays, f)
           u == f \in unheard
<1>2. /\ f \in Files /\ x.at \in Lasting /\ x.parts \in 0 .. Parts /\ x \in S
      /\ task[f] \in TaskRow /\ answered[f] \in Nat /\ session[f] \in SessionRow
      /\ u \in BOOLEAN /\ transport \in {"server-relay", "presigned-put"}
  BY DEF QueueInv, BrowserOK, ServerOK, StrayRow, About
<1>3. FileFits(task[f], at, a, session[f], answered[f], S, u)
  BY <1>2 DEF QueueInv, FileIsFine
<1>4. x.at \in {"part", "confirm", "finalize", "direct", "cancel"}
  BY <1>2 DEF Lasting
<1>5. About(strays', f) = S \ {x} /\ \A g \in Files \ {f} : About(strays', g) = About(strays, g)
  BY <1>1 DEF About
<1>6. BrowserOK'
  BY <1>1 DEF QueueInv, BrowserOK
<1>7. ASSUME NEW g \in Files \ {f}, session'[g] = session[g], answered'[g] = answered[g],
             (g \in unheard') = (g \in unheard)
      PROVE  FileIsFine(g)'
  <2>1. FileIsFine(g)
    BY DEF QueueInv
  <2>2. QED
    BY <1>1, <1>5, <1>7, <2>1 DEF FileIsFine
<1> HIDE DEF f, at, a, S, u
<1>8. CASE UNCHANGED <<session, answered, misjudged, unheard>>
  <2>1. ServerOK'
    BY <1>1, <1>8 DEF QueueInv, ServerOK, StrayRow, Lasting
  <2>2. FileFits(task[f], at, a, session[f], answered[f], S \ {x}, u)
    BY <1>2, <1>3, StrayFitsGone
  <2>3. FileIsFine(f)'
    BY <1>1, <1>5, <1>8, <2>2 DEF FileIsFine, at, a, u
  <2>4. \A g \in Files : FileIsFine(g)'
    BY <1>7, <1>8, <2>3
  <2>5. QED
    BY <1>6, <2>1, <2>4 DEF QueueInv
<1>9. ASSUME NEW o \in Serves(f, x.at, x.parts),
             session' = [session EXCEPT ![f] = o.session],
             Stores(f, o),
             unheard' = IF o.answered > 0 THEN unheard \cup {f} ELSE unheard
      PROVE  QueueInv'
  <2>1. Served(session[f], x.at, o)
    <3>1. x.at \in {"part", "confirm"} => x.parts < Parts
      BY <1>2, <1>3 DEF FileFits, StrayFits
    <3>2. x.at \in Requests \cup {"cancel"}
      BY <1>4 DEF Requests
    <3>3. QED
      BY <1>2, <1>9, <3>1, <3>2, ServerServes
  <2>2. o.session \in SessionRow /\ o.answered \in {0, 1} /\ o.misjudged \in {0, 1}
    BY <2>1 DEF Served
  <2>3. /\ session' \in [Files -> SessionRow]
        /\ answered' \in [Files -> Nat] /\ misjudged' \in [Files -> Nat]
        /\ session'[f] = o.session /\ answered'[f] = answered[f] + o.answered
        /\ \A g \in Files \ {f} : session'[g] = session[g] /\ answered'[g] = answered[g]
    BY <1>2, <1>9, <2>2 DEF Stores, QueueInv, ServerOK
  <2>4. unheard' \subseteq Files
        /\ \A g \in Files \ {f} : (g \in unheard') = (g \in unheard)
    BY <1>2, <1>9 DEF QueueInv, ServerOK
  <2> DEFINE v == f \in unheard'
  <2>5. v \in BOOLEAN /\ (v <=> u \/ o.answered > 0)
    BY <1>9, <2>2 DEF u
  <2> HIDE DEF v
  <2>6. FileFits(task[f], at, a, o.session, answered[f] + o.answered, S \ {x}, v)
    <3> DEFINE t == task[f]
               s == session[f]
               m == answered[f]
    <3>1. /\ t \in TaskRow /\ m \in Nat /\ u \in BOOLEAN /\ x \in S
          /\ FileFits(t, at, a, s, m, S, u) /\ Served(s, x.at, o)
          /\ x.at \in {"part", "confirm", "finalize", "direct", "cancel"}
      BY <1>2, <1>3, <1>4, <2>1
    <3> HIDE DEF t, s, m
    <3>2. PICK n : n = m + o.answered
      OBVIOUS
    <3>3. PICK v0 \in BOOLEAN : v0 = v
      BY <2>5
    <3>4. PICK u0 \in BOOLEAN : u0 = u
      BY <3>1
    <3>5. v0 <=> u0 \/ o.answered > 0
      BY <2>5, <3>1, <3>3, <3>4
    <3>6. FileFits(t, at, a, s, m, S, u0)
      BY <3>1, <3>4
    <3>7. FileFits(t, at, a, o.session, n, S \ {x}, v0)
      BY <3>1, <3>2, <3>5, <3>6, StrayServed
    <3>8. QED
      BY <3>2, <3>3, <3>7 DEF t, s, m
  <2>7. FileIsFine(f)'
    BY <1>1, <1>5, <2>3, <2>6 DEF FileIsFine, at, a, v
  <2>8. \A g \in Files : FileIsFine(g)'
    BY <1>7, <2>3, <2>4, <2>7
  <2>9. ServerOK'
    BY <1>1, <2>3, <2>4 DEF QueueInv, ServerOK, StrayRow, Lasting
  <2>10. QED
    BY <1>6, <2>8, <2>9 DEF QueueInv
<1>10. QED
  BY <1>1, <1>8, <1>9 DEF f

LEMMA ErrorKeeps == ASSUME QueueInv, GetError PROVE QueueInv'
<1>1. PICK f \in run.of : /\ run.answer \in {"refused", "broken"}
                          /\ CatchError(f, run.answer)
                          /\ UNCHANGED <<transport, session, strays, answered, misjudged, unheard,
                                         presses, faults>>
  BY DEF GetError
<1>2. /\ f \in Files /\ run.of = {f}
      /\ FileFits(task[f], run.at, run.answer, session[f], answered[f], About(strays, f),
                  f \in unheard)
  BY RunIsOf
<1>3. Elsewhere(f) /\ ServerOK' /\ Counters
  BY <1>1, <1>2, SameServer, SameCounters
<1>4. FileFits(task[f], run.at, run.answer, session[f], answered[f], About(strays', f),
               f \in unheard')
  BY <1>1, <1>2
<1>5. QED
  BY <1>1, <1>2, <1>3, <1>4, CatchFits DEF QueueInv

LEMMA LoseKeeps == ASSUME QueueInv, LoseReply PROVE QueueInv'
<1>1. PICK f \in run.of : /\ faults < MaxFaults /\ faults' = faults + 1
                          /\ Abandon(f) /\ CatchError(f, "network")
                          /\ UNCHANGED <<transport, session, answered, misjudged, presses>>
  BY DEF LoseReply
<1> DEFINE x == [of |-> f, at |-> run.at, parts |-> task[f].parts]
           Z == About(strays', f)
           u == f \in unheard
           v == f \in unheard'
<1>2. /\ f \in Files /\ run.of = {f} /\ task[f] \in TaskRow /\ answered[f] \in Nat
      /\ run.at \in Requests /\ task[f].parts \in 0 .. Parts
      /\ FileFits(task[f], run.at, run.answer, session[f], answered[f], About(strays, f), u)
  BY RunIsOf DEF TaskRow
<1>3. strays' = IF run.answer = "none" /\ run.at \in Lasting THEN strays \cup {x} ELSE strays
  BY <1>1 DEF Abandon
<1>4. unheard' = IF Told(run.at, run.answer) THEN unheard \cup {f} ELSE unheard
  BY <1>1 DEF Abandon, Told
<1>5. /\ Z = About(strays, f) \cup {x} \/ Z = About(strays, f)
      /\ Z # About(strays, f) => run.answer = "none"
      /\ run.at = "direct" /\ run.answer = "none" => Z = About(strays, f) \cup {x}
  BY <1>3 DEF About, Lasting
<1>6. u \in BOOLEAN /\ v \in BOOLEAN /\ (v <=> u \/ Told(run.at, run.answer))
  BY <1>4
<1>7. Elsewhere(f)
  <2>1. \A g \in Files \ {f} : About(strays', g) = About(strays, g)
    BY <1>3 DEF About
  <2>2. \A g \in Files \ {f} : (g \in unheard') = (g \in unheard)
    BY <1>4
  <2>3. QED
    BY <1>1, <2>1, <2>2 DEF Elsewhere
<1>8. ServerOK'
  <2>1. run.at \in Lasting => x \in StrayRow
    BY <1>2 DEF StrayRow
  <2>2. strays' \subseteq StrayRow
    BY <1>3, <2>1 DEF QueueInv, ServerOK
  <2>3. StrayRow' = StrayRow
    BY <1>1 DEF StrayRow, Lasting
  <2>4. unheard' \subseteq Files
    BY <1>2, <1>4 DEF QueueInv, ServerOK
  <2>5. QED
    BY <1>1, <2>2, <2>3, <2>4 DEF QueueInv, ServerOK
<1>9. Counters
  BY <1>1, QueueAssumption DEF QueueInv, BrowserOK, Counters
<1>10. x.at = run.at /\ x.parts = task[f].parts
  OBVIOUS
<1> HIDE DEF x, Z, u, v
<1>11. FileFits(task[f], run.at, "broken", session[f], answered[f], Z, v)
  BY <1>2, <1>5, <1>6, <1>10, GivesUp
<1>12. QED
  BY <1>1, <1>2, <1>7, <1>8, <1>9, <1>11, CatchFits DEF QueueInv, Z, v

LEMMA LoopFits ==
  ASSUME QueueInv, NEW f \in run.of, run.answer = "ok",
         run.at \in {"create", "sync", "part", "confirm"},
         UNCHANGED <<transport, session, strays, answered, misjudged, unheard, presses, faults>>,
         NEW t \in [Files -> TaskRow], \A g \in Files \ {f} : t[g] = task[g],
         t[f].session, t[f].direct = task[f].direct, Loop(t, f)
  PROVE  QueueInv'
<1>1. /\ f \in Files /\ run.of = {f} /\ task[f] \in TaskRow /\ answered[f] \in Nat
      /\ FileFits(task[f], run.at, "ok", session[f], answered[f], About(strays, f), f \in unheard)
  BY RunIsOf
<1>2. Elsewhere(f) /\ ServerOK' /\ Counters /\ list' = list
  BY <1>1, SameServer, SameCounters DEF Loop
<1> DEFINE x == IF t[f].parts < Parts THEN "uploading" ELSE "finalizing"
           next == IF t[f].parts < Parts
                   THEN IF transport = "presigned-put" THEN "prepare" ELSE "part"
                   ELSE "finalize"
<1>3. /\ task' = With(t, f, x) /\ run' = Awaits(f, next)
      /\ x \in Statuses /\ next \in Requests
  BY DEF Loop, Statuses, Requests
<1>4. /\ x \in {"uploading", "finalizing"} /\ next \in {"prepare", "part", "finalize"}
      /\ next # "finalize" => t[f].parts < Parts
  OBVIOUS
<1> HIDE DEF x, next
<1>5. /\ task' \in [Files -> TaskRow] /\ \A g \in Files \ {f} : task'[g] = task[g]
      /\ task'[f].status = x /\ task'[f].session /\ task'[f].parts = t[f].parts
      /\ task'[f].direct = task[f].direct
  BY <1>1, <1>3, WithMakes
<1>6. RunFits(task'[f], next)
  BY <1>4, <1>5 DEF RunFits
<1>7. FileFits(task'[f], next, "none", session[f], answered[f], About(strays, f), f \in unheard)
  <2> DEFINE u == f \in unheard
  <2>1. u \in BOOLEAN /\ task[f].direct \in BOOLEAN /\ task'[f] \in TaskRow
    BY <1>1, <1>5 DEF TaskRow
  <2>2. task[f].status # "completed" /\ ~Told(run.at, "ok")
    BY <1>1 DEF FileFits, RunFits, Told
  <2>3. FileFits(task[f], run.at, "ok", session[f], answered[f], About(strays, f), u)
    BY <1>1
  <2> HIDE DEF u
  <2>4. FileFits(task'[f], next, "none", session[f], answered[f], About(strays, f), u)
    BY <1>1, <1>4, <1>5, <1>6, <2>1, <2>2, <2>3, MovesOn
  <2>5. QED
    BY <2>4 DEF u
<1>8. QED
  BY <1>1, <1>2, <1>3, <1>5, <1>7, RunContinues DEF QueueInv

\* The run ends with what the queue was told.
LEMMA EndFits ==
  ASSUME QueueInv, NEW f \in run.of, run.answer = "ok",
         UNCHANGED <<transport, session, strays, answered, misjudged, unheard, presses, faults>>,
         NEW t \in [Files -> TaskRow], \A g \in Files \ {f} : t[g] = task[g],
         t[f].session = task[f].session, t[f].direct = task[f].direct, t[f].status # "absent",
         t[f].status = "completed" <=> task[f].status = "completed" \/ Told(run.at, "ok"),
         NEW l, l = list \/ l = Without(f), Finish(l, t)
  PROVE  QueueInv'
<1>1. /\ f \in Files /\ run.of = {f} /\ task[f] \in TaskRow /\ answered[f] \in Nat
      /\ FileFits(task[f], run.at, "ok", session[f], answered[f], About(strays, f), f \in unheard)
  BY RunIsOf
<1>2. Elsewhere(f) /\ ServerOK' /\ Counters
  BY <1>1, SameServer, SameCounters
<1>3. FileFits(t[f], "rest", "none", session[f], answered[f], About(strays, f), f \in unheard)
  <2> DEFINE u == f \in unheard
  <2>1. u \in BOOLEAN /\ task[f].direct \in BOOLEAN /\ t[f] \in TaskRow /\ RunFits(t[f], "rest")
    BY <1>1 DEF TaskRow, RunFits
  <2>2. FileFits(task[f], run.at, "ok", session[f], answered[f], About(strays, f), u)
    BY <1>1
  <2> HIDE DEF u
  <2>3. FileFits(t[f], "rest", "none", session[f], answered[f], About(strays, f), u)
    BY <1>1, <2>1, <2>2, MovesOn
  <2>4. QED
    BY <2>3 DEF u
<1>4. QED
  BY <1>1, <1>2, <1>3, RunEnds DEF QueueInv

\* Another request, with nothing learnt.
LEMMA NextFits ==
  ASSUME QueueInv, NEW f \in run.of, run.answer = "ok",
         UNCHANGED <<transport, session, strays, answered, misjudged, unheard, presses, faults>>,
         task' \in [Files -> TaskRow], \A g \in Files \ {f} : task'[g] = task[g],
         task'[f].session = task[f].session, task'[f].direct = task[f].direct,
         task'[f].status = "completed" <=> task[f].status = "completed" \/ Told(run.at, "ok"),
         NEW next \in {"part", "confirm", "tidy"}, RunFits(task'[f], next),
         run' = Awaits(f, next), list' = list
  PROVE  QueueInv'
<1>1. /\ f \in Files /\ run.of = {f} /\ task[f] \in TaskRow /\ answered[f] \in Nat
      /\ FileFits(task[f], run.at, "ok", session[f], answered[f], About(strays, f), f \in unheard)
  BY RunIsOf
<1>2. Elsewhere(f) /\ ServerOK' /\ Counters /\ next \in Requests
  BY <1>1, SameServer, SameCounters DEF Requests
<1>3. FileFits(task'[f], next, "none", session[f], answered[f], About(strays, f), f \in unheard)
  <2> DEFINE u == f \in unheard
  <2>1. u \in BOOLEAN /\ task[f].direct \in BOOLEAN /\ task'[f] \in TaskRow
    BY <1>1 DEF TaskRow
  <2>2. FileFits(task[f], run.at, "ok", session[f], answered[f], About(strays, f), u)
    BY <1>1
  <2> HIDE DEF u
  <2>3. FileFits(task'[f], next, "none", session[f], answered[f], About(strays, f), u)
    BY <1>1, <2>1, <2>2, MovesOn
  <2>4. QED
    BY <2>3 DEF u
<1>4. QED
  BY <1>1, <1>2, <1>3, RunContinues DEF QueueInv

LEMMA ReplyKeeps == ASSUME QueueInv, GetReply PROVE QueueInv'
<1>1. PICK f \in run.of :
        /\ run.answer = "ok"
        /\ \/ SessionCreated(f) \/ SessionSynced(f) \/ ChunkPrepared(f) \/ ChunkInR2(f)
           \/ ChunkStored(f) \/ Finalized(f) \/ SentWhole(f) \/ Tidied(f) \/ Resynced(f)
        /\ UNCHANGED <<transport, session, strays, answered, misjudged, unheard, presses, faults>>
  BY DEF GetReply
<1>2. /\ f \in Files /\ run.of = {f} /\ run.at \in Requests
      /\ task \in [Files -> TaskRow] /\ task[f] \in TaskRow
      /\ FileFits(task[f], run.at, "ok", session[f], answered[f], About(strays, f), f \in unheard)
  BY <1>1, RunIsOf
<1>3. RunFits(task[f], run.at) /\ BrowserOK
  BY <1>2 DEF FileFits, QueueInv
<1>4. PICK k \in [Files -> TaskRow] :
        /\ k = Known(f) /\ \A g \in Files \ {f} : k[g] = task[g]
        /\ k[f].status = task[f].status /\ k[f].session = task[f].session
        /\ k[f].direct = task[f].direct
  BY <1>2, <1>3, KnownMakes
<1>5. CASE SessionCreated(f)
  <2>1. PICK r \in TaskRow : r = [k[f] EXCEPT !.session = TRUE]
    BY <1>2, <1>4 DEF TaskRow
  <2>2. r.session /\ r.direct = task[f].direct
    BY <1>2, <1>4, <2>1 DEF TaskRow
  <2> DEFINE t == [k EXCEPT ![f].session = TRUE]
  <2>3. t = [k EXCEPT ![f] = r]
    BY <2>1
  <2>4. t \in [Files -> TaskRow] /\ t[f] = r /\ \A g \in Files \ {f} : t[g] = task[g]
    BY <1>2, <1>4, <2>3
  <2>5. run.at = "create" /\ Loop(t, f)
    BY <1>4, <1>5 DEF SessionCreated
  <2> HIDE DEF t
  <2>6. QED
    BY <1>1, <2>2, <2>4, <2>5, LoopFits
<1>6. CASE SessionSynced(f)
  <2>1. run.at = "sync" /\ Loop(k, f)
    BY <1>4, <1>6 DEF SessionSynced
  <2>2. k[f].session
    BY <1>3, <1>4, <2>1 DEF RunFits
  <2>3. QED
    BY <1>1, <1>4, <2>1, <2>2, LoopFits
<1>7. CASE ChunkPrepared(f)
  <2>1. run.at = "prepare" /\ UNCHANGED <<list, task>> /\ run' = Awaits(f, "part")
    BY <1>7 DEF ChunkPrepared
  <2>2. RunFits(task[f], "part")
    BY <1>3, <2>1 DEF RunFits
  <2>3. QED
    BY <1>1, <1>2, <2>1, <2>2, NextFits DEF Told
<1>8. CASE ChunkInR2(f)
  <2>1. run.at = "part" /\ UNCHANGED <<list, task>> /\ run' = Awaits(f, "confirm")
    BY <1>8 DEF ChunkInR2
  <2>2. RunFits(task[f], "confirm")
    BY <1>3, <2>1 DEF RunFits
  <2>3. QED
    BY <1>1, <1>2, <2>1, <2>2, NextFits DEF Told
<1>9. CASE ChunkStored(f)
  <2>1. 0 \in 0 .. MaxRetries
    BY QueueAssumption
  <2>2. PICK r \in TaskRow : r = [k[f] EXCEPT !.retries = 0]
    BY <1>2, <1>4, <2>1 DEF TaskRow
  <2>3. r.session = k[f].session /\ r.direct = task[f].direct
    BY <1>2, <1>4, <2>2 DEF TaskRow
  <2> DEFINE t == [k EXCEPT ![f].retries = 0]
  <2>4. t = [k EXCEPT ![f] = r]
    BY <2>2
  <2>5. t \in [Files -> TaskRow] /\ t[f] = r /\ \A g \in Files \ {f} : t[g] = task[g]
    BY <1>2, <1>4, <2>4
  <2>6. run.at \in {"part", "confirm"} /\ Loop(t, f)
    BY <1>4, <1>9 DEF ChunkStored
  <2>7. r.session
    BY <1>3, <1>4, <2>3, <2>6 DEF RunFits
  <2> HIDE DEF t
  <2>8. QED
    BY <1>1, <2>3, <2>5, <2>6, <2>7, LoopFits
<1>10. ASSUME Finish(Without(f), With(task, f, "completed")), run.at \in {"finalize", "direct"}
       PROVE  QueueInv'
  <2>1. "completed" \in Statuses
    BY DEF Statuses
  <2>2. PICK z \in [Files -> TaskRow] :
          /\ z = With(task, f, "completed") /\ \A g \in Files \ {f} : z[g] = task[g]
          /\ z[f].status = "completed" /\ z[f].session = task[f].session
          /\ z[f].direct = task[f].direct
    BY <1>2, <2>1, WithMakes
  <2>3. QED
    BY <1>1, <1>10, <2>2, EndFits DEF Told
<1>11. CASE Finalized(f)
  BY <1>10, <1>11 DEF Finalized
<1>12. CASE SentWhole(f)
  <2>1. run.at = "direct"
    BY <1>12 DEF SentWhole
  <2>2. CASE task[f].session
    <3>1. task' = With(task, f, "completed") /\ run' = Awaits(f, "tidy") /\ list' = list
          /\ "completed" \in Statuses
      BY <1>12, <2>2 DEF SentWhole, Statuses
    <3>2. /\ task' \in [Files -> TaskRow] /\ \A g \in Files \ {f} : task'[g] = task[g]
          /\ task'[f].status = "completed" /\ task'[f].session = task[f].session
          /\ task'[f].direct = task[f].direct
      BY <1>2, <3>1, WithMakes
    <3>3. RunFits(task'[f], "tidy")
      BY <3>2 DEF RunFits
    <3>4. QED
      BY <1>1, <2>1, <3>1, <3>2, <3>3, NextFits DEF Told
  <2>3. CASE ~task[f].session
    BY <1>10, <1>12, <2>1, <2>3 DEF SentWhole
  <2>4. QED
    BY <2>2, <2>3
<1>13. CASE Tidied(f)
  <2>1. run.at = "tidy" /\ Finish(Without(f), task)
    BY <1>13 DEF Tidied
  <2>2. task[f].status # "absent"
    BY <1>3, <2>1 DEF RunFits
  <2>3. QED
    BY <1>1, <1>2, <2>1, <2>2, EndFits DEF Told
<1>14. CASE Resynced(f)
  <2>1. run.at = "resync" /\ Finish(list, ScheduleRetry(k, f))
    BY <1>4, <1>14 DEF Resynced
  <2>2. PICK z \in [Files -> TaskRow] :
          /\ z = ScheduleRetry(k, f) /\ \A g \in Files \ {f} : z[g] = k[g]
          /\ z[f].status \in {"failed", "retrying"}
          /\ z[f].session = k[f].session /\ z[f].direct = k[f].direct
    BY <1>2, <1>4, RetryMakes
  <2>3. task[f].status # "completed"
    BY <1>3, <2>1 DEF RunFits
  <2>4. QED
    BY <1>1, <1>4, <2>1, <2>2, <2>3, EndFits DEF Told
<1>15. QED
  BY <1>1, <1>5, <1>6, <1>7, <1>8, <1>9, <1>11, <1>12, <1>13, <1>14

\* Files are queued.
LEMMA ProcessFits ==
  ASSUME QueueInv, UNCHANGED <<transport, session, strays, answered, misjudged, unheard>>,
         Counters,
         NEW t \in [Files -> TaskRow],
         \A g \in Files :
           \/ t[g] = task[g]
           \/ /\ task[g].status \in {"pending-send", "failed", "retrying"}
              /\ t[g].status = "queued"
              /\ t[g].session = task[g].session /\ t[g].direct = task[g].direct,
         Process(list, t)
  PROVE  QueueInv'
<1>1. /\ list \in Seq(Files) /\ IsInjective(list) /\ answered \in [Files -> Nat]
      /\ task \in [Files -> TaskRow] /\ run \in RunRow
      /\ \A i \in DOMAIN list : task[list[i]].status # "absent"
  BY DEF QueueInv, BrowserOK, ServerOK
<1>2. \A i \in DOMAIN list : t[list[i]].status # "absent"
  <2>1. TAKE i \in DOMAIN list
  <2>2. list[i] \in Files
    BY <1>1
  <2>3. QED
    BY <1>1, <2>2
<1>3. ASSUME NEW g \in Files
      PROVE  FileFits(t[g], AtOf(run, g), AnswerOf(run, g), session[g], answered[g],
                      About(strays, g), g \in unheard)
  <2>1. FileFits(task[g], AtOf(run, g), AnswerOf(run, g), session[g], answered[g],
                 About(strays, g), g \in unheard)
    BY DEF QueueInv, FileIsFine
  <2>2. CASE t[g] = task[g]
    BY <2>1, <2>2
  <2>3. CASE t[g] # task[g]
    <3> DEFINE u == g \in unheard
               r == t[g]
               b == task[g]
               m == answered[g]
    <3>1. /\ b.status \in {"pending-send", "failed", "retrying"} /\ r.status = "queued"
          /\ r.session = b.session /\ r.direct = b.direct
      BY <2>3
    <3>2. AtOf(run, g) = "rest"
      BY <2>1, <3>1 DEF FileFits, RunFits
    <3>3. AnswerOf(run, g) = "none"
      BY <1>1, <3>2 DEF AtOf, AnswerOf, RunRow, Requests
    <3>4. FileFits(b, "rest", "none", session[g], m, About(strays, g), u)
      BY <2>1, <3>2, <3>3
    <3>5. u \in BOOLEAN /\ r \in TaskRow /\ b \in TaskRow /\ m \in Nat
      BY <1>1
    <3> HIDE DEF u, r, b, m
    <3>6. FileFits(r, "rest", "none", session[g], m, About(strays, g), u)
      BY <3>1, <3>4, <3>5, RestFits
    <3>7. QED
      BY <3>2, <3>3, <3>6 DEF u, r, m
  <2>4. QED
    BY <2>2, <2>3
<1>4. CASE run = NoRun
  <2>1. TakeFirst(list, t)
    BY <1>4 DEF Process
  <2>2. \A g \in Files : FileFits(t[g], "rest", "none", session'[g], answered'[g],
                                 About(strays', g), g \in unheard')
    <3>1. TAKE g \in Files
    <3>2. AtOf(run, g) = "rest" /\ AnswerOf(run, g) = "none"
      BY <1>4 DEF NoRun, AtOf, AnswerOf
    <3>3. QED
      BY <1>3, <3>2
  <2>3. answered' \in [Files -> Nat]
    BY <1>1
  <2>4. BrowserOK' /\ \A g \in Files : FileIsFine(g)'
    BY <1>1, <1>2, <2>1, <2>2, <2>3, TakeFits
  <2>5. QED
    BY <2>4, SameServer DEF QueueInv
<1>5. CASE run # NoRun
  <2>1. list' = list /\ task' = t /\ run' = run
    BY <1>5 DEF Process
  <2>2. BrowserOK'
    BY <1>1, <1>2, <2>1 DEF QueueInv, BrowserOK, Counters
  <2>3. \A g \in Files : FileIsFine(g)'
    <3>1. TAKE g \in Files
    <3>2. AtOf(run', g) = AtOf(run, g) /\ AnswerOf(run', g) = AnswerOf(run, g)
      BY <2>1
    <3>3. QED
      BY <1>3, <2>1, <3>2 DEF FileIsFine
  <2>4. QED
    BY <2>2, <2>3, SameServer DEF QueueInv
<1>6. QED
  BY <1>4, <1>5

LEMMA TimerKeeps == ASSUME QueueInv, NEW f \in Files, RetryTimer(f) PROVE QueueInv'
<1> DEFINE t == With(task, f, "queued")
<1>1. "queued" \in Statuses /\ task \in [Files -> TaskRow]
  BY DEF Statuses, QueueInv, BrowserOK
<1>2. /\ t \in [Files -> TaskRow] /\ \A g \in Files \ {f} : t[g] = task[g]
      /\ t[f].status = "queued" /\ t[f].session = task[f].session
      /\ t[f].direct = task[f].direct
  BY <1>1, WithMakes
<1>3. task[f].status = "retrying" /\ Process(list, t)
      /\ UNCHANGED <<transport, session, strays, answered, misjudged, unheard, presses, faults>>
  BY DEF RetryTimer
<1> HIDE DEF t
<1>4. QED
  BY <1>2, <1>3, ProcessFits, SameCounters

LEMMA SendKeeps == ASSUME QueueInv, PressSend PROVE QueueInv'
<1> DEFINE t == [f \in Files |-> IF task[f].status = "pending-send"
                                 THEN [task[f] EXCEPT !.status = "queued"] ELSE task[f]]
<1>1. task \in [Files -> TaskRow]
  BY DEF QueueInv, BrowserOK
<1>2. ASSUME NEW f \in Files
      PROVE  /\ t[f] \in TaskRow
             /\ \/ t[f] = task[f]
                \/ /\ task[f].status = "pending-send" /\ t[f].status = "queued"
                   /\ t[f].session = task[f].session /\ t[f].direct = task[f].direct
  <2>1. PICK r \in TaskRow : r = [task[f] EXCEPT !.status = "queued"]
    BY <1>1 DEF TaskRow, Statuses
  <2>2. r.status = "queued" /\ r.session = task[f].session /\ r.direct = task[f].direct
    BY <1>1, <2>1 DEF TaskRow
  <2>3. t[f] = IF task[f].status = "pending-send" THEN r ELSE task[f]
    BY <2>1
  <2>4. QED
    BY <1>1, <2>2, <2>3
<1>3. t \in [Files -> TaskRow]
  BY <1>2
<1>4. /\ Process(list, t)
      /\ UNCHANGED <<transport, session, strays, answered, misjudged, unheard, presses, faults>>
  BY DEF PressSend
<1> HIDE DEF t
<1>5. QED
  BY <1>2, <1>3, <1>4, ProcessFits, SameCounters

LEMMA PressCounts == ASSUME QueueInv, Press, faults' = faults PROVE Counters
  BY QueueAssumption DEF QueueInv, BrowserOK, Counters, Press

LEMMA RetryKeeps == ASSUME QueueInv, NEW f \in Files, PressRetry(f) PROVE QueueInv'
<1> DEFINE t == [task EXCEPT ![f].status = "queued", ![f].retries = 0]
<1>1. task \in [Files -> TaskRow] /\ 0 \in 0 .. MaxRetries /\ "queued" \in Statuses
  BY QueueAssumption DEF QueueInv, BrowserOK, Statuses
<1>2. PICK r \in TaskRow : r = [task[f] EXCEPT !.status = "queued", !.retries = 0]
  BY <1>1 DEF TaskRow
<1>3. r.status = "queued" /\ r.session = task[f].session /\ r.direct = task[f].direct
  BY <1>1, <1>2 DEF TaskRow
<1>4. t = [task EXCEPT ![f] = r]
  BY <1>1, <1>2
<1>5. t \in [Files -> TaskRow] /\ t[f] = r /\ \A g \in Files \ {f} : t[g] = task[g]
  BY <1>1, <1>4
<1>6. task[f].status = "failed" /\ Process(list, t) /\ Press
      /\ UNCHANGED <<transport, session, strays, answered, misjudged, unheard, faults>>
  BY DEF PressRetry, Shows
<1> HIDE DEF t
<1>7. QED
  BY <1>3, <1>5, <1>6, ProcessFits, PressCounts

LEMMA ChooseKeeps == ASSUME QueueInv, NEW f \in Files, ChooseFile(f) PROVE QueueInv'
<1>1. /\ list \in Seq(Files) /\ IsInjective(list) /\ task \in [Files -> TaskRow]
      /\ \A i \in DOMAIN list : task[list[i]].status # "absent"
      /\ task[f].status = "absent" /\ list' = Append(list, f)
      /\ task' = With(task, f, "pending-send") /\ "pending-send" \in Statuses /\ run' = run
      /\ UNCHANGED <<transport, session, strays, answered, misjudged, unheard, presses, faults>>
  BY DEF QueueInv, BrowserOK, ChooseFile, Statuses
<1>2. /\ task' \in [Files -> TaskRow] /\ \A g \in Files \ {f} : task'[g] = task[g]
      /\ task'[f].status = "pending-send" /\ task'[f].session = task[f].session
      /\ task'[f].direct = task[f].direct
  BY <1>1, WithMakes
<1>3. /\ list' \in Seq(Files) /\ Len(list') = Len(list) + 1 /\ list'[Len(list) + 1] = f
      /\ \A i \in 1 .. Len(list) : list'[i] = list[i] /\ list'[i] # f /\ list'[i] \in Files
  BY <1>1
<1>4. IsInjective(list')
  <2>1. \A i, j \in 1 .. Len(list) : list[i] = list[j] => i = j
    BY <1>1 DEF IsInjective
  <2>2. \A i, j \in 1 .. Len(list) + 1 : list'[i] = list'[j] => i = j
    BY <1>3, <2>1
  <2>3. DOMAIN list' = 1 .. Len(list) + 1
    BY <1>3
  <2>4. QED
    BY <2>2, <2>3 DEF IsInjective
<1>5. \A i \in DOMAIN list' : task'[list'[i]].status # "absent"
  <2>1. TAKE i \in DOMAIN list'
  <2>2. CASE i \in 1 .. Len(list)
    BY <1>1, <1>2, <1>3, <2>2
  <2>3. CASE i \notin 1 .. Len(list)
    <3>1. i = Len(list) + 1
      BY <1>1, <1>3, <2>3
    <3>2. QED
      BY <1>2, <1>3, <3>1
  <2>4. QED
    BY <2>2, <2>3
<1>6. BrowserOK'
  BY <1>1, <1>2, <1>3, <1>4, <1>5 DEF QueueInv, BrowserOK
<1>7. ASSUME NEW g \in Files PROVE FileIsFine(g)'
  <2>1. FileIsFine(g)
    BY DEF QueueInv
  <2>2. CASE g # f
    BY <1>1, <1>2, <2>1, <2>2 DEF FileIsFine
  <2>3. CASE g = f
    <3> DEFINE u == f \in unheard
               r == task'[f]
               b == task[f]
               m == answered[f]
    <3>1. AtOf(run, f) = "rest"
      BY <1>1, <2>1, <2>3 DEF FileIsFine, FileFits, RunFits
    <3>2. AnswerOf(run, f) = "none"
      BY <3>1 DEF AtOf, AnswerOf, QueueInv, BrowserOK, RunRow, Requests
    <3>3. FileFits(b, "rest", "none", session[f], m, About(strays, f), u)
      BY <2>1, <2>3, <3>1, <3>2 DEF FileIsFine
    <3>4. u \in BOOLEAN /\ r \in TaskRow /\ b \in TaskRow /\ m \in Nat
          /\ r.status = "pending-send" /\ b.status = "absent"
          /\ r.session = b.session /\ r.direct = b.direct
      BY <1>1, <1>2 DEF QueueInv, ServerOK
    <3> HIDE DEF u, r, b, m
    <3>5. FileFits(r, "rest", "none", session[f], m, About(strays, f), u)
      BY <3>3, <3>4, RestFits
    <3>6. QED
      BY <1>1, <2>3, <3>1, <3>2, <3>5 DEF FileIsFine, u, r, m
  <2>4. QED
    BY <2>2, <2>3
<1>8. QED
  BY <1>1, <1>6, <1>7, SameServer DEF QueueInv

LEMMA RemoveKeeps == ASSUME QueueInv, NEW f \in Files, PressRemove(f) PROVE QueueInv'
<1>1. /\ list \in Seq(Files) /\ IsInjective(list)
      /\ \A i \in DOMAIN list : task[list[i]].status # "absent"
      /\ list' = Without(f) /\ Press /\ faults' = faults
      /\ UNCHANGED <<transport, task, run, session, strays, answered, misjudged, unheard>>
  BY DEF QueueInv, BrowserOK, PressRemove
<1>2. /\ list' \in Seq(Files) /\ IsInjective(list')
      /\ \A i \in DOMAIN list' : \E j \in DOMAIN list : list'[i] = list[j]
  BY <1>1, WithoutKeeps
<1>3. \A i \in DOMAIN list' : task[list'[i]].status # "absent"
  BY <1>1, <1>2
<1>4. Counters
  BY <1>1, PressCounts
<1>5. BrowserOK'
  BY <1>1, <1>2, <1>3, <1>4 DEF QueueInv, BrowserOK, Counters
<1>6. \A g \in Files : FileIsFine(g)'
  BY <1>1 DEF QueueInv, FileIsFine
<1>7. QED
  BY <1>1, <1>5, <1>6, SameServer DEF QueueInv

LEMMA StopKeeps == ASSUME QueueInv, NEW f \in Files, PressStop(f) PROVE QueueInv'
<1> DEFINE aborts == run.of = {f} /\ run.at = "part" /\ run.answer = "none"
           dropped == IF aborts /\ "part" \in Lasting
                      THEN {[of |-> f, at |-> "part", parts |-> task[f].parts]} ELSE {}
           told == IF task[f].session
                   THEN {[of |-> f, at |-> "cancel", parts |-> 0]} ELSE {}
           Z == dropped \cup told
           t == With(task, f, "cancelled")
<1>1. /\ task[f].status \in {"queued", "uploading", "retrying"} /\ Press
      /\ strays' = strays \cup Z
      /\ IF aborts THEN Finish(list, t) ELSE task' = t /\ UNCHANGED <<list, run>>
      /\ UNCHANGED <<transport, session, answered, misjudged, unheard, faults>>
  BY DEF PressStop, Shows
<1>2. /\ task \in [Files -> TaskRow] /\ task[f] \in TaskRow /\ answered[f] \in Nat
      /\ "cancelled" \in Statuses /\ task[f].parts \in 0 .. Parts /\ Parts \in Nat
      /\ FileIsFine(f)
  BY QueueAssumption DEF QueueInv, BrowserOK, ServerOK, Statuses, TaskRow
<1>3. /\ t \in [Files -> TaskRow] /\ \A g \in Files \ {f} : t[g] = task[g]
      /\ t[f].status = "cancelled" /\ t[f].session = task[f].session
      /\ t[f].direct = task[f].direct /\ t[f].parts = task[f].parts
  BY <1>2, WithMakes
<1>4. aborts => task[f].parts < Parts
  BY <1>2 DEF FileIsFine, FileFits, RunFits, AtOf
<1>5. /\ Z \subseteq StrayRow /\ \A x \in Z : x.of = f
      /\ \A x \in Z : x.at = "cancel" \/ (x.at = "part" /\ x.parts < Parts)
  <2>1. "cancel" \in Lasting /\ 0 \in 0 .. Parts
    BY <1>2 DEF Lasting
  <2>2. dropped \subseteq StrayRow /\ \A x \in dropped : x.of = f /\ x.at = "part" /\ x.parts < Parts
    BY <1>2, <1>4 DEF StrayRow
  <2>3. told \subseteq StrayRow /\ \A x \in told : x.of = f /\ x.at = "cancel"
    BY <2>1 DEF StrayRow
  <2>4. QED
    BY <2>2, <2>3
<1> HIDE DEF Z, t
<1>6. About(strays', f) = About(strays, f) \cup Z
      /\ \A g \in Files \ {f} : About(strays', g) = About(strays, g)
  BY <1>1, <1>5 DEF About
<1>7. ServerOK'
  BY <1>1, <1>5 DEF QueueInv, ServerOK, StrayRow, Lasting
<1>8. Counters
  BY <1>1, PressCounts
<1>9. FileFits(t[f], AtOf(run, f), AnswerOf(run, f), session[f], answered[f], About(strays', f),
               f \in unheard)
  <2> DEFINE u == f \in unheard
             r == t[f]
             b == task[f]
             m == answered[f]
             S == About(strays, f)
  <2>1. FileFits(b, AtOf(run, f), AnswerOf(run, f), session[f], m, S, u)
    BY <1>2 DEF FileIsFine
  <2>2. /\ u \in BOOLEAN /\ r \in TaskRow /\ b \in TaskRow /\ m \in Nat
        /\ r.status = "cancelled" /\ b.status # "completed" /\ r.session = b.session
        /\ r.direct = b.direct /\ r.parts = b.parts
    BY <1>1, <1>2, <1>3
  <2>3. About(strays', f) = S \cup Z
    BY <1>6
  <2> HIDE DEF u, r, b, m, S
  <2>4. FileFits(r, AtOf(run, f), AnswerOf(run, f), session[f], m, S \cup Z, u)
    BY <1>5, <2>1, <2>2, StopFits
  <2>5. QED
    BY <2>3, <2>4 DEF u, r, m
<1>10. CASE aborts
  <2>1. Elsewhere(f)
    BY <1>1, <1>6 DEF Elsewhere
  <2>2. AtOf(run, f) = "part" /\ AnswerOf(run, f) = "none"
    BY <1>10 DEF AtOf, AnswerOf
  <2>3. FileFits(t[f], "rest", "none", session[f], answered[f], About(strays', f), f \in unheard)
    <3> DEFINE u == f \in unheard
               r == t[f]
               m == answered[f]
    <3>1. FileFits(r, "part", "none", session[f], m, About(strays', f), u)
      BY <1>9, <2>2
    <3>2. u \in BOOLEAN /\ r \in TaskRow /\ m \in Nat /\ r.status = "cancelled"
      BY <1>2, <1>3
    <3> HIDE DEF u, r, m
    <3>3. RunFits(r, "rest") /\ r.direct \in BOOLEAN /\ ~Told("part", "none")
      BY <3>2 DEF RunFits, TaskRow, Told
    <3>4. FileFits(r, "rest", "none", session[f], m, About(strays', f), u)
      BY <3>1, <3>2, <3>3, MovesOn
    <3>5. QED
      BY <3>4 DEF u, r, m
  <2>4. FileFits(t[f], "rest", "none", session[f], answered[f], About(strays', f), f \in unheard')
    BY <1>1, <2>3
  <2>5. Finish(list, t) /\ run.of = {f} /\ t[f].status # "absent"
    BY <1>1, <1>3, <1>10
  <2>6. BrowserOK' /\ \A g \in Files : FileIsFine(g)'
    BY <1>3, <1>8, <2>1, <2>4, <2>5, RunEnds
  <2>7. QED
    BY <1>7, <2>6 DEF QueueInv
<1>11. CASE ~aborts
  <2>1. task' = t /\ list' = list /\ run' = run
    BY <1>1, <1>11
  <2>2. BrowserOK'
    <3>1. ASSUME NEW i \in DOMAIN list PROVE t[list[i]].status # "absent"
      <4>1. list[i] \in Files /\ task[list[i]].status # "absent"
        BY DEF QueueInv, BrowserOK
      <4>2. QED
        BY <1>3, <4>1
    <3>2. QED
      BY <1>3, <1>8, <2>1, <3>1 DEF QueueInv, BrowserOK, Counters
  <2>3. ASSUME NEW g \in Files PROVE FileIsFine(g)'
    <3>1. CASE g = f
      BY <1>1, <1>9, <2>1, <3>1 DEF FileIsFine
    <3>2. CASE g # f
      <4>1. FileIsFine(g)
        BY DEF QueueInv
      <4>2. QED
        BY <1>1, <1>3, <1>6, <2>1, <3>2, <4>1 DEF FileIsFine
    <3>3. QED
      BY <3>1, <3>2
  <2>4. QED
    BY <1>7, <2>2, <2>3 DEF QueueInv
<1>12. QED
  BY <1>10, <1>11

-----------------------------------------------------------------------------
(* Attachments: the theorems.                                              *)

LEMMA QueueInitInv == QueueInit => QueueInv
<1> SUFFICES ASSUME QueueInit PROVE QueueInv
  OBVIOUS
<1>1. list = <<>> /\ list \in Seq(Files) /\ IsInjective(list)
  BY DEF QueueInit, IsInjective
<1>2. NoRun \in RunRow /\ run = NoRun
  BY QueueAssumption DEF QueueInit, NoRun, RunRow, Requests
<1>3. task \in [Files -> TaskRow]
  BY QueueAssumption DEF QueueInit, TaskRow, Statuses
<1>4. BrowserOK
  BY <1>1, <1>2, <1>3, QueueAssumption DEF QueueInit, BrowserOK
<1>5. ServerOK
  BY QueueAssumption DEF QueueInit, ServerOK, SessionRow
<1>6. ASSUME NEW f \in Files PROVE FileIsFine(f)
  <2>1. AtOf(run, f) = "rest" /\ AnswerOf(run, f) = "none" /\ About(strays, f) = {}
    BY <1>2 DEF QueueInit, NoRun, AtOf, AnswerOf, About
  <2>2. /\ task[f].status = "absent" /\ ~task[f].direct /\ session[f].state = "none"
        /\ answered[f] = 0 /\ f \notin unheard
    BY DEF QueueInit
  <2>3. Counted(task[f], "rest", "none", session[f], 0, {})
    BY <2>2 DEF Counted, Once, DirectOver
  <2>4. QED
    BY <2>1, <2>2, <2>3 DEF FileIsFine, FileFits, RunFits, OneDirect, HasDirect, Heard, Told
<1>7. QED
  BY <1>4, <1>5, <1>6 DEF QueueInv

LEMMA QueueStepKeeps == QueueInv /\ [QueueNext]_queueVars => QueueInv'
<1> SUFFICES ASSUME QueueInv, [QueueNext]_queueVars PROVE QueueInv'
  OBVIOUS
<1>1. CASE UNCHANGED queueVars
  BY <1>1 DEF queueVars, QueueInv, BrowserOK, ServerOK, StrayRow, Lasting, FileIsFine
<1>2. CASE QueueNext
  BY <1>2, ServeKeeps, StrayKeeps, ReplyKeeps, ErrorKeeps, LoseKeeps, SendKeeps, TimerKeeps,
     ChooseKeeps, StopKeeps, RetryKeeps, RemoveKeeps
     DEF QueueNext
<1>3. QED
  BY <1>1, <1>2

THEOREM QueueInductive == QueueSpec => []QueueInv
  BY QueueInitInv, QueueStepKeeps, PTL DEF QueueSpec

\* Requests that end well store a message of the session once, and once of the file as a
\* whole; those that fail afterwards are not limited.
LEMMA TwoAtMost == ASSUME QueueInv, NEW f \in Files PROVE answered[f] \in 0 .. 2
<1>1. answered[f] \in Nat /\ FileIsFine(f)
  BY DEF QueueInv, ServerOK
<1>2. \E b, c \in BOOLEAN : answered[f] <= Once(b) + Once(c)
  <2>1. PICK b \in BOOLEAN : b <=> session[f].state = "completed"
    OBVIOUS
  <2>2. PICK c \in BOOLEAN :
          c <=> DirectOver(task[f], AtOf(run, f), AnswerOf(run, f), About(strays, f))
    OBVIOUS
  <2>3. answered[f] <= Once(b) + Once(c)
    BY <1>1, <2>1, <2>2 DEF FileIsFine, FileFits, Counted, Once
  <2>4. QED
    BY <2>3
<1>3. \A b \in BOOLEAN : Once(b) \in {0, 1}
  BY DEF Once
<1>4. QED
  BY <1>1, <1>2, <1>3

\* Every state is well typed: in particular one file at a time is being uploaded, and the
\* requests about a file that end well never store more than two messages of it.
THEOREM QueueTypeCorrect == QueueSpec => []AttachmentQueueTypeOK
<1>1. ASSUME QueueInv PROVE AttachmentQueueTypeOK
  <2>1. Cardinality(run.of) <= 1
    <3>1. CASE run = NoRun
      BY <3>1, FS_EmptySet DEF NoRun
    <3>2. ASSUME NEW f \in Files, run.of = {f} PROVE Cardinality(run.of) <= 1
      <4>1. Cardinality({f}) = 1
        BY FS_Singleton
      <4>2. QED
        BY <3>2, <4>1
    <3>3. QED
      BY <1>1, <3>1, <3>2 DEF QueueInv, BrowserOK
  <2>2. answered \in [Files -> 0 .. 2]
    BY <1>1, TwoAtMost DEF QueueInv, ServerOK
  <2>3. QED
    BY <1>1, <2>1, <2>2
       DEF QueueInv, BrowserOK, ServerOK, AttachmentQueueTypeOK, TaskRow, RunRow, SessionRow,
           StrayRow
<1>2. QED
  BY <1>1, QueueInductive, PTL

\* Through failures, lost answers, stops, retries and the second way of sending, and
\* whatever requests that fail after they stored a message leave behind, the requests
\* that end well make one message of a file, and two only if an answer about it was lost;
\* what is shown as completed is such a message, and what is shown as failed is not one
\* that the browser was told of.
THEOREM FilesSentOnce == QueueSpec => []FilesAreSentOnce
<1>1. ASSUME QueueInv PROVE FilesAreSentOnce
  <2> SUFFICES ASSUME NEW f \in Files
               PROVE  /\ answered[f] <= (IF f \in unheard THEN 2 ELSE 1)
                      /\ task[f].status = "completed" => answered[f] >= 1
                      /\ task[f].status = "failed" /\ answered[f] > 0 => f \in unheard
    BY DEF FilesAreSentOnce
  <2>1. answered[f] \in 0 .. 2
    BY <1>1, TwoAtMost
  <2>2. /\ RunFits(task[f], AtOf(run, f))
        /\ Heard(task[f], AtOf(run, f), AnswerOf(run, f), answered[f], f \in unheard)
    BY <1>1 DEF QueueInv, FileIsFine, FileFits
  <2>3. QED
    BY <2>1, <2>2 DEF RunFits, Heard, Told
<1>2. QED
  BY <1>1, QueueInductive, PTL
-----------------------------------------------------------------------------
(* The two parts together                                                  *)

\* A behaviour of both parts is, for each of them, one of its own behaviours: the part that
\* is not picked stutters.
LEMMA EachPartSends == Sending => SendingSpec /\ QueueSpec
<1>1. BothInit => SendingInit /\ QueueInit
  BY DEF BothInit
<1>2. [BothNext]_bothVars => [SendingNext]_sendingVars /\ [QueueNext]_queueVars
  BY DEF BothNext, bothVars
<1>3. Sending => BothInit /\ [][BothNext]_bothVars
  BY PTL DEF Sending
<1>4. QED
  BY <1>1, <1>2, <1>3, PTL DEF SendingSpec, QueueSpec

\* Texts over the socket and files over HTTP, composed: every state of the part that is
\* picked is well typed, and in fact so is every state of the other one.
THEOREM BothTypeCorrect == Sending => []BothTypesOK
<1>1. SendingTypeOK /\ AttachmentQueueTypeOK => BothTypesOK
  BY DEF BothTypesOK
<1>2. QED
  BY <1>1, EachPartSends, SendingTypeCorrect, QueueTypeCorrect, PTL
=============================================================================
