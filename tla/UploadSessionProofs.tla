-------------------------- MODULE UploadSessionProofs --------------------------
(***************************************************************************)
(* Proofs about UploadSession, for a file of any number of chunks of any   *)
(* sizes and any number of requests in flight.  The first part holds       *)
(* however requests interleave (UploadSpec); the second when one request runs at *)
(* a time (SerialUploadSpec); the end puts uploads and accounts together         *)
(* (MCAccounts).                                                                 *)
(***************************************************************************)
EXTENDS MCAccounts, AdminAccountsProofs, TLAPS, WellFoundedInduction, SequenceTheorems

LEMMA EdgesTyped ==
  /\ FileSize \in Nat
  /\ \A k \in 0 .. Chunks : Edge[k] \in Nat /\ Edge[k] <= FileSize
  /\ \A k \in 0 .. Chunks - 1 : Edge[k + 1] \in Nat /\ Edge[k] < Edge[k + 1]
  BY PlanAssumption DEF FileSize

\* A set of numbers that is not empty has a least one.
LEMMA LeastNumber ==
  ASSUME NEW T, T \subseteq Nat, T # {}
  PROVE  \E x \in T : \A y \in T : x <= y
<1> DEFINE R == OpToRel(<, Nat)
<1>1. IsWellFoundedOn(R, Nat)
  BY NatLessThanWellFounded
<1>2. \E x \in T : \A y \in T : ~ (<<y, x>> \in R)
  <2> HIDE DEF R
  <2> QED BY <1>1, WFMin
<1>3. PICK x \in T : \A y \in T : ~ (<<y, x>> \in R)
  BY <1>2
<1>4. ASSUME NEW y \in T
      PROVE  x <= y
  <2>1. x \in Nat /\ y \in Nat
    OBVIOUS
  <2>2. CASE y < x
    <3>1. <<y, x>> \in R
      BY <2>1, <2>2 DEF OpToRel
    <3>2. QED
      BY <1>3, <3>1
  <2>3. QED
    BY <2>1, <2>2
<1>5. QED
  BY <1>4

\* Some number of chunks fits into n bytes, and one more does not.
LEMMA FilledFits ==
  ASSUME NEW n \in Nat
  PROVE  /\ Filled(n) \in 0 .. Chunks
         /\ Edge[Filled(n)] <= n
         /\ Filled(n) = Chunks \/ n < Edge[Filled(n) + 1]
<1> DEFINE T == {k \in 0 .. Chunks : n < Edge[k]}
<1>1. \E k \in 0 .. Chunks : Edge[k] <= n /\ (k = Chunks \/ n < Edge[k + 1])
  <2>1. CASE T = {}
    <3>1. Chunks \in 0 .. Chunks
      BY PlanAssumption
    <3>2. Edge[Chunks] <= n
      BY <2>1, <3>1, EdgesTyped
    <3>3. QED
      BY <3>1, <3>2
  <2>2. CASE T # {}
    <3>1. PICK l \in T : \A y \in T : l <= y
      <4>1. T \subseteq Nat
        OBVIOUS
      <4>2. QED
        BY <2>2, <4>1, LeastNumber
    <3>2. l \in 0 .. Chunks /\ l # 0 /\ n < Edge[l]
      BY <3>1, PlanAssumption
    <3>3. l - 1 \in 0 .. Chunks /\ l - 1 \notin T
      BY <3>1, <3>2, PlanAssumption
    <3>4. Edge[l - 1] <= n
      BY <3>3, EdgesTyped
    <3>5. QED
      BY <3>2, <3>3, <3>4
  <2>3. QED
    BY <2>1, <2>2
<1>2. QED
  BY <1>1 DEF Filled

--------------------------------------------------------------------------------
(***************************************************************************)
(* Types.  A handler that appends has a file open and its chunk not yet    *)
(* written whole.                                                          *)
(***************************************************************************)
Places == {"stat", "cut", "repair", "synced", "place", "open", "append", "check", "save",
           "name", "look", "drop", "verify", "free", "move", "send", "undo",
           "complete", "cancel", "clean"}

Early == {"stat", "cut", "repair", "synced", "open"}

Appending(h) ==
  /\ uploadReq[h].at \in Early => uploadReq[h].put = 0
  /\ uploadReq[h].at = "append" =>
       uploadReq[h].fd \in Files /\ Edge[uploadReq[h].chunk] + uploadReq[h].put < Edge[uploadReq[h].chunk + 1]

TInv == UploadTypeOK /\ \A h \in UploadHandlers : Appending(h)

\* A request in flight has all its fields.
LEMMA UploadBusyTyped ==
  ASSUME UploadTypeOK, NEW h \in UploadHandlers, uploadReq[h] # UploadIdle \/ uploadReq[h].at # "end"
  PROVE  /\ uploadReq[h] \in UploadRequest
         /\ uploadReq[h].chunk \in 0 .. Chunks - 1 /\ uploadReq[h].rec \in Record
         /\ uploadReq[h].fd \in PathTo /\ uploadReq[h].put \in Nat /\ uploadReq[h].at \in Places
<1>1. uploadReq[h] \in UploadRequest
  BY DEF UploadTypeOK, UploadIdle
<1>2. QED
  BY <1>1 DEF UploadRequest, Places

LEMMA RecordTyped ==
  ASSUME NEW r \in Record
  PROVE  /\ r.chunks \in 0 .. Chunks /\ r.name \in Names \cup {NoName}
         /\ r.status \in {"pending", "completed", "cancelled"}
         /\ \A k \in 0 .. Chunks : [r EXCEPT !.chunks = k] \in Record
         /\ \A n \in Names : [r EXCEPT !.name = n] \in Record
         /\ \A t \in {"completed", "cancelled"} : [r EXCEPT !.status = t] \in Record
  BY DEF Record

\* Where a request goes, its fields stay in their types.
LEMMA GoesTyped ==
  ASSUME UploadTypeOK, NEW h \in UploadHandlers, uploadReq[h] \in UploadRequest, NEW at \in Places, NEW r \in Record,
         Goes(h, at) \/ GoesWith(h, at, r)
  PROVE  /\ uploadReq' \in [UploadHandlers -> UploadRequest \cup {UploadIdle}]
         /\ uploadReq'[h].at = at /\ uploadReq'[h].put = uploadReq[h].put
         /\ \A g \in UploadHandlers \ {h} : uploadReq'[g] = uploadReq[g]
<1>1. CASE Goes(h, at)
  <2>1. [uploadReq[h] EXCEPT !.at = at] \in UploadRequest
    BY DEF UploadRequest, Places
  <2>2. uploadReq' = [uploadReq EXCEPT ![h] = [uploadReq[h] EXCEPT !.at = at]]
    BY <1>1 DEF Goes, UploadTypeOK
  <2>3. QED
    BY <2>1, <2>2 DEF UploadTypeOK, UploadRequest
<1>2. CASE GoesWith(h, at, r)
  <2>1. [uploadReq[h] EXCEPT !.at = at, !.rec = r] \in UploadRequest
    BY DEF UploadRequest, Places
  <2>2. uploadReq' = [uploadReq EXCEPT ![h] = [uploadReq[h] EXCEPT !.at = at, !.rec = r]]
    BY <1>2 DEF GoesWith, UploadTypeOK
  <2>3. QED
    BY <2>1, <2>2 DEF UploadTypeOK, UploadRequest
<1>3. QED
  BY <1>1, <1>2

LEMMA DoneTyped ==
  ASSUME UploadTypeOK, NEW h \in UploadHandlers, Done(h)
  PROVE  /\ uploadReq' \in [UploadHandlers -> UploadRequest \cup {UploadIdle}]
         /\ uploadReq'[h] = UploadIdle
         /\ \A g \in UploadHandlers \ {h} : uploadReq'[g] = uploadReq[g]
  BY DEF UploadTypeOK, Done

LEMMA InitTInv == UploadInit => TInv
  BY EdgesTyped, UploadBoundAssumption, PlanAssumption
  DEF UploadInit, TInv, UploadTypeOK, Record, PathTo, UploadIdle, Appending

\* What a step of one handler leaves of the others.
LEMMA OthersAppend ==
  ASSUME TInv, NEW h \in UploadHandlers, uploadReq'[h].at # "append",
         uploadReq'[h].at \in Early => uploadReq'[h].put = 0,
         \A g \in UploadHandlers \ {h} : uploadReq'[g] = uploadReq[g]
  PROVE  \A g \in UploadHandlers : Appending(g)'
  BY DEF TInv, Appending

\* A file that is cut back, or a chunk, is a sequence of bytes.
LEMMA ResizedTyped ==
  ASSUME NEW s \in Seq(0 .. FileSize), NEW n \in 0 .. FileSize
  PROVE  Resized(s, n) \in Seq(0 .. FileSize)
<1>1. \A i \in 1 .. n : i <= Len(s) => s[i] \in 0 .. FileSize
  BY EdgesTyped
<1>2. Resized(s, n) \in [1 .. n -> 0 .. FileSize]
  BY <1>1, EdgesTyped DEF Resized
<1>3. n \in Nat
  BY EdgesTyped
<1>4. QED
  BY <1>2, <1>3, SeqDef

LEMMA ChunkTyped == Chunk(0) \in Seq(0 .. FileSize)
<1> DEFINE n == Edge[0 + 1] - Edge[0]
<1>1. Edge[0] \in Nat /\ Edge[0 + 1] \in Nat /\ Edge[0 + 1] <= FileSize /\ n \in Nat
  BY EdgesTyped, PlanAssumption
<1>2. Chunk(0) \in [1 .. n -> 0 .. FileSize]
  BY <1>1, EdgesTyped DEF Chunk
<1>3. QED
  BY <1>1, <1>2, SeqDef

LEMMA MessageTyped ==
  ASSUME sent \in [Names -> 0 .. MaxSent], NEW n, CreateMessage(n)
  PROVE  sent' \in [Names -> 0 .. MaxSent]
<1>1. \A m \in 0 .. MaxSent : (IF m < MaxSent THEN m + 1 ELSE m) \in 0 .. MaxSent
  BY UploadBoundAssumption
<1>2. CASE n \in Names
  <2>1. sent' = [sent EXCEPT ![n] = IF sent[n] < MaxSent THEN sent[n] + 1 ELSE sent[n]]
    BY <1>2 DEF CreateMessage
  <2>2. QED
    BY <1>1, <1>2, <2>1
<1>3. CASE n \notin Names
  <2>1. sent' = sent
    BY <1>3 DEF CreateMessage
  <2>2. QED
    BY <2>1
<1>4. QED
  BY <1>2, <1>3

LEMMA NextTInv == TInv /\ [UploadNext]_uploadVars => TInv'
<1> SUFFICES ASSUME TInv, [UploadNext]_uploadVars
             PROVE  TInv'
  OBVIOUS
<1> USE DEF disk
<1>t. UploadTypeOK
  BY DEF TInv
<1>1. ASSUME NEW h \in UploadHandlers, BeginUpload(h)
      PROVE  TInv'
  <2>1. PICK op \in {"status", "upload", "finalize", "cancel"}, k \in 0 .. Chunks - 1 :
          Read(h, op, k)
    BY <1>1, PlanAssumption DEF BeginUpload
  <2>2. meta \in Record
    BY <1>t, <2>1 DEF UploadTypeOK, Read
  <2> DEFINE r == [op |-> op, at |-> "stat", chunk |-> k, rec |-> meta, fd |-> NoFile, put |-> 0]
  <2>3. r \in UploadRequest
    BY <2>2 DEF UploadRequest, PathTo
  <2>4. uploadReq' = [uploadReq EXCEPT ![h] = r]
    BY <2>1 DEF Read
  <2>5. UNCHANGED <<meta, bytes, assembled, final, sent>>
    BY <2>1 DEF Read
  <2>6. uploadReq'[h] = r /\ \A g \in UploadHandlers \ {h} : uploadReq'[g] = uploadReq[g]
    BY <1>t, <2>4 DEF UploadTypeOK
  <2>7. uploadReq' \in [UploadHandlers -> UploadRequest \cup {UploadIdle}]
    BY <1>t, <2>3, <2>4 DEF UploadTypeOK
  <2>8. UploadTypeOK'
    BY <1>t, <2>5, <2>7 DEF UploadTypeOK, Record
  <2>9. uploadReq'[h].at # "append" /\ uploadReq'[h].put = 0
    BY <2>6
  <2>10. QED
    BY <2>6, <2>8, <2>9, OthersAppend DEF TInv
<1>2. ASSUME NEW h \in UploadHandlers, uploadReq[h] \in UploadRequest, NEW at \in Places \ {"append"},
             NEW r \in Record, Goes(h, at) \/ GoesWith(h, at, r),
             at \in Early => uploadReq[h].at \in Early,
             meta' \in Record \cup {Torn}, bytes' \in [Files -> Seq(0 .. FileSize)],
             assembled' \in PathTo, final' \in [Names -> PathTo],
             sent' \in [Names -> 0 .. MaxSent]
      PROVE  TInv'
  <2>1. /\ uploadReq' \in [UploadHandlers -> UploadRequest \cup {UploadIdle}]
        /\ uploadReq'[h].at = at /\ uploadReq'[h].put = uploadReq[h].put
        /\ \A g \in UploadHandlers \ {h} : uploadReq'[g] = uploadReq[g]
    BY <1>t, <1>2, GoesTyped
  <2>2. UploadTypeOK'
    BY <1>2, <2>1 DEF UploadTypeOK, Record
  <2>3. at \in Early => uploadReq[h].put = 0
    BY <1>2 DEF TInv, Appending
  <2>4. QED
    BY <2>1, <2>2, <2>3, OthersAppend DEF TInv
<1>3. ASSUME NEW h \in UploadHandlers, Done(h),
             meta' \in Record \cup {Torn}, bytes' \in [Files -> Seq(0 .. FileSize)],
             assembled' \in PathTo, final' \in [Names -> PathTo],
             sent' \in [Names -> 0 .. MaxSent]
      PROVE  TInv'
  <2>1. /\ uploadReq' \in [UploadHandlers -> UploadRequest \cup {UploadIdle}]
        /\ uploadReq'[h] = UploadIdle
        /\ \A g \in UploadHandlers \ {h} : uploadReq'[g] = uploadReq[g]
    BY <1>t, <1>3, DoneTyped
  <2>2. UploadTypeOK'
    BY <1>3, <2>1 DEF UploadTypeOK, Record
  <2>3. uploadReq'[h].at = "end"
    BY <2>1 DEF UploadIdle
  <2>4. QED
    BY <2>1, <2>2, <2>3, OthersAppend DEF TInv, Early
<1>4. ASSUME NEW h \in UploadHandlers, ProceedUpload(h)
      PROVE  TInv'
  <2>r. uploadReq[h] \in UploadRequest /\ uploadReq[h].rec \in Record
    <3>1. uploadReq[h] # UploadIdle \/ uploadReq[h].at # "end"
      BY <1>4 DEF ProceedUpload, Stat, Cut, WriteRecord, Writes, Answer, Over, StartChunk, PlaceFirst,
              Open, AppendByte, CheckAppended, StartFinalize, Look, UnlinkFinal, Verify, Move,
              Send, StartCancel, Clean, UploadIdle
    <3>2. QED
      BY <1>t, <3>1, UploadBusyTyped, SMTT(40)
  <2>s. /\ meta \in Record \cup {Torn} /\ bytes \in [Files -> Seq(0 .. FileSize)]
        /\ assembled \in PathTo /\ final \in [Names -> PathTo]
        /\ sent \in [Names -> 0 .. MaxSent] /\ uploadReq \in [UploadHandlers -> UploadRequest \cup {UploadIdle}]
    BY <1>t DEF UploadTypeOK
  <2>1. CASE Stat(h)
    <3> DEFINE n == IF assembled = NoFile THEN 0 ELSE Len(bytes[assembled])
               k == Filled(n)
               r == [uploadReq[h].rec EXCEPT !.chunks = k]
               at == IF n # Edge[k] THEN "cut" ELSE IF uploadReq[h].rec.chunks # k THEN "repair" ELSE "synced"
    <3>1. n \in Nat
      BY <2>s DEF PathTo
    <3>2. k \in 0 .. Chunks
      BY <3>1, FilledFits
    <3>3. r \in Record
      BY <2>r, <3>2, RecordTyped
    <3>4. at \in Places \ {"append"}
      BY DEF Places
    <3>5. /\ uploadReq[h].at \in Early /\ GoesWith(h, at, r)
          /\ UNCHANGED <<meta, bytes, assembled, final, sent>>
      BY <2>1 DEF Stat, Early
    <3> HIDE DEF r, at
    <3>6. QED
      BY <1>2, <2>r, <2>s, <3>3, <3>4, <3>5
  <2>2. CASE Cut(h)
    <3> DEFINE n == Edge[uploadReq[h].rec.chunks]
    <3>0. uploadReq[h].rec.chunks \in 0 .. Chunks
      BY <2>r, RecordTyped
    <3>1. n \in 0 .. FileSize /\ assembled \in Files
      BY <2>2, <2>s, <3>0, EdgesTyped DEF Cut, PathTo
    <3>2. Resized(bytes[assembled], n) \in Seq(0 .. FileSize)
      BY <2>s, <3>1, ResizedTyped
    <3>3. bytes' \in [Files -> Seq(0 .. FileSize)]
      BY <2>2, <2>s, <3>1, <3>2 DEF Cut
    <3>4. QED
      BY <1>2, <2>2, <2>r, <2>s, <3>3 DEF Cut, Places, Early
  <2>3. CASE WriteRecord(h)
    <3>1. meta' \in Record /\ UNCHANGED <<bytes, assembled, final, sent>>
      BY <2>3, <2>r DEF WriteRecord
    <3>2. CASE uploadReq[h].at = "save"
      BY <1>3, <2>3, <2>s, <3>1, <3>2 DEF WriteRecord
    <3>3. CASE uploadReq[h].at # "save"
      <4>1. /\ AfterWrite(uploadReq[h].at) \in Places \ {"append"}
            /\ AfterWrite(uploadReq[h].at) \in Early => uploadReq[h].at \in Early
        BY <2>3, <3>3 DEF WriteRecord, Writes, AfterWrite, Places, Early
      <4>2. Goes(h, AfterWrite(uploadReq[h].at))
        BY <2>3, <3>3 DEF WriteRecord
      <4>3. QED
        BY <1>2, <2>r, <2>s, <3>1, <4>1, <4>2
    <3>4. QED
      BY <3>2, <3>3
  <2>4. CASE Answer(h)
    BY <1>3, <2>4, <2>s DEF Answer
  <2>5. CASE StartChunk(h)
    <3>1. PICK at \in {"place", "open"} : Goes(h, at) /\ assembled' \in {assembled, NoFile}
      BY <2>5 DEF StartChunk
    <3>2. uploadReq[h].at \in Early /\ UNCHANGED <<meta, bytes, final, sent>>
      BY <2>5 DEF StartChunk, Early
    <3>3. QED
      BY <1>2, <2>r, <2>s, <3>1, <3>2 DEF Places, PathTo
  <2>6. CASE PlaceFirst(h)
    <3>1. PICK f \in Files : bytes' = [bytes EXCEPT ![f] = Chunk(0)] /\ assembled' = f
      BY <2>6 DEF PlaceFirst
    <3>2. Chunk(0) \in Seq(0 .. FileSize)
      BY ChunkTyped
    <3>3. bytes' \in [Files -> Seq(0 .. FileSize)] /\ assembled' \in PathTo
      BY <2>s, <3>1, <3>2 DEF PathTo
    <3>4. [uploadReq[h].rec EXCEPT !.chunks = 1] \in Record
      <4>1. 1 \in 0 .. Chunks
        BY PlanAssumption
      <4>2. QED
        BY <2>r, <4>1, RecordTyped
    <3>5. QED
      BY <1>2, <2>6, <2>r, <2>s, <3>3, <3>4 DEF PlaceFirst, Places, Early
  <2>7. CASE Open(h)
    <3>1. PICK f \in Files :
            /\ bytes' = [bytes EXCEPT ![f] = <<>>] \/ UNCHANGED bytes
            /\ assembled' = f
            /\ uploadReq' = [uploadReq EXCEPT ![h].at = "append", ![h].fd = f]
      BY <2>7 DEF Open
    <3> DEFINE r == [uploadReq[h] EXCEPT !.at = "append", !.fd = f]
    <3>2. r \in UploadRequest
      BY <2>r DEF UploadRequest, PathTo
    <3>3. uploadReq' = [uploadReq EXCEPT ![h] = r]
      BY <2>s, <3>1
    <3>4. <<>> \in Seq(0 .. FileSize)
      OBVIOUS
    <3>5. UploadTypeOK'
      BY <2>7, <2>s, <3>1, <3>2, <3>3, <3>4, ZenonT(60) DEF UploadTypeOK, Open, PathTo, Record
    <3>6. Edge[uploadReq[h].chunk] + uploadReq[h].put < Edge[uploadReq[h].chunk + 1]
      <4>1. uploadReq[h].put = 0
        BY <2>7 DEF TInv, Appending, Open, Early
      <4>2. uploadReq[h].chunk \in 0 .. Chunks - 1
        BY <2>r DEF UploadRequest
      <4>3. Edge[uploadReq[h].chunk] \in Nat /\ Edge[uploadReq[h].chunk] < Edge[uploadReq[h].chunk + 1]
        <5>1. uploadReq[h].chunk \in 0 .. Chunks
          BY <4>2, PlanAssumption
        <5>2. QED
          BY <4>2, <5>1, EdgesTyped
      <4>4. QED
        BY <4>1, <4>3
    <3>7. \A g \in UploadHandlers : Appending(g)'
      BY <2>s, <3>3, <3>6 DEF TInv, Appending, UploadRequest, Early
    <3>8. QED
      BY <3>5, <3>7 DEF TInv
  <2>8. CASE AppendByte(h)
    <3> DEFINE k == uploadReq[h].chunk
               p == uploadReq[h].put + 1
               f == uploadReq[h].fd
               last == Edge[k] + p = Edge[k + 1]
               r == [uploadReq[h] EXCEPT !.put = p, !.at = IF last THEN "check" ELSE "append",
                                   !.fd = IF last THEN NoFile ELSE f]
    <3>1. /\ uploadReq[h].at = "append"
          /\ bytes' = [bytes EXCEPT ![f] = Append(@, Edge[k] + p)]
          /\ UNCHANGED <<meta, assembled, final, sent>>
      BY <2>8 DEF AppendByte
    <3>2. uploadReq' = [uploadReq EXCEPT ![h] = r]
      BY <2>8, <2>s DEF AppendByte
    <3>3. f \in Files /\ Edge[k] + uploadReq[h].put < Edge[k + 1]
      BY <3>1 DEF TInv, Appending
    <3>4. k \in 0 .. Chunks - 1 /\ uploadReq[h].put \in Nat
      BY <2>r DEF UploadRequest
    <3>5. /\ Edge[k] \in Nat /\ Edge[k + 1] \in Nat /\ Edge[k + 1] <= FileSize
          /\ FileSize \in Nat
      <4>1. k \in 0 .. Chunks /\ k + 1 \in 0 .. Chunks
        BY <3>4, PlanAssumption
      <4>2. QED
        BY <4>1, EdgesTyped
    <3>6. p \in Nat /\ Edge[k] + p \in 0 .. FileSize /\ (~last => Edge[k] + p < Edge[k + 1])
      BY <3>3, <3>4, <3>5
    <3>7. r \in UploadRequest
      BY <2>r, <3>3, <3>6 DEF UploadRequest, PathTo
    <3>8. Append(bytes[f], Edge[k] + p) \in Seq(0 .. FileSize)
      BY <2>s, <3>3, <3>6
    <3>9. bytes' \in [Files -> Seq(0 .. FileSize)]
      BY <2>s, <3>1, <3>3, <3>8
    <3>10. UploadTypeOK'
      BY <2>s, <3>1, <3>2, <3>7, <3>9 DEF UploadTypeOK, Record
    <3>11. ASSUME NEW g \in UploadHandlers
           PROVE  Appending(g)'
      <4>1. CASE g # h
        BY <2>s, <3>2, <4>1 DEF TInv, Appending
      <4>2. CASE g = h
        <5>1. uploadReq'[h] = r
          BY <2>s, <3>2
        <5>2. /\ r.at = IF last THEN "check" ELSE "append"
              /\ r.put = p /\ r.chunk = k /\ (~last => r.fd = f)
          BY <2>r DEF UploadRequest
        <5>3. r.at = "append" => r.fd \in Files /\ Edge[r.chunk] + r.put < Edge[r.chunk + 1]
          BY <3>3, <3>6, <5>2
        <5>4. r.at \notin Early
          BY <5>2 DEF Early
        <5> HIDE DEF r
        <5>5. QED
          BY <4>2, <5>1, <5>3, <5>4 DEF Appending
      <4>3. QED
        BY <4>1, <4>2
    <3>12. QED
      BY <3>10, <3>11 DEF TInv
  <2>9. CASE CheckAppended(h)
    <3>1. uploadReq[h].chunk + 1 \in 0 .. Chunks
      <4>1. uploadReq[h].chunk \in 0 .. Chunks - 1
        BY <2>r DEF UploadRequest
      <4>2. QED
        BY <4>1, PlanAssumption
    <3>2. [uploadReq[h].rec EXCEPT !.chunks = uploadReq[h].chunk + 1] \in Record
      BY <2>r, <3>1, RecordTyped
    <3>3. QED
      BY <1>2, <2>9, <2>r, <2>s, <3>2 DEF CheckAppended, Places, Early
  <2>10. CASE StartFinalize(h)
    <3>1. UNCHANGED <<meta, bytes, assembled, final, sent>>
      BY <2>10 DEF StartFinalize
    <3>2. CASE Goes(h, "look")
      BY <1>2, <2>r, <2>s, <3>1, <3>2 DEF Places, Early
    <3>3. CASE \E n \in Names : GoesWith(h, "name", [uploadReq[h].rec EXCEPT !.name = n])
      BY <1>2, <2>r, <2>s, <3>1, <3>3, RecordTyped DEF Places, Early
    <3>4. QED
      BY <2>10, <3>2, <3>3 DEF StartFinalize
  <2>11. CASE Look(h)
    <3>1. PICK at \in {"verify", "send", "drop"} : Goes(h, at)
      BY <2>11 DEF Look
    <3>2. QED
      BY <1>2, <2>11, <2>r, <2>s, <3>1 DEF Look, Places, Early
  <2>12. CASE UnlinkFinal(h)
    <3>1. final' \in [Names -> PathTo] /\ UNCHANGED <<meta, bytes, assembled, sent>>
      BY <2>12, <2>s DEF UnlinkFinal, PathTo
    <3>2. Goes(h, "verify") \/ Goes(h, "move") \/ Done(h)
      BY <2>12 DEF UnlinkFinal
    <3>3. QED
      BY <1>2, <1>3, <2>r, <2>s, <3>1, <3>2 DEF Places, Early
  <2>13. CASE Verify(h)
    BY <1>2, <2>13, <2>r, <2>s DEF Verify, Places, Early
  <2>14. CASE Move(h)
    <3>1. final' \in [Names -> PathTo] /\ assembled' \in PathTo
      BY <2>14, <2>s DEF Move, PathTo
    <3>2. QED
      BY <1>2, <2>14, <2>r, <2>s, <3>1 DEF Move, Places, Early
  <2>15. CASE Send(h)
    <3>1. sent' \in [Names -> 0 .. MaxSent]
      BY <2>15, <2>s, MessageTyped DEF Send
    <3>2. [uploadReq[h].rec EXCEPT !.status = "completed"] \in Record
      BY <2>r, RecordTyped
    <3>3. QED
      BY <1>2, <2>15, <2>r, <2>s, <3>1, <3>2 DEF Send, Places, Early
  <2>16. CASE StartCancel(h)
    BY <1>2, <2>16, <2>r, <2>s, RecordTyped DEF StartCancel, Places, Early
  <2>17. CASE Clean(h)
    BY <1>3, <2>17, <2>s DEF Clean, PathTo
  <2>18. QED
    BY <1>4, <2>1, <2>2, <2>3, <2>4, <2>5, <2>6, <2>7, <2>8, <2>9, <2>10, <2>11, <2>12,
       <2>13, <2>14, <2>15, <2>16, <2>17 DEF ProceedUpload
<1>5. ASSUME NEW h \in UploadHandlers, FailUpload(h)
      PROVE  TInv'
  <2>s. /\ meta \in Record \cup {Torn} /\ bytes \in [Files -> Seq(0 .. FileSize)]
        /\ assembled \in PathTo /\ final \in [Names -> PathTo]
        /\ sent \in [Names -> 0 .. MaxSent] /\ uploadReq \in [UploadHandlers -> UploadRequest \cup {UploadIdle}]
    BY <1>t DEF UploadTypeOK
  <2>1. CASE Abort(h)
    BY <1>3, <2>1, <2>s DEF Abort
  <2>2. CASE TearRecord(h)
    BY <1>3, <2>2, <2>s DEF TearRecord
  <2>3. CASE SendFails(h)
    <3>1. sent' \in [Names -> 0 .. MaxSent]
      BY <2>3, <2>s, MessageTyped DEF SendFails
    <3>2. uploadReq[h] \in UploadRequest /\ uploadReq[h].rec \in Record
      BY <1>t, <2>3, UploadBusyTyped DEF SendFails
    <3>3. QED
      BY <1>2, <2>3, <2>s, <3>1, <3>2 DEF SendFails, Places, Early
  <2>4. QED
    BY <1>5, <2>1, <2>2, <2>3 DEF FailUpload
<1>6. CASE UNCHANGED uploadVars
  BY <1>6 DEF uploadVars, TInv, UploadTypeOK, Record, Appending
<1>7. QED
  BY <1>1, <1>4, <1>5, <1>6 DEF UploadNext

\* The record, the files and the requests in flight keep their types.
THEOREM UploadTypeCorrect == UploadSpec => []UploadTypeOK
<1>1. TInv => UploadTypeOK
  BY DEF TInv
<1>2. QED
  BY <1>1, InitTInv, NextTInv, PTL DEF UploadSpec

--------------------------------------------------------------------------------
(***************************************************************************)
(* A record that is marked completed, on disk or in a handler's hands,     *)
(* names an attachment that a message was created with.                    *)
(***************************************************************************)
HasMessage(r) == r.name # NoName /\ sent[r.name] > 0

Finalizing == {"name", "look", "drop", "verify", "free", "move", "send", "undo"}

Backed(h) ==
  /\ uploadReq[h].rec.status = "completed" => HasMessage(uploadReq[h].rec)
  /\ uploadReq[h].at \in Finalizing => uploadReq[h].rec.name # NoName

MInv ==
  /\ TInv
  /\ meta.status = "completed" => HasMessage(meta)
  /\ \A h \in UploadHandlers : Backed(h)

LEMMA InitMInv == UploadInit => MInv
  BY InitTInv DEF UploadInit, MInv, Backed, UploadIdle, Torn, Finalizing

\* Messages are not taken back.
StillHas(r) == r.name # NoName /\ sent'[r.name] > 0

LEMMA SentKept ==
  ASSUME MInv, [UploadNext]_uploadVars, NEW r, HasMessage(r), r.name \in Names \cup {NoName}
  PROVE  StillHas(r)
<1>t. sent \in [Names -> 0 .. MaxSent]
  BY DEF MInv, TInv, UploadTypeOK
<1>1. CASE UNCHANGED sent
  BY <1>1 DEF HasMessage, StillHas
<1>2. CASE \E n \in Names \cup {NoName} : CreateMessage(n)
  <2>1. PICK n \in Names \cup {NoName} : CreateMessage(n)
    BY <1>2
  <2>2. sent' = [sent EXCEPT ![n] = IF sent[n] < MaxSent THEN sent[n] + 1 ELSE sent[n]]
    BY <1>t, <2>1, UploadNullAssumption DEF CreateMessage
  <2>3. \A m \in Names : sent[m] > 0 => sent'[m] > 0
    BY <1>t, <2>2, UploadBoundAssumption, SMTT(40)
  <2>4. QED
    BY <2>3 DEF HasMessage, StillHas
<1>3. UNCHANGED sent \/ \E n \in Names \cup {NoName} : CreateMessage(n)
  <2>1. ASSUME NEW h \in UploadHandlers, Send(h) \/ SendFails(h)
        PROVE  UNCHANGED sent \/ \E n \in Names \cup {NoName} : CreateMessage(n)
    <3>1. uploadReq[h].rec.name \in Names \cup {NoName}
      BY <2>1, UploadBusyTyped DEF MInv, TInv, Send, SendFails, Record
    <3>2. QED
      BY <2>1, <3>1 DEF Send, SendFails
  <2>2. QED
    BY <2>1, ZenonT(40) DEF UploadNext, uploadVars, disk, BeginUpload, ProceedUpload, FailUpload, Read, Stat, Cut, WriteRecord, Answer, StartChunk,
       PlaceFirst, Open, AppendByte, CheckAppended, StartFinalize, Look, UnlinkFinal, Verify, Move,
       StartCancel, Clean, Abort, TearRecord
<1>4. QED
  BY <1>1, <1>2, <1>3

\* What a step leaves of the handlers that do not take it.
LEMMA OthersBacked ==
  ASSUME MInv, [UploadNext]_uploadVars, NEW h \in UploadHandlers,
         \A g \in UploadHandlers \ {h} : uploadReq'[g] = uploadReq[g],
         uploadReq'[h].rec.status = "completed" => StillHas(uploadReq'[h].rec),
         uploadReq'[h].at \in Finalizing => uploadReq'[h].rec.name # NoName
  PROVE  \A g \in UploadHandlers : Backed(g)'
<1>1. ASSUME NEW g \in UploadHandlers, uploadReq[g].rec.status = "completed"
      PROVE  StillHas(uploadReq[g].rec)
  <2>1. uploadReq[g] # UploadIdle
    BY <1>1 DEF UploadIdle, Torn
  <2>2. uploadReq[g].rec.name \in Names \cup {NoName}
    BY <2>1, UploadBusyTyped, RecordTyped DEF MInv, TInv
  <2>3. HasMessage(uploadReq[g].rec)
    BY <1>1 DEF MInv, Backed
  <2>4. QED
    BY <2>2, <2>3, SentKept
<1>2. QED
  BY <1>1 DEF MInv, Backed, HasMessage, StillHas

LEMMA NextMInv == MInv /\ [UploadNext]_uploadVars => MInv'
<1> SUFFICES ASSUME MInv, [UploadNext]_uploadVars
             PROVE  MInv'
  OBVIOUS
<1>t. TInv /\ TInv' /\ UploadTypeOK
  BY NextTInv DEF MInv, TInv
<1>m. meta.status = "completed" => StillHas(meta)
  <2>1. CASE meta = Torn
    BY <2>1 DEF Torn
  <2>2. CASE meta \in Record
    BY <2>2, SentKept, RecordTyped DEF MInv
  <2>3. QED
    BY <1>t, <2>1, <2>2 DEF UploadTypeOK
<1>r. ASSUME NEW h \in UploadHandlers, uploadReq[h].rec.status = "completed"
      PROVE  StillHas(uploadReq[h].rec)
  <2>1. uploadReq[h] # UploadIdle
    BY <1>r DEF UploadIdle, Torn
  <2>2. uploadReq[h].rec.name \in Names \cup {NoName}
    BY <1>t, <2>1, UploadBusyTyped, RecordTyped
  <2>3. HasMessage(uploadReq[h].rec)
    BY <1>r DEF MInv, Backed
  <2>4. QED
    BY <2>2, <2>3, SentKept
<1>1. ASSUME NEW h \in UploadHandlers, uploadReq[h] \in UploadRequest, NEW at \in Places, NEW r \in Record,
             GoesWith(h, at, r) \/ (Goes(h, at) /\ r = uploadReq[h].rec),
             r.status = "completed" => StillHas(r),
             at \in Finalizing => r.name # NoName,
             meta' = meta \/ meta' = uploadReq[h].rec
      PROVE  MInv'
  <2>1. /\ uploadReq'[h].at = at /\ uploadReq'[h].rec = r
        /\ \A g \in UploadHandlers \ {h} : uploadReq'[g] = uploadReq[g]
    BY <1>t, <1>1 DEF UploadTypeOK, Goes, GoesWith, UploadRequest
  <2>2. \A g \in UploadHandlers : Backed(g)'
    BY <1>1, <2>1, OthersBacked
  <2>3. meta'.status = "completed" => HasMessage(meta)'
    BY <1>1, <1>m, <1>r DEF StillHas, HasMessage
  <2>4. QED
    BY <1>t, <2>2, <2>3 DEF MInv
<1>2. ASSUME NEW h \in UploadHandlers, Done(h),
             meta' \in {meta, Torn} \/ meta' = uploadReq[h].rec
      PROVE  MInv'
  <2>1. uploadReq'[h] = UploadIdle /\ \A g \in UploadHandlers \ {h} : uploadReq'[g] = uploadReq[g]
    BY <1>t, <1>2, DoneTyped
  <2>2. \A g \in UploadHandlers : Backed(g)'
    BY <2>1, OthersBacked DEF UploadIdle, Torn, Finalizing
  <2>3. meta'.status = "completed" => HasMessage(meta)'
    BY <1>2, <1>m, <1>r DEF StillHas, HasMessage, Torn
  <2>4. QED
    BY <1>t, <2>2, <2>3 DEF MInv
<1>3. ASSUME NEW h \in UploadHandlers, BeginUpload(h)
      PROVE  MInv'
  <2>1. PICK op, k : Read(h, op, k)
    BY <1>3 DEF BeginUpload
  <2>2. /\ uploadReq'[h].rec = meta /\ uploadReq'[h].at = "stat"
        /\ \A g \in UploadHandlers \ {h} : uploadReq'[g] = uploadReq[g]
        /\ meta' = meta
    BY <1>t, <2>1 DEF Read, UploadTypeOK
  <2>3. \A g \in UploadHandlers : Backed(g)'
    BY <1>m, <2>2, OthersBacked DEF Finalizing
  <2>4. QED
    BY <1>t, <1>m, <2>2, <2>3 DEF MInv, StillHas, HasMessage
<1>4. ASSUME NEW h \in UploadHandlers, ProceedUpload(h)
      PROVE  MInv'
  <2>r. uploadReq[h] \in UploadRequest /\ uploadReq[h].rec \in Record
    <3>1. uploadReq[h] # UploadIdle \/ uploadReq[h].at # "end"
      BY <1>4 DEF ProceedUpload, Stat, Cut, WriteRecord, Writes, Answer, Over, StartChunk, PlaceFirst,
              Open, AppendByte, CheckAppended, StartFinalize, Look, UnlinkFinal, Verify, Move,
              Send, StartCancel, Clean, UploadIdle
    <3>2. QED
      BY <1>t, <3>1, UploadBusyTyped, SMTT(40)
  <2> DEFINE r == uploadReq[h].rec
  <2>s. /\ r.status = "completed" => StillHas(r)
        /\ uploadReq[h].at \in Finalizing => r.name # NoName
    BY <1>r DEF MInv, Backed
  <2>c. ASSUME NEW k \in 0 .. Chunks
        PROVE  LET q == [r EXCEPT !.chunks = k]
               IN  /\ q \in Record /\ q.name = r.name /\ q.status = r.status
                   /\ q.status = "completed" => StillHas(q)
    BY <2>r, <2>s DEF Record, StillHas
  <2>1. CASE Stat(h)
    <3> DEFINE n == IF assembled = NoFile THEN 0 ELSE Len(bytes[assembled])
               k == Filled(n)
               q == [r EXCEPT !.chunks = k]
               at == IF n # Edge[k] THEN "cut" ELSE IF r.chunks # k THEN "repair" ELSE "synced"
    <3>1. n \in Nat
      BY <1>t DEF UploadTypeOK, PathTo
    <3>2. k \in 0 .. Chunks
      BY <3>1, FilledFits
    <3>3. q \in Record /\ (q.status = "completed" => StillHas(q))
      BY <2>c, <3>2
    <3>4. at \in Places /\ at \notin Finalizing
      BY DEF Places, Finalizing
    <3>5. GoesWith(h, at, q) /\ meta' = meta
      BY <2>1 DEF Stat
    <3> HIDE DEF q, at
    <3>6. QED
      BY <1>1, <2>r, <3>3, <3>4, <3>5
  <2>2. CASE Cut(h) \/ StartChunk(h) \/ Look(h) \/ Verify(h) \/ Move(h)
    <3>1. PICK at \in Places : Goes(h, at) /\ (at \in Finalizing => uploadReq[h].at \in Finalizing)
      BY <2>2 DEF Cut, StartChunk, Look, Verify, Move, Places, Finalizing
    <3>2. meta' = meta
      BY <2>2 DEF Cut, StartChunk, Look, Verify, Move, disk
    <3>3. QED
      BY <1>1, <2>r, <2>s, <3>1, <3>2
  <2>3. CASE WriteRecord(h)
    <3>1. meta' = r
      BY <2>3 DEF WriteRecord
    <3>2. CASE uploadReq[h].at = "save"
      BY <1>2, <2>3, <3>1, <3>2 DEF WriteRecord
    <3>3. CASE uploadReq[h].at # "save"
      <4>1. /\ AfterWrite(uploadReq[h].at) \in Places
            /\ AfterWrite(uploadReq[h].at) \in Finalizing => uploadReq[h].at \in Finalizing
        BY <2>3, <3>3 DEF WriteRecord, Writes, AfterWrite, Places, Finalizing
      <4>2. Goes(h, AfterWrite(uploadReq[h].at))
        BY <2>3, <3>3 DEF WriteRecord
      <4>3. QED
        BY <1>1, <2>r, <2>s, <3>1, <4>1, <4>2
    <3>4. QED
      BY <3>2, <3>3
  <2>4. CASE Answer(h) \/ Clean(h)
    BY <1>2, <2>4 DEF Answer, Clean
  <2>5. CASE PlaceFirst(h)
    <3>1. 1 \in 0 .. Chunks
      BY PlanAssumption
    <3>2. GoesWith(h, "save", [r EXCEPT !.chunks = 1]) /\ meta' = meta
      BY <2>5 DEF PlaceFirst
    <3>3. QED
      BY <1>1, <2>r, <2>c, <3>1, <3>2 DEF Places, Finalizing
  <2>6. CASE CheckAppended(h)
    <3>1. uploadReq[h].chunk + 1 \in 0 .. Chunks
      <4>1. uploadReq[h].chunk \in 0 .. Chunks - 1
        BY <2>r DEF UploadRequest
      <4>2. QED
        BY <4>1, PlanAssumption
    <3>2. GoesWith(h, "save", [r EXCEPT !.chunks = uploadReq[h].chunk + 1]) /\ meta' = meta
      BY <2>6 DEF CheckAppended
    <3>3. QED
      BY <1>1, <2>r, <2>c, <3>1, <3>2 DEF Places, Finalizing
  <2>7. CASE Open(h) \/ AppendByte(h)
    <3>1. /\ uploadReq'[h].rec = r /\ uploadReq'[h].at \notin Finalizing
          /\ \A g \in UploadHandlers \ {h} : uploadReq'[g] = uploadReq[g]
          /\ meta' = meta
      BY <1>t, <2>7, <2>r DEF Open, AppendByte, UploadTypeOK, UploadRequest, Finalizing
    <3>2. \A g \in UploadHandlers : Backed(g)'
      BY <2>s, <3>1, OthersBacked
    <3>3. QED
      BY <1>t, <1>m, <3>1, <3>2 DEF MInv, StillHas, HasMessage
  <2>8. CASE StartFinalize(h)
    <3>1. meta' = meta /\ r.status = "pending"
      BY <2>8 DEF StartFinalize
    <3>2. CASE r.name # NoName /\ Goes(h, "look")
      BY <1>1, <2>r, <3>1, <3>2 DEF Places
    <3>3. ASSUME NEW n \in Names, GoesWith(h, "name", [r EXCEPT !.name = n])
          PROVE  MInv'
      <4> DEFINE q == [r EXCEPT !.name = n]
      <4>1. q \in Record /\ q.name = n /\ q.status = "pending"
        BY <2>r, <3>1 DEF Record
      <4>2. n # NoName
        BY UploadNullAssumption
      <4> HIDE DEF q
      <4>3. QED
        BY <1>1, <2>r, <3>1, <3>3, <4>1, <4>2 DEF Places, q
    <3>4. QED
      BY <2>8, <3>2, <3>3 DEF StartFinalize
  <2>9. CASE UnlinkFinal(h)
    <3>1. /\ uploadReq[h].at \in Finalizing /\ meta' = meta
          /\ Goes(h, "verify") \/ Goes(h, "move") \/ Done(h)
      BY <2>9 DEF UnlinkFinal, Finalizing
    <3>2. QED
      BY <1>1, <1>2, <2>r, <2>s, <3>1 DEF Places
  <2>10. CASE Send(h)
    <3> DEFINE q == [r EXCEPT !.status = "completed"]
    <3>1. /\ r.name # NoName /\ CreateMessage(r.name) /\ GoesWith(h, "complete", q)
          /\ meta' = meta
      BY <2>10, <2>s DEF Send, Finalizing
    <3>2. q \in Record /\ q.name = r.name
      BY <2>r DEF Record
    <3>3. sent'[r.name] > 0
      <4>1. r.name \in Names
        BY <2>r, <3>1, RecordTyped
      <4>2. sent \in [Names -> 0 .. MaxSent]
        BY <1>t DEF UploadTypeOK
      <4>3. sent'[r.name] = IF sent[r.name] < MaxSent THEN sent[r.name] + 1 ELSE sent[r.name]
        BY <3>1, <4>1, <4>2 DEF CreateMessage
      <4>4. QED
        BY <4>1, <4>2, <4>3, UploadBoundAssumption
    <3>4. StillHas(q)
      BY <3>1, <3>2, <3>3 DEF StillHas
    <3> HIDE DEF q
    <3>5. QED
      BY <1>1, <2>r, <3>1, <3>2, <3>4 DEF Places, Finalizing
  <2>11. CASE StartCancel(h)
    <3> DEFINE q == [r EXCEPT !.status = "cancelled"]
    <3>1. q \in Record /\ q.status # "completed"
      BY <2>r DEF Record
    <3>2. GoesWith(h, "cancel", q) /\ meta' = meta
      BY <2>11 DEF StartCancel
    <3> HIDE DEF q
    <3>3. QED
      BY <1>1, <2>r, <3>1, <3>2 DEF Places, Finalizing
  <2>12. QED
    BY <1>4, <2>1, <2>2, <2>3, <2>4, <2>5, <2>6, <2>7, <2>8, <2>9, <2>10, <2>11 DEF ProceedUpload
<1>5. ASSUME NEW h \in UploadHandlers, FailUpload(h)
      PROVE  MInv'
  <2>1. CASE Abort(h) \/ TearRecord(h)
    BY <1>2, <2>1 DEF Abort, TearRecord
  <2>2. CASE SendFails(h)
    <3>1. uploadReq[h] \in UploadRequest /\ uploadReq[h].rec \in Record
      BY <1>t, <2>2, UploadBusyTyped DEF SendFails
    <3>2. /\ uploadReq[h].rec.name # NoName /\ Goes(h, "undo") /\ meta' = meta
      BY <2>2 DEF SendFails, MInv, Backed, Finalizing
    <3>3. QED
      BY <1>1, <1>r, <3>1, <3>2 DEF Places
  <2>3. QED
    BY <1>5, <2>1, <2>2 DEF FailUpload
<1>6. CASE UNCHANGED uploadVars
  BY <1>t, <1>6 DEF uploadVars, MInv, HasMessage, Backed
<1>7. QED
  BY <1>3, <1>4, <1>5, <1>6 DEF UploadNext

\* However requests interleave and wherever they die, a session that is marked completed
\* names an attachment that a message was created with.
THEOREM CompletedWithMessage == UploadSpec => []CompletedHasMessage
<1>1. MInv => CompletedHasMessage
  BY DEF MInv, CompletedHasMessage, HasMessage
<1>2. QED
  BY <1>1, InitMInv, NextMInv, PTL DEF UploadSpec

--------------------------------------------------------------------------------
(***************************************************************************)
(* One request at a time.                                                  *)
(***************************************************************************)
\* No two requests are in flight.
UploadAlone == \A g, h \in UploadHandlers : uploadReq[g] # UploadIdle /\ uploadReq[h] # UploadIdle => g = h

\* A handler's copy of the record differs from the record on disk only in what the
\* handler is about to write.
Agrees(h) ==
  uploadReq[h] # UploadIdle =>
    /\ meta # Torn
    /\ uploadReq[h].at # "name" => uploadReq[h].rec.name = meta.name
    /\ uploadReq[h].at \in Finalizing => uploadReq[h].rec.status = "pending"
    /\ uploadReq[h].at = "complete" => uploadReq[h].rec.status = "completed" /\ meta.status = "pending"
    /\ uploadReq[h].at = "cancel" => uploadReq[h].rec.status = "cancelled" /\ meta.status # "completed"
    /\ uploadReq[h].at \notin {"complete", "cancel"} => uploadReq[h].rec.status = meta.status

\* What a handler has found out about the files still holds when it acts on it.
Holds(h) ==
  /\ uploadReq[h].at # "append" => uploadReq[h].fd = NoFile
  /\ uploadReq[h].at = "cut" => assembled # NoFile /\ Edge[uploadReq[h].rec.chunks] <= Len(bytes[assembled])
  /\ uploadReq[h].at = "open" => SizeIs(assembled, Edge[uploadReq[h].chunk])
  /\ uploadReq[h].at = "append" =>
       uploadReq[h].fd = assembled /\ SizeIs(assembled, Edge[uploadReq[h].chunk] + uploadReq[h].put)
  /\ uploadReq[h].at \in {"free", "move"} => SizeIs(assembled, FileSize)
  /\ uploadReq[h].at \in {"send", "complete"} => final[uploadReq[h].rec.name] # NoFile

\* Files are in order, and what is final is not appended to any more.
FilesStored ==
  /\ assembled # NoFile => InOrder(assembled)
  /\ \A n \in Names : final[n] # NoFile =>
       final[n] # assembled /\ InOrder(final[n]) /\ Len(bytes[final[n]]) = FileSize
  /\ meta.status = "completed" => final[meta.name] # NoFile

SerialUploadInv == MInv /\ UploadAlone /\ FilesStored /\ \A h \in UploadHandlers : Agrees(h) /\ Holds(h)

LEMMA SerialStep == [SerialUploadNext]_uploadVars => [UploadNext]_uploadVars
  BY DEF SerialUploadNext, UploadNext

LEMMA IdleFits ==
  ASSUME NEW h \in UploadHandlers, uploadReq[h] = UploadIdle
  PROVE  Agrees(h) /\ Holds(h)
  BY DEF Agrees, Holds, UploadIdle

LEMMA InitSInv == UploadInit => SerialUploadInv
  BY InitMInv, IdleFits DEF UploadInit, SerialUploadInv, UploadAlone, FilesStored

\* A step of the request in flight leaves the other handlers idle.
LEMMA SerialWrap ==
  ASSUME SerialUploadInv, MInv', NEW h \in UploadHandlers, uploadReq[h] # UploadIdle \/ UploadQuiet,
         \A g \in UploadHandlers \ {h} : uploadReq'[g] = uploadReq[g],
         Agrees(h)', Holds(h)', FilesStored'
  PROVE  SerialUploadInv'
<1>1. \A g \in UploadHandlers \ {h} : uploadReq'[g] = UploadIdle
  BY DEF SerialUploadInv, UploadAlone, UploadQuiet
<1>2. UploadAlone'
  BY <1>1 DEF UploadAlone
<1>3. ASSUME NEW g \in UploadHandlers \ {h}
      PROVE  Agrees(g)' /\ Holds(g)'
  BY <1>1 DEF Agrees, Holds, UploadIdle
<1>4. QED
  BY <1>2, <1>3 DEF SerialUploadInv

\* A handler that ends leaves nothing to agree on.
LEMMA SerialDone ==
  ASSUME SerialUploadInv, MInv', NEW h \in UploadHandlers, uploadReq[h] # UploadIdle, Done(h), FilesStored'
  PROVE  SerialUploadInv'
<1>1. uploadReq'[h] = UploadIdle /\ \A g \in UploadHandlers \ {h} : uploadReq'[g] = uploadReq[g]
  BY DoneTyped DEF SerialUploadInv, MInv, TInv
<1>2. Agrees(h)' /\ Holds(h)'
  BY <1>1 DEF Agrees, Holds, UploadIdle
<1>3. QED
  BY <1>1, <1>2, SerialWrap

\* The fields of a request that goes on.
LEMMA GoesFields ==
  ASSUME UploadTypeOK, NEW h \in UploadHandlers, uploadReq[h] \in UploadRequest, NEW at \in Places, NEW r \in Record,
         GoesWith(h, at, r) \/ (Goes(h, at) /\ r = uploadReq[h].rec)
  PROVE  /\ uploadReq'[h].at = at /\ uploadReq'[h].rec = r /\ uploadReq'[h].fd = uploadReq[h].fd
         /\ uploadReq'[h].put = uploadReq[h].put /\ uploadReq'[h].chunk = uploadReq[h].chunk /\ uploadReq'[h].op = uploadReq[h].op
         /\ uploadReq'[h] # UploadIdle
         /\ \A g \in UploadHandlers \ {h} : uploadReq'[g] = uploadReq[g]
  BY DEF UploadTypeOK, Goes, GoesWith, UploadRequest, Places, UploadIdle

\* The files are as before, and so is the record's status.
LEMMA SameFiles ==
  ASSUME FilesStored, UNCHANGED <<bytes, assembled, final>>,
         meta'.status = "completed" => final[meta'.name] # NoFile
  PROVE  FilesStored'
  BY DEF FilesStored, InOrder

\* A handler that goes on without touching the files or the record.
LEMMA SerialGoes ==
  ASSUME SerialUploadInv, MInv', NEW h \in UploadHandlers, uploadReq[h] # UploadIdle, NEW at \in Places, NEW r \in Record,
         GoesWith(h, at, r) \/ (Goes(h, at) /\ r = uploadReq[h].rec),
         UNCHANGED <<meta, bytes, assembled, final>>,
         uploadReq[h].at # "append" /\ at # "append",
         at # "name" => r.name = meta.name,
         at \in Finalizing => r.status = "pending",
         at = "complete" => r.status = "completed" /\ meta.status = "pending",
         at = "cancel" => r.status = "cancelled" /\ meta.status # "completed",
         at \notin {"complete", "cancel"} => r.status = meta.status,
         at = "cut" => assembled # NoFile /\ Edge[r.chunks] <= Len(bytes[assembled]),
         at = "open" => SizeIs(assembled, Edge[uploadReq[h].chunk]),
         at \in {"free", "move"} => SizeIs(assembled, FileSize),
         at \in {"send", "complete"} => final[r.name] # NoFile
  PROVE  SerialUploadInv'
<1>1. UploadTypeOK /\ uploadReq[h] \in UploadRequest
  BY UploadBusyTyped DEF SerialUploadInv, MInv, TInv
<1>2. /\ uploadReq'[h].at = at /\ uploadReq'[h].rec = r /\ uploadReq'[h].fd = uploadReq[h].fd
      /\ uploadReq'[h].chunk = uploadReq[h].chunk /\ \A g \in UploadHandlers \ {h} : uploadReq'[g] = uploadReq[g]
  BY <1>1, GoesFields
<1>3. meta # Torn /\ uploadReq[h].fd = NoFile
  BY DEF SerialUploadInv, Agrees, Holds
<1>4. Agrees(h)'
  BY <1>2, <1>3 DEF Agrees
<1>5. Holds(h)'
  BY <1>2, <1>3 DEF Holds, SizeIs
<1>6. FilesStored'
  BY SameFiles DEF SerialUploadInv, FilesStored
<1>7. QED
  BY <1>2, <1>4, <1>5, <1>6, SerialWrap

LEMMA AppendInOrder ==
  ASSUME NEW S, NEW s \in Seq(S), \A i \in 1 .. Len(s) : s[i] = i, NEW x \in Nat, x = Len(s) + 1
  PROVE  Len(Append(s, x)) = x /\ \A i \in 1 .. Len(Append(s, x)) : Append(s, x)[i] = i
<1>1. Len(s) \in Nat /\ Len(Append(s, x)) = x
  OBVIOUS
<1>2. ASSUME NEW i \in 1 .. x
      PROVE  Append(s, x)[i] = i
  <2>1. CASE i = x
    BY <2>1
  <2>2. CASE i # x
    BY <1>1, <2>2
  <2>3. QED
    BY <2>1, <2>2
<1>3. QED
  BY <1>1, <1>2

\* The steps that write to the assembled file.
LEMMA SerialAppend ==
  ASSUME SerialUploadInv, MInv', NEW h \in UploadHandlers, Cut(h) \/ PlaceFirst(h) \/ AppendByte(h)
  PROVE  SerialUploadInv'
<1>t. /\ TInv /\ UploadTypeOK /\ bytes \in [Files -> Seq(0 .. FileSize)] /\ assembled \in PathTo
      /\ uploadReq[h] # UploadIdle
  BY DEF SerialUploadInv, MInv, TInv, UploadTypeOK, Cut, PlaceFirst, AppendByte, UploadIdle
<1>r. uploadReq[h] \in UploadRequest /\ uploadReq[h].rec \in Record /\ uploadReq[h].chunk \in 0 .. Chunks - 1
  BY <1>t, UploadBusyTyped
<1>s. FilesStored /\ Agrees(h) /\ Holds(h)
  BY DEF SerialUploadInv
<1>1. CASE Cut(h)
  <2> DEFINE n == Edge[uploadReq[h].rec.chunks]
  <2>1. /\ assembled \in Files /\ n <= Len(bytes[assembled]) /\ uploadReq[h].fd = NoFile
    BY <1>1, <1>s, <1>t DEF Cut, Holds, PathTo
  <2>2. n \in 0 .. FileSize /\ n \in Nat
    <3>1. uploadReq[h].rec.chunks \in 0 .. Chunks
      BY <1>r, RecordTyped
    <3>2. QED
      BY <3>1, EdgesTyped
  <2>3. /\ bytes' = [bytes EXCEPT ![assembled] = Resized(bytes[assembled], n)]
        /\ Goes(h, "repair") /\ UNCHANGED <<meta, assembled, final>>
    BY <1>1, <1>t, <2>1 DEF Cut
  <2>4. \A i \in 1 .. Len(Resized(bytes[assembled], n)) : Resized(bytes[assembled], n)[i] = i
    <3>1. \A i \in 1 .. Len(bytes[assembled]) : bytes[assembled][i] = i
      BY <1>s, <2>1, UploadNullAssumption DEF FilesStored, InOrder
    <3>2. Len(Resized(bytes[assembled], n)) = n
      BY <2>2 DEF Resized
    <3>3. Len(bytes[assembled]) \in Nat
      BY <1>t, <2>1
    <3>4. QED
      BY <2>1, <2>2, <3>1, <3>2, <3>3 DEF Resized
  <2>5. /\ bytes'[assembled] = Resized(bytes[assembled], n)
        /\ \A f \in Files \ {assembled} : bytes'[f] = bytes[f]
    BY <1>t, <2>1, <2>3
  <2>6. FilesStored'
    <3>1. InOrder(assembled)'
      BY <2>3, <2>4, <2>5 DEF InOrder
    <3>2. ASSUME NEW m \in Names, final[m] # NoFile
          PROVE  /\ final[m] # assembled /\ bytes'[final[m]] = bytes[final[m]]
                 /\ InOrder(final[m]) /\ Len(bytes[final[m]]) = FileSize
      BY <1>s, <1>t, <2>5, <3>2 DEF FilesStored, UploadTypeOK, PathTo
    <3>3. QED
      BY <1>s, <2>3, <3>1, <3>2 DEF FilesStored, InOrder
  <2>7. /\ uploadReq'[h].at = "repair" /\ uploadReq'[h].rec = uploadReq[h].rec /\ uploadReq'[h].fd = NoFile
        /\ \A g \in UploadHandlers \ {h} : uploadReq'[g] = uploadReq[g]
    BY <1>t, <1>r, <2>1, <2>3, GoesFields DEF Places
  <2>8. Agrees(h)' /\ Holds(h)'
    BY <1>1, <1>s, <1>t, <2>3, <2>7 DEF Cut, Agrees, Holds, Finalizing
  <2>9. QED
    BY <1>t, <2>6, <2>7, <2>8, SerialWrap
<1>2. CASE PlaceFirst(h)
  <2> DEFINE q == [uploadReq[h].rec EXCEPT !.chunks = 1]
  <2>1. PICK f \in Files : /\ FreeFile(f) /\ bytes' = [bytes EXCEPT ![f] = Chunk(0)]
                           /\ assembled' = f
    BY <1>2 DEF PlaceFirst
  <2>2. GoesWith(h, "save", q) /\ UNCHANGED <<meta, final>> /\ uploadReq[h].at = "place"
    BY <1>2 DEF PlaceFirst
  <2>3. q \in Record /\ q.name = uploadReq[h].rec.name /\ q.status = uploadReq[h].rec.status
    <3>1. 1 \in 0 .. Chunks
      BY PlanAssumption
    <3>2. QED
      BY <1>r, <3>1 DEF Record
  <2>4. \A i \in 1 .. Len(Chunk(0)) : Chunk(0)[i] = i
    <3>1. Edge[0] = 0 /\ Edge[0 + 1] \in Nat
      BY PlanAssumption, EdgesTyped
    <3>2. Chunk(0) = [i \in 1 .. Edge[0 + 1] |-> i]
      BY <3>1 DEF Chunk
    <3>3. QED
      BY <3>1, <3>2
  <2>5. bytes'[f] = Chunk(0) /\ \A g \in Files \ {f} : bytes'[g] = bytes[g]
    BY <1>t, <2>1
  <2>6. FilesStored'
    <3>1. InOrder(assembled)'
      BY <2>1, <2>4, <2>5 DEF InOrder
    <3>2. ASSUME NEW m \in Names, final[m] # NoFile
          PROVE  /\ final[m] # f /\ bytes'[final[m]] = bytes[final[m]]
                 /\ InOrder(final[m]) /\ Len(bytes[final[m]]) = FileSize
      BY <1>s, <1>t, <2>1, <2>5, <3>2 DEF FilesStored, UploadTypeOK, PathTo, FreeFile
    <3>3. QED
      BY <1>s, <2>1, <2>2, <3>1, <3>2 DEF FilesStored, InOrder
  <2> HIDE DEF q
  <2>7. /\ uploadReq'[h].at = "save" /\ uploadReq'[h].rec = q /\ uploadReq'[h].fd = NoFile
        /\ \A g \in UploadHandlers \ {h} : uploadReq'[g] = uploadReq[g]
    BY <1>t, <1>r, <1>s, <2>2, <2>3, GoesFields DEF Places, Holds
  <2>8. Agrees(h)' /\ Holds(h)'
    BY <1>s, <1>t, <2>2, <2>3, <2>7 DEF Agrees, Holds, Finalizing
  <2>9. QED
    BY <1>t, <2>6, <2>7, <2>8, SerialWrap
<1>3. CASE AppendByte(h)
  <2> DEFINE k == uploadReq[h].chunk
             p == uploadReq[h].put + 1
             f == uploadReq[h].fd
             last == Edge[k] + p = Edge[k + 1]
             r == [uploadReq[h] EXCEPT !.put = p, !.at = IF last THEN "check" ELSE "append",
                                 !.fd = IF last THEN NoFile ELSE f]
  <2>1. /\ uploadReq[h].at = "append"
        /\ bytes' = [bytes EXCEPT ![f] = Append(@, Edge[k] + p)]
        /\ UNCHANGED <<meta, assembled, final, sent>>
    BY <1>3 DEF AppendByte
  <2>2. uploadReq' = [uploadReq EXCEPT ![h] = r]
    BY <1>3, <1>t DEF AppendByte, UploadTypeOK
  <2>3. /\ f \in Files /\ f = assembled /\ f # NoFile /\ Len(bytes[f]) = Edge[k] + uploadReq[h].put
    BY <1>s, <1>t, <2>1, UploadNullAssumption DEF Holds, SizeIs, TInv, Appending
  <2>4. Edge[k] \in Nat /\ uploadReq[h].put \in Nat
    <3>1. k \in 0 .. Chunks
      BY <1>r, PlanAssumption
    <3>2. QED
      BY <1>r, <3>1, EdgesTyped DEF UploadRequest
  <2> DEFINE b == Append(bytes[f], Edge[k] + p)
  <2>5. Len(b) = Edge[k] + p /\ \A i \in 1 .. Len(b) : b[i] = i
    <3>1. \A i \in 1 .. Len(bytes[f]) : bytes[f][i] = i
      BY <1>s, <2>3 DEF FilesStored, InOrder
    <3>2. bytes[f] \in Seq(0 .. FileSize)
      BY <1>t, <2>3
    <3>3. Edge[k] + p \in Nat /\ Edge[k] + p = Len(bytes[f]) + 1
      BY <2>3, <2>4
    <3>4. QED
      BY <3>1, <3>2, <3>3, AppendInOrder
  <2>6. bytes'[f] = b /\ \A g \in Files \ {f} : bytes'[g] = bytes[g]
    BY <1>t, <2>1, <2>3
  <2>7. FilesStored'
    <3>1. InOrder(assembled)'
      BY <2>1, <2>3, <2>5, <2>6 DEF InOrder
    <3>2. ASSUME NEW m \in Names, final[m] # NoFile
          PROVE  /\ final[m] # f /\ bytes'[final[m]] = bytes[final[m]]
                 /\ InOrder(final[m]) /\ Len(bytes[final[m]]) = FileSize
      BY <1>s, <1>t, <2>3, <2>6, <3>2 DEF FilesStored, UploadTypeOK, PathTo
    <3>3. QED
      BY <1>s, <2>1, <2>3, <3>1, <3>2 DEF FilesStored, InOrder
  <2>8. /\ uploadReq'[h].at = IF last THEN "check" ELSE "append"
        /\ uploadReq'[h].fd = IF last THEN NoFile ELSE f
        /\ uploadReq'[h].rec = uploadReq[h].rec /\ uploadReq'[h].put = p /\ uploadReq'[h].chunk = k
        /\ \A g \in UploadHandlers \ {h} : uploadReq'[g] = uploadReq[g]
    BY <1>r, <1>t, <2>2 DEF UploadTypeOK, UploadRequest
  <2>9. Agrees(h)'
    BY <1>s, <1>t, <2>1, <2>8 DEF Agrees, Finalizing
  <2>10. Holds(h)'
    BY <2>1, <2>3, <2>5, <2>6, <2>8 DEF Holds, SizeIs
  <2>11. QED
    BY <1>t, <2>7, <2>8, <2>9, <2>10, SerialWrap
<1>4. QED
  BY <1>1, <1>2, <1>3

LEMMA NextSInv == SerialUploadInv /\ [SerialUploadNext]_uploadVars => SerialUploadInv'
<1> SUFFICES ASSUME SerialUploadInv, [SerialUploadNext]_uploadVars
             PROVE  SerialUploadInv'
  OBVIOUS
<1> USE DEF disk
<1>m. MInv'
  BY SerialStep, NextMInv DEF SerialUploadInv
<1>t. MInv /\ TInv /\ UploadTypeOK /\ FilesStored
  BY DEF SerialUploadInv, MInv, TInv
<1>1. ASSUME NEW h \in UploadHandlers, UploadQuiet, BeginUpload(h)
      PROVE  SerialUploadInv'
  <2>1. PICK op, k : Read(h, op, k)
    BY <1>1 DEF BeginUpload
  <2>2. /\ uploadReq'[h].at = "stat" /\ uploadReq'[h].rec = meta /\ uploadReq'[h].fd = NoFile
        /\ \A g \in UploadHandlers \ {h} : uploadReq'[g] = uploadReq[g]
        /\ meta # Torn /\ UNCHANGED <<meta, bytes, assembled, final>>
    BY <1>t, <2>1 DEF Read, UploadTypeOK
  <2>3. Agrees(h)' /\ Holds(h)'
    BY <2>2 DEF Agrees, Holds, Finalizing
  <2>4. FilesStored'
    BY <1>t, <2>2, SameFiles DEF FilesStored
  <2>5. QED
    BY <1>1, <1>m, <2>2, <2>3, <2>4, SerialWrap
<1>2. ASSUME NEW h \in UploadHandlers, ProceedUpload(h)
      PROVE  SerialUploadInv'
  <2>b. uploadReq[h] # UploadIdle
    <3>1. uploadReq[h].at # "end"
      BY <1>2 DEF ProceedUpload, Stat, Cut, WriteRecord, Writes, Answer, Over, StartChunk, PlaceFirst,
              Open, AppendByte, CheckAppended, StartFinalize, Look, UnlinkFinal, Verify, Move,
              Send, StartCancel, Clean
    <3>2. QED
      BY <3>1, SMTT(40) DEF UploadIdle
  <2>r. uploadReq[h] \in UploadRequest /\ uploadReq[h].rec \in Record /\ uploadReq[h].chunk \in 0 .. Chunks - 1
    BY <1>t, <2>b, UploadBusyTyped
  <2>s. Agrees(h) /\ Holds(h) /\ Backed(h) /\ meta # Torn
    BY <1>t, <2>b DEF SerialUploadInv, MInv, Agrees
  <2> DEFINE r == uploadReq[h].rec
  <2>c. ASSUME NEW k \in 0 .. Chunks
        PROVE  LET q == [r EXCEPT !.chunks = k]
               IN  q \in Record /\ q.name = r.name /\ q.status = r.status /\ q.chunks = k
    BY <2>r DEF Record
  <2>1. CASE Stat(h)
    <3> DEFINE n == IF assembled = NoFile THEN 0 ELSE Len(bytes[assembled])
               k == Filled(n)
               q == [r EXCEPT !.chunks = k]
               at == IF n # Edge[k] THEN "cut" ELSE IF r.chunks # k THEN "repair" ELSE "synced"
    <3>1. n \in Nat
      BY <1>t DEF UploadTypeOK, PathTo
    <3>2. k \in 0 .. Chunks /\ Edge[k] <= n /\ Edge[k] \in Nat
      BY <3>1, FilledFits, EdgesTyped
    <3>3. q \in Record /\ q.name = r.name /\ q.status = r.status /\ q.chunks = k
      BY <2>c, <3>2
    <3>4. /\ at \in {"cut", "repair", "synced"}
          /\ at = "cut" => assembled # NoFile /\ Edge[q.chunks] <= Len(bytes[assembled])
      BY <3>2, <3>3
    <3>5. /\ uploadReq[h].at = "stat" /\ GoesWith(h, at, q)
          /\ UNCHANGED <<meta, bytes, assembled, final>>
      BY <2>1 DEF Stat
    <3>6. r.name = meta.name /\ r.status = meta.status
      BY <2>b, <2>s, <3>5 DEF Agrees
    <3> HIDE DEF q, at
    <3>7. QED
      BY <1>m, <2>b, <3>3, <3>4, <3>5, <3>6, SerialGoes DEF Places, Finalizing
  <2>2. CASE Cut(h) \/ PlaceFirst(h) \/ AppendByte(h)
    BY <1>m, <2>2, SerialAppend
  <2>3. CASE WriteRecord(h)
    <3>1. /\ uploadReq[h].at \in Writes /\ meta' = r /\ UNCHANGED <<bytes, assembled, final>>
          /\ uploadReq[h].fd = NoFile /\ r # Torn
      BY <2>3, <2>s, <2>r DEF WriteRecord, Holds, Writes, Record, Torn
    <3>2. FilesStored'
      <4>1. r.status = "completed" => final[r.name] # NoFile
        BY <1>t, <2>b, <2>s, <3>1 DEF Agrees, Holds, FilesStored, Finalizing, Writes
      <4>2. QED
        BY <1>t, <3>1, <4>1, SameFiles
    <3>3. CASE uploadReq[h].at = "save"
      BY <1>m, <2>3, <2>b, <3>2, <3>3, SerialDone DEF WriteRecord
    <3>4. CASE uploadReq[h].at # "save"
      <4> DEFINE at == AfterWrite(uploadReq[h].at)
      <4>1. /\ at \in {"synced", "look", "clean"}
            /\ at = "look" => uploadReq[h].at = "name"
        BY <3>1, <3>4 DEF Writes, AfterWrite
      <4>2. Goes(h, at)
        BY <2>3, <3>4 DEF WriteRecord
      <4> HIDE DEF at
      <4>3. /\ uploadReq'[h].at = at /\ uploadReq'[h].rec = r /\ uploadReq'[h].fd = NoFile
            /\ \A g \in UploadHandlers \ {h} : uploadReq'[g] = uploadReq[g]
        BY <1>t, <2>r, <3>1, <4>1, <4>2, GoesFields DEF Places
      <4>4. at = "look" => r.status = "pending"
        BY <2>b, <2>s, <4>1 DEF Agrees, Finalizing
      <4>5. Agrees(h)' /\ Holds(h)'
        BY <3>1, <4>1, <4>3, <4>4 DEF Agrees, Holds, Finalizing
      <4>6. QED
        BY <1>m, <2>b, <3>2, <4>3, <4>5, SerialWrap
    <3>5. QED
      BY <3>3, <3>4
  <2>4. CASE Answer(h)
    BY <1>m, <1>t, <2>4, <2>b, SameFiles, SerialDone DEF Answer, FilesStored
  <2>5. CASE StartChunk(h)
    <3>1. /\ uploadReq[h].at = "synced" /\ UNCHANGED <<meta, bytes, final>>
          /\ r.name = meta.name /\ r.status = meta.status
      BY <2>5, <2>b, <2>s DEF StartChunk, Agrees
    <3>2. CASE assembled' = NoFile /\ Goes(h, "place")
      <4>1. /\ uploadReq'[h].at = "place" /\ uploadReq'[h].rec = r /\ uploadReq'[h].fd = NoFile
            /\ \A g \in UploadHandlers \ {h} : uploadReq'[g] = uploadReq[g]
        BY <1>t, <2>r, <2>s, <3>1, <3>2, GoesFields DEF Places, Holds
      <4>2. Agrees(h)' /\ Holds(h)'
        BY <2>s, <3>1, <4>1 DEF Agrees, Holds, Finalizing
      <4>3. FilesStored'
        BY <1>t, <3>1, <3>2 DEF FilesStored, InOrder
      <4>4. QED
        BY <1>m, <2>b, <4>1, <4>2, <4>3, SerialWrap
    <3>3. CASE SizeIs(assembled, Edge[uploadReq[h].chunk]) /\ Goes(h, "open") /\ UNCHANGED assembled
      BY <1>m, <2>b, <2>r, <3>1, <3>3, SerialGoes DEF Places, Finalizing
    <3>4. QED
      BY <2>5, <3>2, <3>3 DEF StartChunk
  <2>6. CASE Open(h)
    <3>1. /\ uploadReq[h].at = "open" /\ SizeIs(assembled, Edge[uploadReq[h].chunk])
          /\ UNCHANGED <<meta, final>>
      BY <2>6, <2>s DEF Open, Holds
    <3>2. uploadReq[h].put = 0
      BY <1>t, <3>1 DEF TInv, Appending, Early
    <3>3. /\ UNCHANGED <<bytes, assembled>>
          /\ uploadReq' = [uploadReq EXCEPT ![h].at = "append", ![h].fd = assembled]
      BY <2>6, <3>1 DEF Open, SizeIs
    <3>4. /\ uploadReq'[h].at = "append" /\ uploadReq'[h].fd = assembled /\ uploadReq'[h].rec = r
          /\ uploadReq'[h].chunk = uploadReq[h].chunk /\ uploadReq'[h].put = 0
          /\ \A g \in UploadHandlers \ {h} : uploadReq'[g] = uploadReq[g]
      BY <1>t, <2>r, <3>2, <3>3 DEF UploadTypeOK, UploadRequest
    <3>5. Edge[uploadReq[h].chunk] \in Nat
      <4>1. uploadReq[h].chunk \in 0 .. Chunks
        BY <2>r, PlanAssumption
      <4>2. QED
        BY <4>1, EdgesTyped
    <3>6. Agrees(h)'
      BY <2>b, <2>s, <3>1, <3>4 DEF Agrees, Finalizing
    <3>7. Holds(h)'
      BY <3>1, <3>3, <3>4, <3>5 DEF Holds, SizeIs
    <3>8. FilesStored'
      BY <1>t, <3>1, <3>3, SameFiles DEF FilesStored
    <3>9. QED
      BY <1>m, <2>b, <3>4, <3>6, <3>7, <3>8, SerialWrap
  <2>7. CASE CheckAppended(h)
    <3>1. uploadReq[h].chunk + 1 \in 0 .. Chunks
      BY <2>r, PlanAssumption
    <3> DEFINE q == [r EXCEPT !.chunks = uploadReq[h].chunk + 1]
    <3>2. q \in Record /\ q.name = r.name /\ q.status = r.status
      BY <2>c, <3>1
    <3>3. /\ uploadReq[h].at = "check" /\ GoesWith(h, "save", q)
          /\ UNCHANGED <<meta, bytes, assembled, final>>
      BY <2>7 DEF CheckAppended
    <3>4. r.name = meta.name /\ r.status = meta.status
      BY <2>b, <2>s, <3>3 DEF Agrees
    <3> HIDE DEF q
    <3>5. QED
      BY <1>m, <2>b, <3>2, <3>3, <3>4, SerialGoes DEF Places, Finalizing
  <2>8. CASE StartFinalize(h)
    <3>1. /\ uploadReq[h].at = "synced" /\ r.status = "pending"
          /\ UNCHANGED <<meta, bytes, assembled, final>>
          /\ r.name = meta.name /\ r.status = meta.status
      BY <2>8, <2>b, <2>s DEF StartFinalize, Agrees
    <3>2. CASE Goes(h, "look")
      BY <1>m, <2>b, <2>r, <3>1, <3>2, SerialGoes DEF Places
    <3>3. ASSUME NEW n \in Names, GoesWith(h, "name", [r EXCEPT !.name = n])
          PROVE  SerialUploadInv'
      <4> DEFINE q == [r EXCEPT !.name = n]
      <4>1. q \in Record /\ q.status = "pending"
        BY <2>r, <3>1 DEF Record
      <4>2. GoesWith(h, "name", q)
        BY <3>3
      <4> HIDE DEF q
      <4>3. QED
        BY <1>m, <2>b, <3>1, <4>1, <4>2, SerialGoes DEF Places
    <3>4. QED
      BY <2>8, <3>2, <3>3 DEF StartFinalize
  <2>9. CASE Look(h)
    <3>1. /\ uploadReq[h].at = "look" /\ UNCHANGED <<meta, bytes, assembled, final>>
          /\ r.name = meta.name /\ r.status = meta.status /\ r.status = "pending"
      BY <2>9, <2>b, <2>s DEF Look, Agrees, Finalizing
    <3>2. PICK at \in {"verify", "send", "drop"} :
            Goes(h, at) /\ (at = "send" => final[r.name] # NoFile)
      BY <2>9 DEF Look
    <3>3. QED
      BY <1>m, <2>b, <2>r, <3>1, <3>2, SerialGoes DEF Places
  <2>10. CASE UnlinkFinal(h)
    <3>1. /\ uploadReq[h].at \in {"drop", "free", "undo"} /\ UNCHANGED <<meta, bytes, assembled>>
          /\ final' = [final EXCEPT ![r.name] = NoFile]
          /\ r.name = meta.name /\ r.status = meta.status /\ r.status = "pending"
      BY <2>10, <2>b, <2>s DEF UnlinkFinal, Agrees, Finalizing
    <3>2. FilesStored'
      BY <1>t, <3>1 DEF FilesStored, InOrder, UploadTypeOK
    <3>3. CASE Done(h)
      BY <1>m, <2>b, <3>2, <3>3, SerialDone
    <3>4. ASSUME NEW at \in {"verify", "move"}, Goes(h, at), at = "move" => uploadReq[h].at = "free"
          PROVE  SerialUploadInv'
      <4>1. /\ uploadReq'[h].at = at /\ uploadReq'[h].rec = r /\ uploadReq'[h].fd = NoFile
            /\ \A g \in UploadHandlers \ {h} : uploadReq'[g] = uploadReq[g]
        BY <1>t, <2>r, <2>s, <3>1, <3>4, GoesFields DEF Places, Holds
      <4>2. Agrees(h)'
        BY <2>s, <3>1, <4>1 DEF Agrees
      <4>3. at = "move" => SizeIs(assembled, FileSize)
        BY <2>s, <3>4 DEF Holds
      <4>4. Holds(h)'
        BY <3>1, <3>4, <4>1, <4>3 DEF Holds, SizeIs
      <4>5. QED
        BY <1>m, <2>b, <3>2, <4>1, <4>2, <4>4, SerialWrap
    <3>5. QED
      BY <2>10, <3>3, <3>4 DEF UnlinkFinal
  <2>11. CASE Verify(h)
    <3>1. /\ uploadReq[h].at = "verify" /\ UNCHANGED <<meta, bytes, assembled, final>>
          /\ SizeIs(assembled, FileSize) /\ Goes(h, "free")
          /\ r.name = meta.name /\ r.status = meta.status /\ r.status = "pending"
      BY <2>11, <2>b, <2>s DEF Verify, Agrees, Finalizing
    <3>2. QED
      BY <1>m, <2>b, <2>r, <3>1, SerialGoes DEF Places
  <2>12. CASE Move(h)
    <3>1. /\ uploadReq[h].at = "move" /\ SizeIs(assembled, FileSize) /\ Goes(h, "send")
          /\ final' = [final EXCEPT ![r.name] = assembled] /\ assembled' = NoFile
          /\ UNCHANGED <<meta, bytes>>
          /\ r.name = meta.name /\ r.status = meta.status /\ r.status = "pending"
      BY <2>12, <2>b, <2>s DEF Move, Agrees, Holds, Finalizing
    <3>2. r.name \in Names /\ assembled # NoFile
      BY <2>r, <2>s, <3>1, RecordTyped DEF Backed, Finalizing, SizeIs
    <3>3. FilesStored'
      BY <1>t, <3>1, <3>2 DEF FilesStored, InOrder, UploadTypeOK, SizeIs
    <3>4. /\ uploadReq'[h].at = "send" /\ uploadReq'[h].rec = r /\ uploadReq'[h].fd = NoFile
          /\ \A g \in UploadHandlers \ {h} : uploadReq'[g] = uploadReq[g]
      BY <1>t, <2>r, <2>s, <3>1, GoesFields DEF Places, Holds
    <3>5. Agrees(h)'
      BY <2>s, <3>1, <3>4 DEF Agrees
    <3>6. Holds(h)'
      BY <1>t, <3>1, <3>2, <3>4 DEF Holds, UploadTypeOK
    <3>7. QED
      BY <1>m, <2>b, <3>3, <3>4, <3>5, <3>6, SerialWrap
  <2>13. CASE Send(h)
    <3> DEFINE q == [r EXCEPT !.status = "completed"]
    <3>1. /\ uploadReq[h].at = "send" /\ GoesWith(h, "complete", q)
          /\ UNCHANGED <<meta, bytes, assembled, final>>
          /\ r.name = meta.name /\ meta.status = "pending" /\ final[r.name] # NoFile
      BY <2>13, <2>b, <2>s DEF Send, Agrees, Holds, Finalizing
    <3>2. q \in Record /\ q.name = r.name /\ q.status = "completed"
      BY <2>r DEF Record
    <3> HIDE DEF q
    <3>3. QED
      BY <1>m, <2>b, <3>1, <3>2, SerialGoes DEF Places, Finalizing
  <2>14. CASE StartCancel(h)
    <3> DEFINE q == [r EXCEPT !.status = "cancelled"]
    <3>1. /\ uploadReq[h].at = "synced" /\ GoesWith(h, "cancel", q)
          /\ UNCHANGED <<meta, bytes, assembled, final>>
          /\ r.name = meta.name /\ meta.status # "completed"
      BY <2>14, <2>b, <2>s DEF StartCancel, Agrees
    <3>2. q \in Record /\ q.name = r.name /\ q.status = "cancelled"
      BY <2>r DEF Record
    <3> HIDE DEF q
    <3>3. QED
      BY <1>m, <2>b, <3>1, <3>2, SerialGoes DEF Places, Finalizing
  <2>15. CASE Clean(h)
    <3>1. assembled' = NoFile /\ Done(h) /\ UNCHANGED <<meta, bytes, final>>
      BY <2>15 DEF Clean
    <3>2. FilesStored'
      BY <1>t, <3>1 DEF FilesStored, InOrder
    <3>3. QED
      BY <1>m, <2>b, <3>1, <3>2, SerialDone
  <2>16. QED
    BY <1>2, <2>1, <2>2, <2>3, <2>4, <2>5, <2>6, <2>7, <2>8, <2>9, <2>10, <2>11, <2>12, <2>13,
       <2>14, <2>15 DEF ProceedUpload
<1>3. ASSUME NEW h \in UploadHandlers, FailUpload(h)
      PROVE  SerialUploadInv'
  <2>b. uploadReq[h] # UploadIdle
    BY <1>3 DEF FailUpload, Abort, TearRecord, SendFails, Writes, UploadIdle
  <2>1. CASE Abort(h)
    BY <1>m, <1>t, <2>1, <2>b, SameFiles, SerialDone DEF Abort, FilesStored
  <2>2. CASE TearRecord(h)
    <3>1. FilesStored'
      BY <1>t, <2>2, SameFiles DEF TearRecord, Torn
    <3>2. QED
      BY <1>m, <2>2, <2>b, <3>1, SerialDone DEF TearRecord
  <2>3. CASE SendFails(h)
    <3>1. uploadReq[h].rec \in Record
      BY <1>t, <2>b, UploadBusyTyped
    <3>2. /\ uploadReq[h].at = "send" /\ Goes(h, "undo") /\ UNCHANGED <<meta, bytes, assembled, final>>
      BY <2>3 DEF SendFails
    <3>3. /\ uploadReq[h].rec.name = meta.name /\ uploadReq[h].rec.status = meta.status
          /\ uploadReq[h].rec.status = "pending"
      BY <2>b, <3>2 DEF SerialUploadInv, Agrees, Finalizing
    <3>4. QED
      BY <1>m, <2>b, <3>1, <3>2, <3>3, SerialGoes DEF Places
  <2>4. QED
    BY <1>3, <2>1, <2>2, <2>3 DEF FailUpload
<1>4. CASE UNCHANGED uploadVars
  BY <1>m, <1>4 DEF uploadVars, SerialUploadInv, UploadAlone, FilesStored, InOrder, Agrees, Holds, SizeIs
<1>5. QED
  BY <1>1, <1>2, <1>3, <1>4 DEF SerialUploadNext

LEMMA SerialInvariant == SerialUploadSpec => []SerialUploadInv
  BY InitSInv, NextSInv, PTL DEF SerialUploadSpec

\* One request at a time, and wherever one dies, what a message's attachment holds is the
\* whole file, in order.
THEOREM AttachmentsAreTheFile == SerialUploadSpec => []AttachmentsInOrder
<1>1. SerialUploadInv => AttachmentsInOrder
  BY DEF SerialUploadInv, FilesStored, AttachmentsInOrder
<1>2. QED
  BY <1>1, SerialInvariant, PTL

\* One request at a time, a completed session has its message, and the file is there.
THEOREM CompletedHasAll == SerialUploadSpec => []CompletedIsSent
<1>1. SerialUploadInv => CompletedIsSent
  BY DEF SerialUploadInv, MInv, HasMessage, FilesStored, CompletedIsSent
<1>2. QED
  BY <1>1, SerialInvariant, PTL

\* One request at a time, a session that has ended stays as it ended.
THEOREM EndedIsFinal == SerialUploadSpec => EndedStaysEnded
<1>1. SerialUploadInv /\ [SerialUploadNext]_uploadVars =>
        [meta.status \in {"completed", "cancelled"} => meta'.status \in {meta.status, "torn"}]_uploadVars
  <2> SUFFICES ASSUME SerialUploadInv, SerialUploadNext
               PROVE  meta.status \in {"completed", "cancelled"} =>
                        meta'.status \in {meta.status, "torn"}
    OBVIOUS
  <2>1. CASE UNCHANGED meta
    BY <2>1
  <2>2. ASSUME NEW h \in UploadHandlers, WriteRecord(h)
        PROVE  meta.status \in {"completed", "cancelled"} => meta'.status = meta.status
    <3>1. uploadReq[h] # UploadIdle /\ uploadReq[h].at \in Writes /\ meta' = uploadReq[h].rec
      BY <2>2 DEF WriteRecord, Writes, UploadIdle
    <3>2. QED
      BY <3>1 DEF SerialUploadInv, Agrees, Writes, Finalizing
  <2>3. ASSUME NEW h \in UploadHandlers, TearRecord(h)
        PROVE  meta'.status = "torn"
    BY <2>3, SMTT(40) DEF TearRecord, Torn
  <2>4. UNCHANGED meta \/ \E h \in UploadHandlers : WriteRecord(h) \/ TearRecord(h)
    BY DEF SerialUploadNext, BeginUpload, ProceedUpload, FailUpload, Read, Stat, Cut, Answer, StartChunk, PlaceFirst, Open,
       AppendByte, CheckAppended, StartFinalize, Look, UnlinkFinal, Verify, Move, Send, SendFails,
       StartCancel, Clean, Abort
  <2>5. QED
    BY <2>1, <2>2, <2>3, <2>4
<1>2. QED
  BY <1>1, SerialInvariant, PTL DEF SerialUploadSpec, EndedStaysEnded
---------------------------------------------------------------------------------
(* Uploads and accounts together                                               *)

\* A behaviour of both parts is, for each of them, one of its own behaviours: the part that
\* is not picked stutters.
LEMMA EachPartRaces == InterleavedAccounts => UploadSpec /\ AccountSpec
<1>1. AccountsInit => UploadInit /\ AccountInit
  BY DEF AccountsInit
<1>2. [InterleavedAccountsNext]_accountsVars
        => [UploadNext]_uploadVars /\ [AccountNext]_accountVars
  BY DEF InterleavedAccountsNext, Steps, accountsVars
<1>3. QED
  BY <1>1, <1>2, PTL DEF InterleavedAccounts, UploadSpec, AccountSpec

\* The same where the server takes one request at a time, under fairness.
LEMMA EachPartServed == SerialAccounts => SerialUploadSpec /\ SerialAccountSpec
<1>1. AccountsInit => UploadInit /\ AccountInit
  BY DEF AccountsInit
<1>2. [SerialAccountsNext]_accountsVars
        => [SerialUploadNext]_uploadVars /\ [SerialAccountNext]_accountVars
  BY DEF SerialAccountsNext, Steps, accountsVars
<1>3. SerialAccounts => AccountsInit /\ [][SerialAccountsNext]_accountsVars
  BY PTL DEF SerialAccounts
<1>4. QED
  BY <1>1, <1>2, <1>3, PTL DEF SerialUploadSpec, SerialAccountSpec

\* However requests race, a completed session has its message, no administrator is banned,
\* and nobody is erased who neither asked for it nor was erased by an administrator.
THEOREM RacesBreakNothing ==
  InterleavedAccounts => [](CompletedHasMessage /\ AdminsAreNotBanned) /\ ErasedByWill
  BY EachPartRaces, CompletedWithMessage, AdminsAreNeverBanned, NobodyIsErasedUnasked, PTL

\* One request at a time, uploads and accounts keep what each of them promises: attachments
\* are whole, a completed session was sent and an ended one stays so; only the approved have
\* sessions, and the decisions about accounts are those of their charter.
THEOREM AccountsKeepTheirPromises ==
  SerialAccounts =>
    /\ [](AttachmentsInOrder /\ CompletedIsSent /\ SessionsAreAllowed)
    /\ EndedStaysEnded /\ PurgesOnlyDue /\ ImplementsAccountCharter
  BY EachPartServed, AttachmentsAreTheFile, CompletedHasAll, SessionsStayAllowed, EndedIsFinal,
     PurgeSparesOthers, ServesAccountCharter, PTL
================================================================================
