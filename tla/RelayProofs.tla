------------------------------ MODULE RelayProofs ------------------------------
(***************************************************************************)
(* Theorems about OutboxRelay, for every set of rows and workers, every    *)
(* batch size, lease, stall and number of faults.                          *)
(***************************************************************************)
EXTENDS OutboxRelay, SequenceTheorems, TLAPS

Elems(s) == {s[n] : n \in DOMAIN s}

Distinct(s) == \A m, n \in DOMAIN s : s[m] = s[n] => m = n

(* A worker between ticks has no rows. *)
IdleHasNone == \A w \in Workers : pc[w] \in {"idle", "dead"} => batch[w] = << >>

(* A row is marked only after the broker accepted it. *)
MarkedWasAccepted == \A w \in Workers : pc[w] = "mark" => Row(w) \in Elems(stream)

(* The rows of a worker's batch. *)
Held(w) == {batch[w][n] : n \in DOMAIN batch[w]}

(* As long as nobody overran, the rows of a batch are different and carry the
   very lease that their worker took: nobody else can have claimed them. *)
LeaseHeld(w) ==
  /\ batch[w] # << >> => age[w] < LeaseFor
  /\ \A r \in Elems(batch[w]) : lease[r] = LeaseFrom(w)
  /\ Distinct(batch[w])

LeasesAreHeld ==
  ~overran =>
    /\ \A w \in Workers : LeaseHeld(w)
    /\ \A v, w \in Workers : Elems(batch[v]) \cap Elems(batch[w]) # {} => v = w

(* Without faults and overruns every channel is open, and a row that the broker
   has is PUBLISHED or about to be, so nobody holds it to publish it again. *)
SentOnce ==
  faults = 0 /\ ~overran =>
    /\ closed = {}
    /\ \A w \in Workers : pc[w] # "release"
    /\ \A w \in Workers : \A r \in Elems(batch[w]) : status[r] = "PENDING"
    /\ \A r \in Elems(stream) :
         status[r] = "PUBLISHED" \/ \E w \in Workers : pc[w] = "mark" /\ Row(w) = r
    /\ Distinct(stream)

(* What a worker holds and what the broker has was committed. *)
OnlyCommittedRows ==
  /\ \A w \in Workers : \A r \in Elems(batch[w]) : status[r] # "ABSENT"
  /\ \A r \in Elems(stream) : status[r] # "ABSENT"

IInv ==
  /\ TypeOK
  /\ IdleHasNone
  /\ OnlyCommittedRows
  /\ MarkedWasAccepted
  /\ PublishedWasAccepted
  /\ LeasesAreHeld
  /\ SentOnce

-----------------------------------------------------------------------------
(* Sequences without repetition, as batches and the stream are.              *)

(* What is left of a sequence without its head. *)
LEMMA TailLemma ==
  ASSUME NEW S, NEW s \in Seq(S), s # << >>
  PROVE  /\ Tail(s) \in Seq(S)
         /\ Head(s) \in S /\ Head(s) \in Elems(s)
         /\ Elems(Tail(s)) \subseteq Elems(s)
         /\ Tail(s) = << >> <=> Len(s) = 1
         /\ Distinct(s) => Distinct(Tail(s)) /\ Head(s) \notin Elems(Tail(s))
<1>1. /\ Len(s) \in Nat \ {0}
      /\ DOMAIN s = 1..Len(s)
      /\ Head(s) = s[1]
      /\ Len(Tail(s)) = Len(s) - 1
      /\ DOMAIN Tail(s) = 1..(Len(s) - 1)
      /\ \A n \in 1..(Len(s) - 1) : Tail(s)[n] = s[n + 1] /\ n + 1 \in 1..Len(s)
      /\ Tail(s) \in Seq(S)
  OBVIOUS
<1>2. Tail(s) = << >> <=> Len(s) = 1
  <2>1. Len(<< >>) = 0 /\ \A t \in Seq(S) : t # << >> => Len(t) \in Nat \ {0}
    BY EmptySeq
  <2>2. Tail(s) = << >> <=> Len(Tail(s)) = 0
    BY <1>1, <2>1
  <2>3. QED
    BY <1>1, <2>2
<1>3. QED
  BY <1>1, <1>2 DEF Elems, Distinct

(* What a sequence becomes with one more element. *)
LEMMA AppendLemma ==
  ASSUME NEW S, NEW s \in Seq(S), NEW x \in S
  PROVE  /\ Append(s, x) \in Seq(S)
         /\ Append(s, x) # << >>
         /\ Elems(Append(s, x)) = Elems(s) \cup {x}
         /\ Distinct(s) /\ x \notin Elems(s) => Distinct(Append(s, x))
<1>1. /\ Len(s) \in Nat
      /\ DOMAIN s = 1..Len(s)
      /\ DOMAIN Append(s, x) = 1..(Len(s) + 1)
      /\ \A n \in 1..Len(s) : Append(s, x)[n] = s[n]
      /\ Append(s, x)[Len(s) + 1] = x
      /\ Append(s, x) \in Seq(S)
      /\ Append(s, x) # << >>
  OBVIOUS
<1>2. Elems(Append(s, x)) = Elems(s) \cup {x}
  <2>1. \A y \in Elems(s) : y \in Elems(Append(s, x))
    BY <1>1 DEF Elems
  <2>2. x \in Elems(Append(s, x))
    BY <1>1 DEF Elems
  <2>3. \A y \in Elems(Append(s, x)) : y \in Elems(s) \cup {x}
    BY <1>1 DEF Elems
  <2>4. QED
    BY <2>1, <2>2, <2>3
<1>3. QED
  BY <1>1, <1>2 DEF Elems, Distinct

(* The empty sequence. *)
LEMMA EmptyLemma == Elems(<< >>) = {} /\ Distinct(<< >>)
  BY DEF Elems, Distinct

-----------------------------------------------------------------------------

(* The initial state satisfies the invariant. *)
LEMMA InitIsSound == Init => IInv
<1> SUFFICES ASSUME Init PROVE IInv
  OBVIOUS
<1> USE RelayAssumption, EmptyLemma DEF Init
<1>1. TypeOK
  <2>1. batch \in [Workers -> Seq(Rows)] /\ stream \in Seq(Rows)
    OBVIOUS
  <2>2. status \in [Rows -> {"ABSENT", "PENDING", "PUBLISHED"}] /\ wait \in [Rows -> Int]
    OBVIOUS
  <2>3. lease \in [Rows -> Int]
    BY DEF NoLease
  <2>4. /\ pc \in [Workers -> {"idle", "claim", "publish", "mark", "release", "dead"}]
        /\ \A w \in Workers : pc[w] = "idle"
    OBVIOUS
  <2>5. age \in [Workers -> 0..MaxStall] /\ faults \in 0..MaxFaults
    OBVIOUS
  <2>6. overran \in BOOLEAN /\ closed \subseteq Closable
    OBVIOUS
  <2>7. QED
    BY <2>1, <2>2, <2>3, <2>4, <2>5, <2>6 DEF TypeOK
<1>2. IdleHasNone /\ OnlyCommittedRows /\ MarkedWasAccepted /\ PublishedWasAccepted
  BY DEF IdleHasNone, OnlyCommittedRows, MarkedWasAccepted, PublishedWasAccepted
<1>3. LeasesAreHeld
  BY DEF LeasesAreHeld, LeaseHeld
<1>4. SentOnce
  BY DEF SentOnce
<1>5. QED
  BY <1>1, <1>2, <1>3, <1>4 DEF IInv

(* The rows of a worker, and the row it is about, are rows. *)
LEMMA BatchLemma ==
  ASSUME TypeOK, NEW w \in Workers
  PROVE  /\ Held(w) = Elems(batch[w])
         /\ batch[w] \in Seq(Rows)
         /\ Elems(batch[w]) \subseteq Rows
         /\ pc[w] \in {"publish", "mark", "release"} =>
              batch[w] # << >> /\ Row(w) \in Rows /\ Row(w) \in Elems(batch[w])
<1>1. batch[w] \in Seq(Rows) /\ Held(w) = Elems(batch[w])
  BY DEF TypeOK, Held, Elems
<1>2. Elems(batch[w]) \subseteq Rows
  BY <1>1 DEF Elems
<1>3. pc[w] \in {"publish", "mark", "release"} => batch[w] # << >>
  BY DEF TypeOK
<1>4. QED
  BY <1>1, <1>2, <1>3, TailLemma DEF Row

(* What NextRow does: the head leaves the batch, and the worker goes on. *)
LEMMA NextRowLemma ==
  ASSUME TypeOK, NEW w \in Workers, pc[w] \in {"mark", "release"}, NextRow(w)
  PROVE  /\ batch' \in [Workers -> Seq(Rows)]
         /\ pc' = [pc EXCEPT ![w] = IF batch'[w] = << >> THEN "idle" ELSE "publish"]
         /\ \A v \in Workers \ {w} : batch'[v] = batch[v]
         /\ \A v \in Workers : Elems(batch'[v]) \subseteq Elems(batch[v])
         /\ Distinct(batch[w]) => Distinct(batch'[w]) /\ Row(w) \notin Elems(batch'[w])
<1>1. batch[w] \in Seq(Rows) /\ batch[w] # << >>
  BY BatchLemma
<1>2. batch' = [batch EXCEPT ![w] = Tail(batch[w])]
      /\ pc' = [pc EXCEPT ![w] = IF Len(batch[w]) = 1 THEN "idle" ELSE "publish"]
  BY DEF NextRow
<1>3. batch'[w] = Tail(batch[w]) /\ \A v \in Workers \ {w} : batch'[v] = batch[v]
  BY <1>2 DEF TypeOK
<1>4. QED
  BY <1>1, <1>2, <1>3, TailLemma DEF TypeOK, Row

(* NextRow keeps the types, and the empty batch with the idle worker. *)
LEMMA NextRowTypes ==
  ASSUME TypeOK, IdleHasNone, NEW w \in Workers, pc[w] \in {"mark", "release"}, NextRow(w)
  PROVE  /\ batch' \in [Workers -> Seq(Rows)]
         /\ pc' \in [Workers -> {"idle", "claim", "publish", "mark", "release", "dead"}]
         /\ age' = age
         /\ \A v \in Workers : pc'[v] \in {"publish", "mark", "release"} => batch'[v] # << >>
         /\ IdleHasNone'
<1>1. age' = age
  BY DEF NextRow
<1>2. /\ batch' \in [Workers -> Seq(Rows)]
      /\ \A v \in Workers \ {w} : batch'[v] = batch[v]
      /\ pc' = [pc EXCEPT ![w] = IF batch'[w] = << >> THEN "idle" ELSE "publish"]
  BY NextRowLemma
<1>3. /\ pc \in [Workers -> {"idle", "claim", "publish", "mark", "release", "dead"}]
      /\ \A v \in Workers : pc[v] \in {"publish", "mark", "release"} => batch[v] # << >>
  BY DEF TypeOK
<1>4. /\ \A v \in Workers \ {w} : pc'[v] = pc[v]
      /\ pc'[w] = IF batch'[w] = << >> THEN "idle" ELSE "publish"
      /\ pc' \in [Workers -> {"idle", "claim", "publish", "mark", "release", "dead"}]
  BY <1>2, <1>3
<1>5. QED
  BY <1>1, <1>2, <1>3, <1>4 DEF IdleHasNone

(* No step takes a variable out of its domain. *)
LEMMA TypeStep == TypeOK /\ IdleHasNone /\ [Next]_vars => TypeOK' /\ IdleHasNone'
<1> SUFFICES ASSUME TypeOK, IdleHasNone, [Next]_vars PROVE TypeOK' /\ IdleHasNone'
  OBVIOUS
<1> DEFINE Goal == TypeOK' /\ IdleHasNone'
<1> USE RelayAssumption DEF TypeOK, IdleHasNone, rowVars, workerVars, envVars, Goto, Fault
<1>1. ASSUME NEW r \in Rows, Enqueue(r) PROVE Goal
  BY <1>1 DEF Enqueue
<1>2. ASSUME NEW w \in Workers, StartTick(w) PROVE Goal
  BY <1>2 DEF StartTick
<1>3. ASSUME NEW w \in Workers, ClaimRow(w) PROVE Goal
  <2>1. PICK r \in Rows : /\ lease' = [lease EXCEPT ![r] = LeaseFor - age[w]]
                          /\ batch' = [batch EXCEPT ![w] = Append(batch[w], r)]
    BY <1>3 DEF ClaimRow, Claimable, LeaseFrom
  <2>2. Append(batch[w], r) \in Seq(Rows)
    BY AppendLemma
  <2>3. LeaseFor - age[w] \in Int
    OBVIOUS
  <2>4. batch' \in [Workers -> Seq(Rows)] /\ lease' \in [Rows -> Int]
        /\ \A v \in Workers \ {w} : batch'[v] = batch[v]
    BY <2>1, <2>2, <2>3
  <2>5. /\ pc[w] = "claim"
        /\ UNCHANGED <<status, wait, pc, age, stream, closed, faults>>
        /\ overran' \in BOOLEAN
    BY <1>3 DEF ClaimRow, NoteOverrun
  <2>6. QED
    BY <2>4, <2>5
<1>4. ASSUME NEW w \in Workers, EndClaim(w) PROVE Goal
  BY <1>4 DEF EndClaim, AfterClaim
<1>5. ASSUME NEW w \in Workers, Confirmed(w) \/ NotConfirmed(w) PROVE Goal
  <2>1. pc[w] = "publish" /\ Row(w) \in Rows /\ batch[w] # << >>
    BY <1>5, BatchLemma DEF Confirmed, NotConfirmed
  <2>2. stream' = stream \/ stream' = Append(stream, Row(w))
    BY <1>5 DEF Confirmed, NotConfirmed, Accepted, Attempted
  <2>3. Append(stream, Row(w)) \in Seq(Rows)
    BY <2>1, AppendLemma
  <2>4. stream' \in Seq(Rows)
    BY <2>2, <2>3
  <2>5. /\ UNCHANGED <<rowVars, batch, age, closed, overran>>
        /\ faults' \in 0..MaxFaults
        /\ pc' = [pc EXCEPT ![w] = "mark"] \/ pc' = [pc EXCEPT ![w] = "release"]
    BY <1>5 DEF Confirmed, NotConfirmed
  <2>6. QED
    BY <2>1, <2>4, <2>5
<1>6. ASSUME NEW w \in Workers, MarkPublished(w) PROVE Goal
  <2>1. pc[w] = "mark" /\ NextRow(w) /\ Row(w) \in Rows
    BY <1>6, BatchLemma DEF MarkPublished
  <2>2. status' \in [Rows -> {"ABSENT", "PENDING", "PUBLISHED"}]
        /\ UNCHANGED <<wait, lease, stream, envVars>>
    BY <1>6, <2>1 DEF MarkPublished
  <2>3. QED
    BY <2>1, <2>2, NextRowTypes
<1>7. ASSUME NEW w \in Workers, MarkFails(w) PROVE Goal
  BY <1>7 DEF MarkFails
<1>8. ASSUME NEW w \in Workers, Release(w) PROVE Goal
  <2>1. pc[w] = "release" /\ NextRow(w) /\ Row(w) \in Rows
    BY <1>8, BatchLemma DEF Release
  <2>2. /\ wait' \in [Rows -> Int]
        /\ lease' \in [Rows -> Int]
        /\ UNCHANGED <<status, stream, envVars>>
    BY <1>8, <2>1 DEF Release, NoLease
  <2>3. QED
    BY <2>1, <2>2, NextRowTypes
<1>9. ASSUME NEW w \in Workers, Die(w) PROVE Goal
  BY <1>9 DEF Die
<1>10. ASSUME NEW w \in Workers, Restart(w) PROVE Goal
  BY <1>10 DEF Restart
<1>11. ASSUME Elapse PROVE Goal
  BY <1>11 DEF Elapse, Busy, NoLease, NoteOverrun
<1>12. ASSUME NEW w \in Workers, PublishThrows(w) PROVE Goal
  BY <1>12 DEF PublishThrows
<1>13. ASSUME NEW w \in Workers, ChannelCloses(w) PROVE Goal
  BY <1>13 DEF ChannelCloses
<1>14. ASSUME UNCHANGED vars PROVE Goal
  BY <1>14 DEF vars
<1>15. QED
  BY <1>1, <1>2, <1>3, <1>4, <1>5, <1>6, <1>7, <1>8, <1>9, <1>10, <1>11, <1>12, <1>13, <1>14
  DEF Next, Work

(* The stream grows by one row at most, which a worker holds. *)
LEMMA StreamStep ==
  ASSUME TypeOK, [Next]_vars
  PROVE  \/ stream' = stream
         \/ \E w \in Workers : /\ Row(w) \in Rows /\ Row(w) \in Elems(batch[w])
                               /\ stream' = Append(stream, Row(w))
<1>1. stream' = stream \/ \E w \in Workers : Confirmed(w) \/ NotConfirmed(w)
  BY DEF Next, Work, Enqueue, StartTick, ClaimRow, EndClaim, PublishThrows, MarkPublished,
         MarkFails, Release, Die, Restart, ChannelCloses, Elapse, vars
<1>2. ASSUME NEW w \in Workers, Confirmed(w) \/ NotConfirmed(w), stream' # stream
      PROVE  /\ Row(w) \in Rows /\ Row(w) \in Elems(batch[w])
             /\ stream' = Append(stream, Row(w))
  BY <1>2, BatchLemma DEF Confirmed, NotConfirmed, Accepted, Attempted
<1>3. QED
  BY <1>1, <1>2

(* A step commits one row, or marks one that its worker holds, or leaves the
   status of every row as it is. *)
LEMMA StatusStep ==
  ASSUME TypeOK, [Next]_vars
  PROVE  \/ status' = status
         \/ \E r \in Rows : status[r] = "ABSENT" /\ status' = [status EXCEPT ![r] = "PENDING"]
         \/ \E w \in Workers : /\ Row(w) \in Rows /\ Row(w) \in Elems(batch[w])
                               /\ status' = [status EXCEPT ![Row(w)] = "PUBLISHED"]
<1>1. \/ status' = status
      \/ \E r \in Rows : Enqueue(r)
      \/ \E w \in Workers : MarkPublished(w)
  BY DEF Next, Work, StartTick, ClaimRow, EndClaim, Confirmed, NotConfirmed, PublishThrows,
         MarkFails, Release, Die, Restart, ChannelCloses, Elapse, vars, rowVars
<1>2. QED
  BY <1>1, BatchLemma DEF Enqueue, MarkPublished

(* A batch grows by a row that is PENDING, and by nothing else. *)
LEMMA BatchStep ==
  ASSUME TypeOK, [Next]_vars, NEW w \in Workers
  PROVE  \A r \in Elems(batch'[w]) : r \in Elems(batch[w]) \/ (r \in Rows /\ status[r] = "PENDING")
<1>1. \/ batch' = batch
      \/ \E v \in Workers : ClaimRow(v) \/ MarkPublished(v) \/ Release(v) \/ Die(v)
  BY DEF Next, Work, Enqueue, StartTick, EndClaim, Confirmed, NotConfirmed, PublishThrows,
         MarkFails, Restart, ChannelCloses, Elapse, vars, workerVars, Goto
<1>2. ASSUME NEW v \in Workers, ClaimRow(v)
      PROVE  \A r \in Elems(batch'[w]) : r \in Elems(batch[w]) \/ (r \in Rows /\ status[r] = "PENDING")
  <2>1. PICK q \in Rows : status[q] = "PENDING" /\ batch' = [batch EXCEPT ![v] = Append(batch[v], q)]
    BY <1>2 DEF ClaimRow, Claimable
  <2>2. Elems(Append(batch[v], q)) = Elems(batch[v]) \cup {q}
    BY AppendLemma DEF TypeOK
  <2>3. batch'[w] = IF w = v THEN Append(batch[v], q) ELSE batch[w]
    BY <2>1 DEF TypeOK
  <2>4. QED
    BY <2>1, <2>2, <2>3
<1>3. ASSUME NEW v \in Workers, MarkPublished(v) \/ Release(v)
      PROVE  Elems(batch'[w]) \subseteq Elems(batch[w])
  BY <1>3, NextRowLemma DEF MarkPublished, Release
<1>4. ASSUME NEW v \in Workers, Die(v)
      PROVE  Elems(batch'[w]) \subseteq Elems(batch[w])
  BY <1>4, EmptyLemma DEF Die, TypeOK
<1>5. QED
  BY <1>1, <1>2, <1>3, <1>4

(* What is claimed was committed, and so is what is sent; nothing is taken back. *)
LEMMA CommittedStep == TypeOK /\ OnlyCommittedRows /\ [Next]_vars => OnlyCommittedRows'
<1> SUFFICES ASSUME TypeOK, OnlyCommittedRows, [Next]_vars PROVE OnlyCommittedRows'
  OBVIOUS
<1>1. \A r \in Rows : status[r] # "ABSENT" => status'[r] # "ABSENT"
  BY StatusStep DEF TypeOK
<1>2. Elems(stream) \subseteq Rows
  BY DEF Elems, TypeOK
<1>3. ASSUME NEW w \in Workers, NEW r \in Elems(batch'[w]) PROVE status'[r] # "ABSENT"
  <2>1. r \in Rows
    BY <1>3, BatchLemma, BatchStep
  <2>2. QED
    BY <1>1, <1>3, <2>1, BatchStep DEF OnlyCommittedRows
<1>4. ASSUME NEW r \in Elems(stream') PROVE status'[r] # "ABSENT"
  <2>1. CASE stream' = stream
    BY <1>1, <1>2, <1>4, <2>1 DEF OnlyCommittedRows
  <2>2. CASE \E w \in Workers : /\ Row(w) \in Rows /\ Row(w) \in Elems(batch[w])
                                /\ stream' = Append(stream, Row(w))
    <3>1. PICK w \in Workers : /\ Row(w) \in Rows /\ Row(w) \in Elems(batch[w])
                              /\ stream' = Append(stream, Row(w))
      BY <2>2
    <3>2. r \in Elems(stream) \cup {Row(w)}
      BY <1>4, <3>1, AppendLemma DEF TypeOK
    <3>3. QED
      BY <1>1, <1>2, <3>1, <3>2 DEF OnlyCommittedRows
  <2>3. QED
    BY <2>1, <2>2, StreamStep
<1>5. QED
  BY <1>3, <1>4 DEF OnlyCommittedRows

(* Nothing is marked or stays PUBLISHED that the broker does not have. *)
LEMMA AcceptedStep ==
  TypeOK /\ MarkedWasAccepted /\ PublishedWasAccepted /\ [Next]_vars
    => MarkedWasAccepted' /\ PublishedWasAccepted'
<1> SUFFICES ASSUME TypeOK, MarkedWasAccepted, PublishedWasAccepted, [Next]_vars
             PROVE  MarkedWasAccepted' /\ PublishedWasAccepted'
  OBVIOUS
<1> DEFINE Goal == MarkedWasAccepted' /\ PublishedWasAccepted'
<1>1. PublishedWasAccepted <=> \A r \in Rows : status[r] = "PUBLISHED" => r \in Elems(stream)
  BY DEF PublishedWasAccepted, Elems
<1>2. PublishedWasAccepted' <=> \A r \in Rows : status'[r] = "PUBLISHED" => r \in Elems(stream')
  BY DEF PublishedWasAccepted, Elems
<1>3. \A w \in Workers : pc[w] \in {"publish", "mark", "release"} =>
        /\ Row(w) \in Rows
        /\ Elems(Append(stream, Row(w))) = Elems(stream) \cup {Row(w)}
  BY BatchLemma, AppendLemma DEF TypeOK
<1> USE <1>1, <1>2, <1>3 DEF MarkedWasAccepted, Row, rowVars, workerVars, envVars, Goto
<1>4. ASSUME NEW r \in Rows, Enqueue(r) PROVE Goal
  BY <1>4 DEF Enqueue, TypeOK
<1>5. ASSUME NEW w \in Workers,
             \/ StartTick(w) \/ EndClaim(w) \/ PublishThrows(w)
             \/ MarkFails(w) \/ Restart(w) \/ ChannelCloses(w)
      PROVE  Goal
  BY <1>5 DEF StartTick, EndClaim, AfterClaim, PublishThrows, MarkFails, Restart, ChannelCloses,
              TypeOK
<1>6. ASSUME NEW w \in Workers, ClaimRow(w) PROVE Goal
  BY <1>6 DEF ClaimRow, TypeOK
<1>7. ASSUME NEW w \in Workers, Confirmed(w) PROVE Goal
  BY <1>7 DEF Confirmed, Accepted, TypeOK
<1>8. ASSUME NEW w \in Workers, NotConfirmed(w) PROVE Goal
  BY <1>8 DEF NotConfirmed, Attempted, TypeOK
<1>9. ASSUME NEW w \in Workers, pc[w] \in {"mark", "release"}, NextRow(w), stream' = stream,
             \A r \in Rows : status'[r] = "PUBLISHED" =>
                               status[r] = "PUBLISHED" \/ (r = Row(w) /\ pc[w] = "mark")
      PROVE  Goal
  <2>1. /\ pc' = [pc EXCEPT ![w] = IF batch'[w] = << >> THEN "idle" ELSE "publish"]
        /\ \A v \in Workers \ {w} : batch'[v] = batch[v]
    BY <1>9, NextRowLemma
  <2>2. \A v \in Workers : pc'[v] = "mark" => v # w /\ pc[v] = "mark" /\ Row(v)' = Row(v)
    BY <2>1 DEF TypeOK
  <2>3. QED
    BY <1>9, <2>2
<1>10. ASSUME NEW w \in Workers, MarkPublished(w) \/ Release(w) PROVE Goal
  <2>1. pc[w] \in {"mark", "release"} /\ NextRow(w) /\ stream' = stream
    BY <1>10 DEF MarkPublished, Release
  <2>2. ASSUME NEW r \in Rows, status'[r] = "PUBLISHED"
        PROVE  status[r] = "PUBLISHED" \/ (r = Row(w) /\ pc[w] = "mark")
    BY <1>10, <2>2 DEF MarkPublished, Release, TypeOK
  <2>3. QED
    BY <1>9, <2>1, <2>2
<1>11. ASSUME NEW w \in Workers, Die(w) PROVE Goal
  BY <1>11 DEF Die, TypeOK
<1>12. ASSUME Elapse \/ UNCHANGED vars PROVE Goal
  BY <1>12 DEF Elapse, vars
<1>13. QED
  BY <1>4, <1>5, <1>6, <1>7, <1>8, <1>10, <1>11, <1>12 DEF Next, Work

(* Whether a worker overran is never forgotten, and a step that notes it knows
   the batches and ages it leads to. *)
LEMMA OverranStep ==
  ASSUME [Next]_vars
  PROVE  /\ overran => overran'
         /\ NoteOverrun /\ ~overran' =>
              \A w \in Workers : batch'[w] # << >> => ~(age'[w] >= LeaseFor)
<1>1. overran' = overran \/ NoteOverrun
  BY DEF Next, Work, Enqueue, StartTick, ClaimRow, EndClaim, Confirmed, NotConfirmed, PublishThrows,
         MarkPublished, MarkFails, Release, Die, Restart, ChannelCloses, Elapse, vars, envVars, Fault
<1>2. NoteOverrun => (overran' <=> overran \/ \E w \in Workers : Overruns(w)')
  BY DEF NoteOverrun
<1>3. overran => overran'
  BY <1>1, <1>2
<1>4. \A w \in Workers : Overruns(w)' <=> batch'[w] # << >> /\ age'[w] >= LeaseFor
  BY DEF Overruns
<1>5. QED
  BY <1>2, <1>3, <1>4

(* A lease taken within its term belongs to one worker. *)
LEMMA LeaseStep ==
  TypeOK /\ IdleHasNone /\ LeasesAreHeld /\ [Next]_vars => LeasesAreHeld'
<1> SUFFICES ASSUME TypeOK, IdleHasNone, LeasesAreHeld, [Next]_vars, ~overran'
             PROVE  /\ \A w \in Workers : LeaseHeld(w)'
                    /\ \A v, w \in Workers : Elems(batch'[v]) \cap Elems(batch'[w]) # {} => v = w
  BY DEF LeasesAreHeld
<1> DEFINE Goal == /\ \A w \in Workers : LeaseHeld(w)'
                   /\ \A v, w \in Workers : Elems(batch'[v]) \cap Elems(batch'[w]) # {} => v = w
<1>1. /\ \A w \in Workers : LeaseHeld(w)
      /\ \A v, w \in Workers : Elems(batch[v]) \cap Elems(batch[w]) # {} => v = w
  BY OverranStep DEF LeasesAreHeld
<1>2. ASSUME UNCHANGED <<lease, batch, age>> PROVE Goal
  BY <1>1, <1>2 DEF LeaseHeld, LeaseFrom
<1>3. ASSUME NEW w \in Workers, StartTick(w) PROVE Goal
  BY <1>1, <1>3, EmptyLemma DEF StartTick, LeaseHeld, LeaseFrom, IdleHasNone, TypeOK, rowVars
<1>4. ASSUME NEW w \in Workers, ClaimRow(w) PROVE Goal
  <2>1. PICK r \in Rows : /\ r \in Claimable(w)
                          /\ lease' = [lease EXCEPT ![r] = LeaseFrom(w)]
                          /\ batch' = [batch EXCEPT ![w] = Append(batch[w], r)]
    BY <1>4 DEF ClaimRow, Claimable
  <2>2. age' = age /\ \A v \in Workers : batch'[v] # << >> => age'[v] < LeaseFor
    <3>1. age' = age /\ NoteOverrun
      BY <1>4 DEF ClaimRow
    <3>2. \A v \in Workers : batch'[v] # << >> => ~(age'[v] >= LeaseFor)
      BY <3>1, OverranStep
    <3>3. LeaseFor \in Nat /\ \A v \in Workers : age[v] \in Nat
      BY RelayAssumption DEF TypeOK
    <3>4. QED
      BY <3>1, <3>2, <3>3
  <2>3. /\ batch'[w] = Append(batch[w], r)
        /\ \A v \in Workers \ {w} : batch'[v] = batch[v]
        /\ batch[w] \in Seq(Rows)
    BY <2>1 DEF TypeOK
  <2>4. /\ Elems(batch'[w]) = Elems(batch[w]) \cup {r}
        /\ batch'[w] # << >>
        /\ Distinct(batch[w]) /\ r \notin Elems(batch[w]) => Distinct(batch'[w])
    BY <2>3, AppendLemma
  <2>5. \A v \in Workers : r \notin Elems(batch[v])
    <3> SUFFICES ASSUME NEW v \in Workers, r \in Elems(batch[v]) PROVE FALSE
      OBVIOUS
    <3>1. batch[v] # << >>
      BY EmptyLemma
    <3>2. lease[r] = LeaseFor - age[v] /\ age[v] < LeaseFor
      BY <1>1, <3>1 DEF LeaseHeld, LeaseFrom
    <3>3. lease[r] = LeaseFor + 1 \/ lease[r] <= -age[w]
      BY <2>1 DEF Claimable, Free, NoLease
    <3>4. age[v] \in Nat /\ age[w] \in Nat /\ LeaseFor \in Nat
      BY RelayAssumption DEF TypeOK
    <3>5. QED
      BY <3>2, <3>3, <3>4
  <2>6. \A v \in Workers : \A q \in Elems(batch'[v]) : lease'[q] = LeaseFor - age[v]
    <3> SUFFICES ASSUME NEW v \in Workers, NEW q \in Elems(batch'[v])
                 PROVE  lease'[q] = LeaseFor - age[v]
      OBVIOUS
    <3>1. CASE v = w /\ q = r
      BY <2>1, <3>1 DEF LeaseFrom, TypeOK
    <3>2. CASE q \in Elems(batch[v])
      <4>1. q # r /\ q \in Rows
        BY <2>5, <3>2, BatchLemma
      <4>2. lease'[q] = lease[q]
        BY <2>1, <4>1 DEF TypeOK
      <4>3. QED
        BY <1>1, <3>2, <4>2 DEF LeaseHeld, LeaseFrom
    <3>3. QED
      BY <2>3, <2>4, <3>1, <3>2
  <2>7. \A v \in Workers : Distinct(batch'[v])
    BY <1>1, <2>3, <2>4, <2>5 DEF LeaseHeld
  <2>8. \A u, v \in Workers : Elems(batch'[u]) \cap Elems(batch'[v]) # {} => u = v
    <3>1. ASSUME NEW v \in Workers \ {w}
          PROVE  Elems(batch'[v]) \cap Elems(batch'[w]) = {}
      <4>1. Elems(batch[v]) \cap Elems(batch[w]) = {} /\ r \notin Elems(batch[v])
        BY <1>1, <2>5
      <4>2. QED
        BY <2>3, <2>4, <4>1
    <3>2. ASSUME NEW u \in Workers \ {w}, NEW v \in Workers \ {w}
          PROVE  Elems(batch'[u]) \cap Elems(batch'[v]) # {} => u = v
      BY <1>1, <2>3
    <3>3. QED
      BY <3>1, <3>2
  <2>9. QED
    BY <2>2, <2>6, <2>7, <2>8 DEF LeaseHeld, LeaseFrom
<1>5. ASSUME NEW w \in Workers, pc[w] \in {"mark", "release"}, NextRow(w),
             \A r \in Rows \ {Row(w)} : lease'[r] = lease[r]
      PROVE  Goal
  <2>1. /\ age' = age
        /\ \A v \in Workers \ {w} : batch'[v] = batch[v]
        /\ \A v \in Workers : Elems(batch'[v]) \subseteq Elems(batch[v])
        /\ Distinct(batch'[w]) /\ Row(w) \notin Elems(batch'[w])
    BY <1>1, <1>5, NextRowLemma DEF NextRow, LeaseHeld
  <2>2. Row(w) \in Elems(batch[w]) /\ batch[w] # << >>
    BY <1>5, BatchLemma
  <2>3. \A v \in Workers : \A r \in Elems(batch'[v]) : r # Row(w) /\ r \in Rows
    <3> SUFFICES ASSUME NEW v \in Workers, NEW r \in Elems(batch'[v])
                 PROVE  r # Row(w) /\ r \in Rows
      OBVIOUS
    <3>1. r \in Elems(batch[v]) /\ r \in Rows
      BY <2>1, BatchLemma
    <3>2. CASE v = w
      BY <2>1, <3>1, <3>2
    <3>3. CASE v # w
      BY <1>1, <2>2, <3>1, <3>3
    <3>4. QED
      BY <3>2, <3>3
  <2>4. \A v \in Workers : \A r \in Elems(batch'[v]) : lease'[r] = lease[r]
    BY <1>5, <2>3
  <2>5. QED
    BY <1>1, <2>1, <2>2, <2>4 DEF LeaseHeld, LeaseFrom
<1>6. ASSUME NEW w \in Workers, MarkPublished(w) \/ Release(w) PROVE Goal
  BY <1>5, <1>6 DEF MarkPublished, Release, TypeOK
<1>7. ASSUME NEW w \in Workers, Die(w) PROVE Goal
  BY <1>1, <1>7, EmptyLemma DEF Die, LeaseHeld, LeaseFrom, TypeOK, rowVars
<1>8. ASSUME Elapse PROVE Goal
  <2>1. batch' = batch /\ \A v \in Workers : batch[v] # << >> => ~(age'[v] >= LeaseFor)
    BY <1>8, OverranStep DEF Elapse
  <2>2. ASSUME NEW v \in Workers, NEW r \in Elems(batch[v]) PROVE lease'[r] = LeaseFor - age'[v]
    <3>1. batch[v] # << >> /\ r \in Rows
      BY <2>2, EmptyLemma, BatchLemma
    <3>2. lease[r] = LeaseFor - age[v] /\ age[v] < LeaseFor
      BY <1>1, <3>1 DEF LeaseHeld, LeaseFrom
    <3>3. age[v] \in Nat /\ LeaseFor \in Nat /\ MaxStall \in Nat
      BY RelayAssumption DEF TypeOK
    <3>4. age'[v] = age[v] + 1
      BY <1>8, <3>1 DEF Elapse, Busy, IdleHasNone, TypeOK
    <3>5. lease'[r] = IF lease[r] = LeaseFor + 1 THEN LeaseFor + 1
                      ELSE IF lease[r] > -MaxStall THEN lease[r] - 1 ELSE lease[r]
      BY <1>8, <3>1 DEF Elapse, NoLease
    <3>6. QED
      BY <3>2, <3>3, <3>4, <3>5
  <2>3. \A v \in Workers : age'[v] \in Nat
    BY <1>8 DEF Elapse, TypeOK
  <2>4. QED
    BY <1>1, <2>1, <2>2, <2>3, RelayAssumption DEF LeaseHeld, LeaseFrom
<1>9. ASSUME NEW w \in Workers,
             \/ EndClaim(w) \/ Confirmed(w) \/ NotConfirmed(w) \/ PublishThrows(w)
             \/ MarkFails(w) \/ Restart(w) \/ ChannelCloses(w)
      PROVE  Goal
  BY <1>2, <1>9 DEF EndClaim, Confirmed, NotConfirmed, PublishThrows, MarkFails, Restart,
                    ChannelCloses, Goto, rowVars, workerVars
<1>10. ASSUME NEW r \in Rows, Enqueue(r) PROVE Goal
  BY <1>2, <1>10 DEF Enqueue, workerVars
<1>11. ASSUME UNCHANGED vars PROVE Goal
  BY <1>2, <1>11 DEF vars, rowVars, workerVars
<1>12. QED
  BY <1>3, <1>4, <1>6, <1>7, <1>8, <1>9, <1>10, <1>11 DEF Next, Work

(* Without faults and overruns no step sends a row that was sent before. *)
LEMMA SentStep ==
  TypeOK /\ LeasesAreHeld /\ SentOnce /\ [Next]_vars => SentOnce'
<1> SUFFICES ASSUME TypeOK, LeasesAreHeld, SentOnce, [Next]_vars, faults' = 0, ~overran'
             PROVE  /\ closed' = {}
                    /\ \A w \in Workers : pc'[w] # "release"
                    /\ \A w \in Workers : \A r \in Elems(batch'[w]) : status'[r] = "PENDING"
                    /\ \A r \in Elems(stream') :
                         status'[r] = "PUBLISHED" \/ \E w \in Workers : pc'[w] = "mark" /\ Row(w)' = r
                    /\ Distinct(stream')
  BY DEF SentOnce
<1> DEFINE Goal == /\ closed' = {}
                   /\ \A w \in Workers : pc'[w] # "release"
                   /\ \A w \in Workers : \A r \in Elems(batch'[w]) : status'[r] = "PENDING"
                   /\ \A r \in Elems(stream') :
                        status'[r] = "PUBLISHED" \/ \E w \in Workers : pc'[w] = "mark" /\ Row(w)' = r
                   /\ Distinct(stream')
<1>1. /\ ~overran /\ faults = 0
      /\ ~(\E w \in Workers : NotConfirmed(w) \/ MarkFails(w) \/ Die(w) \/ ChannelCloses(w))
  <2>1. faults \in Nat /\ (faults' = faults \/ faults' = faults + 1)
    BY RelayAssumption
    DEF TypeOK, Next, Work, Enqueue, StartTick, ClaimRow, EndClaim, Confirmed, NotConfirmed,
        PublishThrows, MarkPublished, MarkFails, Release, Die, Restart, ChannelCloses, Elapse,
        vars, envVars, Fault
  <2>2. \A w \in Workers : NotConfirmed(w) \/ MarkFails(w) \/ Die(w) \/ ChannelCloses(w)
                            => faults' = faults + 1
    BY DEF NotConfirmed, MarkFails, Die, ChannelCloses, Fault
  <2>3. QED
    BY <2>1, <2>2, OverranStep
<1>2. /\ closed = {}
      /\ \A w \in Workers : pc[w] # "release"
      /\ \A w \in Workers : \A r \in Elems(batch[w]) : status[r] = "PENDING"
      /\ \A r \in Elems(stream) :
           status[r] = "PUBLISHED" \/ \E w \in Workers : pc[w] = "mark" /\ Row(w) = r
      /\ Distinct(stream)
  BY <1>1 DEF SentOnce
<1>3. /\ \A w \in Workers : Distinct(batch[w])
      /\ \A v, w \in Workers : Elems(batch[v]) \cap Elems(batch[w]) # {} => v = w
  BY <1>1 DEF LeasesAreHeld, LeaseHeld
<1>4. ASSUME UNCHANGED <<status, batch, stream>>, closed' \subseteq closed,
             \A w \in Workers : pc'[w] = pc[w] \/ (pc[w] # "mark" /\ pc'[w] # "release")
      PROVE  Goal
  BY <1>2, <1>4 DEF Row
<1>5. ASSUME NEW r \in Rows, Enqueue(r) PROVE Goal
  <2>1. /\ status[r] = "ABSENT"
        /\ \A q \in Rows : status'[q] = IF q = r THEN "PENDING" ELSE status[q]
        /\ UNCHANGED <<batch, pc, stream, closed>>
    BY <1>5 DEF Enqueue, workerVars, envVars, TypeOK
  <2>2. Elems(stream) \subseteq Rows /\ \A w \in Workers : Elems(batch[w]) \subseteq Rows
    BY BatchLemma DEF Elems, TypeOK
  <2>3. QED
    BY <1>2, <2>1, <2>2 DEF Row
<1>6. ASSUME NEW w \in Workers, StartTick(w) \/ EndClaim(w) \/ Restart(w) PROVE Goal
  BY <1>4, <1>6 DEF StartTick, EndClaim, AfterClaim, Restart, Goto, rowVars, envVars, TypeOK
<1>7. ASSUME NEW w \in Workers, ClaimRow(w) PROVE Goal
  <2>1. PICK r \in Rows : /\ status[r] = "PENDING"
                          /\ batch' = [batch EXCEPT ![w] = Append(batch[w], r)]
    BY <1>7 DEF ClaimRow, Claimable
  <2>2. /\ batch'[w] = Append(batch[w], r)
        /\ \A v \in Workers \ {w} : batch'[v] = batch[v]
        /\ batch[w] \in Seq(Rows)
    BY <2>1 DEF TypeOK
  <2>3. Elems(batch'[w]) = Elems(batch[w]) \cup {r}
    BY <2>2, AppendLemma
  <2>4. pc[w] = "claim" /\ UNCHANGED <<status, pc, stream, closed>>
    BY <1>7 DEF ClaimRow
  <2>5. \A v \in Workers : pc[v] = "mark" => Row(v)' = Row(v)
    BY <2>2, <2>4 DEF Row
  <2>6. QED
    BY <1>2, <2>1, <2>2, <2>3, <2>4, <2>5
<1>8. ASSUME NEW w \in Workers, Confirmed(w) PROVE Goal
  <2>1. /\ pc[w] = "publish" /\ pc' = [pc EXCEPT ![w] = "mark"]
        /\ stream' = Append(stream, Row(w))
        /\ UNCHANGED <<status, batch, closed>>
    BY <1>8 DEF Confirmed, Accepted, Goto, rowVars, envVars
  <2>2. Row(w) \in Rows /\ Row(w) \in Elems(batch[w])
    BY <2>1, BatchLemma
  <2>3. Row(w) \notin Elems(stream)
    <3> SUFFICES ASSUME Row(w) \in Elems(stream) PROVE FALSE
      OBVIOUS
    <3>1. PICK v \in Workers : pc[v] = "mark" /\ Row(v) = Row(w)
      BY <1>2, <2>2
    <3>2. Row(w) \in Elems(batch[v])
      BY <3>1, BatchLemma
    <3>3. QED
      BY <1>3, <2>1, <2>2, <3>1, <3>2
  <2>4. Elems(stream') = Elems(stream) \cup {Row(w)} /\ Distinct(stream')
    BY <1>2, <2>1, <2>2, <2>3, AppendLemma DEF TypeOK
  <2>5. \A v \in Workers : Row(v)' = Row(v) /\ pc'[v] = IF v = w THEN "mark" ELSE pc[v]
    BY <2>1 DEF Row, TypeOK
  <2>6. QED
    BY <1>2, <2>1, <2>4, <2>5
<1>9. ASSUME NEW w \in Workers, MarkPublished(w) PROVE Goal
  <2>1. /\ pc[w] = "mark" /\ stream' = stream /\ closed' = closed
        /\ Row(w) \in Rows /\ Row(w) \in Elems(batch[w])
        /\ \A q \in Rows : status'[q] = IF q = Row(w) THEN "PUBLISHED" ELSE status[q]
    BY <1>9, BatchLemma DEF MarkPublished, envVars, TypeOK
  <2>2. /\ pc' = [pc EXCEPT ![w] = IF batch'[w] = << >> THEN "idle" ELSE "publish"]
        /\ \A v \in Workers \ {w} : batch'[v] = batch[v]
        /\ \A v \in Workers : Elems(batch'[v]) \subseteq Elems(batch[v])
        /\ Row(w) \notin Elems(batch'[w])
    BY <1>3, <1>9, NextRowLemma DEF MarkPublished
  <2>3. \A v \in Workers : \A r \in Elems(batch'[v]) : r \in Rows /\ r # Row(w)
    <3> SUFFICES ASSUME NEW v \in Workers, NEW r \in Elems(batch'[v])
                 PROVE  r \in Rows /\ r # Row(w)
      OBVIOUS
    <3>1. r \in Elems(batch[v]) /\ r \in Rows
      BY <2>2, BatchLemma
    <3>2. CASE v = w
      BY <2>2, <3>1, <3>2
    <3>3. CASE v # w
      BY <1>3, <2>1, <3>1, <3>3
    <3>4. QED
      BY <3>2, <3>3
  <2>4. \A v \in Workers : \A r \in Elems(batch'[v]) : status'[r] = "PENDING"
    BY <1>2, <2>1, <2>2, <2>3
  <2>5. \A v \in Workers \ {w} : Row(v)' = Row(v) /\ pc'[v] = pc[v]
    BY <2>2 DEF Row, TypeOK
  <2>6. ASSUME NEW r \in Elems(stream)
        PROVE  status'[r] = "PUBLISHED" \/ \E v \in Workers : pc'[v] = "mark" /\ Row(v)' = r
    <3>1. r \in Rows
      BY DEF Elems, TypeOK
    <3>2. status[r] = "PUBLISHED" \/ \E v \in Workers : pc[v] = "mark" /\ Row(v) = r
      BY <1>2
    <3>3. QED
      BY <2>1, <2>5, <3>1, <3>2
  <2>7. \A v \in Workers : pc'[v] # "release"
    BY <1>2, <2>2 DEF TypeOK
  <2>8. QED
    BY <1>2, <2>1, <2>4, <2>6, <2>7
<1>10. ASSUME NEW w \in Workers, Release(w) PROVE Goal
  BY <1>2, <1>10 DEF Release
<1>11. ASSUME Elapse \/ UNCHANGED vars PROVE Goal
  BY <1>4, <1>11 DEF Elapse, vars, rowVars, workerVars, envVars
<1>12. ASSUME NEW w \in Workers, PublishThrows(w) PROVE Goal
  BY <1>2, <1>12 DEF PublishThrows
<1>13. QED
  BY <1>1, <1>5, <1>6, <1>7, <1>8, <1>9, <1>10, <1>11, <1>12 DEF Next, Work

-----------------------------------------------------------------------------

(* Every step preserves the invariant. *)
LEMMA InvariantStep == IInv /\ [Next]_vars => IInv'
  BY TypeStep, CommittedStep, AcceptedStep, LeaseStep, SentStep DEF IInv

(* The inductive invariant of OutboxRelay holds in every reachable state. *)
THEOREM Invariance == Spec => []IInv
  BY InitIsSound, InvariantStep, PTL DEF Spec

(* Every variable of OutboxRelay keeps its type, and a worker past the claim
   has a row to publish. *)
THEOREM TypeCorrect == Spec => []TypeOK
  BY Invariance, PTL DEF IInv

(* A row is PUBLISHED only if the broker has it, whichever of its holders
   marked it and whatever failed before. *)
THEOREM NothingMarkedUnsent == Spec => []PublishedWasAccepted
  BY Invariance, PTL DEF IInv

(* "Claim a batch atomically so multiple pods never publish the same row":
   true as long as no worker keeps a row longer than its lease. *)
OneHolder ==
  ~overran => \A v, w \in Workers : Held(v) \cap Held(w) # {} => v = w

(* No two workers hold a row, for any number of workers, until one of them
   keeps a batch beyond the lease it took. *)
THEOREM LeasesExclude == Spec => []OneHolder
<1>1. IInv => OneHolder
  BY BatchLemma DEF IInv, LeasesAreHeld, OneHolder
<1>2. QED
  BY <1>1, Invariance, PTL

(* The broker gets a row once unless there was a fault or an overrun. *)
THEOREM SentTwiceForAReason == Spec => []DuplicatesHaveACause
<1>1. IInv => DuplicatesHaveACause
  BY DEF IInv, SentOnce, Distinct, DuplicatesHaveACause
<1>2. QED
  BY <1>1, Invariance, PTL

=============================================================================
