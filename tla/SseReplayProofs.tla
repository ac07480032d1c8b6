--------------------------- MODULE SseReplayProofs ---------------------------
(***************************************************************************)
(* On an instance that is alone, what a client receives comes in the order *)
(* of the ids and after what it has acknowledged with Last-Event-ID: for   *)
(* any number of clients, any ring size, with or without the queue,        *)
(* broadcasts and connection:established, with a queue that fails or       *)
(* expires, and across restarts.                                           *)
(* On such an instance with a queue that holds everything, each event a    *)
(* client skips was emitted during a handshake, was never queued, or was   *)
(* acknowledged.                                                           *)
(* And on any instance, an acknowledgement prunes the queue of nothing     *)
(* newer than what was written to a stream.                                *)
(***************************************************************************)
EXTENDS SseReplay, FiniteSetTheorems, SequenceTheorems, TLAPS

-----------------------------------------------------------------------------
(* Sequences in order. *)

\* What a sequence of ids holds.
LEMMA SeqElements ==
    ASSUME NEW s \in Seq(Ids)
    PROVE  /\ Len(s) \in Nat
           /\ \A i \in 1..Len(s) : s[i] \in Ids /\ s[i] \in Nat
           /\ ToSet(s) = {s[i] : i \in 1..Len(s)}
           /\ ToSet(s) \subseteq Ids
<1>1. \A i \in 1..Len(s) : s[i] \in Ids
  OBVIOUS
<1>2. \A e \in Ids : e \in Nat
  BY DEF Ids
<1>3. Len(s) \in Nat /\ DOMAIN s = 1..Len(s)
  OBVIOUS
<1>4. ToSet(s) = {s[i] : i \in 1..Len(s)}
  BY <1>3 DEF ToSet
<1> QED
  BY <1>1, <1>2, <1>3, <1>4

\* Appending something greater than all there is keeps a sequence in order.
LEMMA AppendInOrder ==
    ASSUME NEW s \in Seq(Ids), InOrder(s), NEW e \in Ids,
           \A i \in 1..Len(s) : s[i] < e
    PROVE  InOrder(Append(s, e))
  BY DEF InOrder

\* So does taking the first one off.
LEMMA TailInOrder ==
    ASSUME NEW s \in Seq(Ids), InOrder(s), s # <<>>
    PROVE  /\ InOrder(Tail(s))
           /\ Tail(s) \in Seq(Ids)
           /\ Len(Tail(s)) = Len(s) - 1
           /\ \A i \in 1..Len(Tail(s)) : Tail(s)[i] = s[i + 1] /\ Head(s) < Tail(s)[i]
<1>1. /\ Tail(s) \in Seq(Ids)
      /\ Len(Tail(s)) = Len(s) - 1
      /\ \A i \in 1..Len(Tail(s)) : Tail(s)[i] = s[i + 1]
      /\ Head(s) = s[1]
  OBVIOUS
<1>2. \A i \in 1..Len(s) : s[i] \in Ids
  OBVIOUS
<1> QED
  BY <1>1, <1>2 DEF InOrder, Ids

\* Two sequences in order, all of the second above all of the first.
LEMMA ConcatInOrder ==
    ASSUME NEW s \in Seq(Ids), InOrder(s), NEW t \in Seq(Ids), InOrder(t),
           \A i \in 1..Len(s), j \in 1..Len(t) : s[i] < t[j]
    PROVE  InOrder(s \o t)
<1>1. /\ Len(s \o t) = Len(s) + Len(t)
      /\ \A i \in 1..Len(s) : (s \o t)[i] = s[i]
      /\ \A i \in (Len(s) + 1)..(Len(s) + Len(t)) : (s \o t)[i] = t[i - Len(s)]
  OBVIOUS
<1> SUFFICES ASSUME NEW i \in 1..Len(s \o t), NEW j \in 1..Len(s \o t), i < j
             PROVE  (s \o t)[i] < (s \o t)[j]
  BY DEF InOrder
<1>2. CASE j <= Len(s)
  BY <1>1, <1>2 DEF InOrder
<1>3. CASE i > Len(s)
  BY <1>1, <1>3 DEF InOrder
<1>4. CASE i <= Len(s) /\ j > Len(s)
  <2>1. i \in 1..Len(s) /\ j - Len(s) \in 1..Len(t)
    BY <1>1, <1>4
  <2> QED
    BY <1>1, <1>4, <2>1
<1> QED
  BY <1>1, <1>2, <1>3, <1>4

\* What holds of the elements of two sequences holds of their concatenation.
LEMMA ConcatElements ==
    ASSUME NEW s \in Seq(Ids), NEW t \in Seq(Ids)
    PROVE  /\ s \o t \in Seq(Ids)
           /\ \A k \in 1..Len(s \o t) : \/ \E i \in 1..Len(s) : (s \o t)[k] = s[i]
                                       \/ \E j \in 1..Len(t) : (s \o t)[k] = t[j]
<1>1. /\ s \o t \in Seq(Ids)
      /\ Len(s \o t) = Len(s) + Len(t)
      /\ \A k \in 1..(Len(s) + Len(t)) : (s \o t)[k] = IF k <= Len(s) THEN s[k] ELSE t[k - Len(s)]
  BY ConcatProperties
<1>2. Len(s) \in Nat /\ Len(t) \in Nat
  OBVIOUS
<1>3. \A m, n \in Nat : \A k \in 1..(m + n) : IF k <= m THEN k \in 1..m ELSE k - m \in 1..n
  OBVIOUS
<1> QED
  BY <1>1, <1>2, <1>3

-----------------------------------------------------------------------------
(* A stream with or without connection:established. *)

Wires == Seq({AutoId} \cup Ids)

\* Another event on the wire is another event to come.
LEMMA ComingAppend ==
    ASSUME NEW w \in Wires, NEW e \in Ids
    PROVE  /\ Append(w, e) \in Wires
           /\ WithoutEstablished(Append(w, e)) = Append(WithoutEstablished(w), e)
<1>1. e # AutoId /\ e \in {AutoId} \cup Ids
  BY DEF Ids, AutoId
<1>2. Append(w, e) \in Wires /\ Append(w, e) # <<>>
  <2> DEFINE S == {AutoId} \cup Ids
  <2>1. w \in Seq(S) /\ e \in S
    BY <1>1 DEF Wires
  <2> HIDE DEF S
  <2>2. Append(w, e) \in Seq(S) /\ Append(w, e) # <<>>
    BY <2>1, AppendProperties
  <2> QED
    BY <2>2 DEF S, Wires
<1>3. CASE w = <<>>
  <2>1. Head(Append(w, e)) = e
    BY <1>3
  <2> QED
    BY <1>1, <1>2, <1>3, <2>1 DEF WithoutEstablished
<1>4. CASE w # <<>>
  <2>1. w \in Seq({AutoId} \cup Ids)
    BY DEF Wires
  <2>2. Head(Append(w, e)) = Head(w)
    BY <1>4, <2>1
  <2>3. Tail(Append(w, e)) = Append(Tail(w), e)
    <3> DEFINE S == {AutoId} \cup Ids
               s == Tail(Append(w, e))
               t == Append(Tail(w), e)
    <3>1. w \in Seq(S) /\ e \in S
      BY <1>1, <2>1
    <3> HIDE DEF S
    <3>2. s \in Seq(S) /\ t \in Seq(S) /\ Len(s) = Len(w) /\ Len(t) = Len(w)
      BY <1>4, <3>1
    <3>3. \A i \in 1..Len(w) : s[i] = t[i]
      BY <1>4, <3>1
    <3> HIDE DEF s, t
    <3>4. s = t
      BY <3>2, <3>3, SeqEqual
    <3> QED
      BY <3>4 DEF s, t
  <2> QED
    BY <1>2, <1>4, <2>2, <2>3 DEF WithoutEstablished
<1> QED
  BY <1>2, <1>3, <1>4

\* A sequence of ids has no connection:established to take off.
LEMMA ComingIds ==
    ASSUME NEW s \in Seq(Ids)
    PROVE  WithoutEstablished(s) = s
<1>1. CASE s = <<>>
  BY <1>1 DEF WithoutEstablished
<1>2. CASE s # <<>>
  <2>1. Head(s) \in Ids
    BY <1>2
  <2>2. Head(s) # AutoId
    BY <2>1 DEF Ids, AutoId
  <2> QED
    BY <2>2 DEF WithoutEstablished
<1> QED
  BY <1>1, <1>2

\* What a new stream starts with.
LEMMA ComingFirst ==
    ASSUME NEW s \in Seq(Ids)
    PROVE  /\ established \o s \in Wires
           /\ WithoutEstablished(established \o s) = s
<1> DEFINE S == {AutoId} \cup Ids
<1>1. s \in Seq(S)
  BY SeqMonotonic
<1>2. CASE EmitConnectionEvent
  <2> DEFINE w == <<AutoId>> \o s
  <2>1. established = <<AutoId>>
    BY <1>2 DEF established
  <2>2. AutoId \in S
    OBVIOUS
  <2> HIDE DEF S
  <2>3. <<AutoId>> \in Seq(S) /\ Len(<<AutoId>>) = 1 /\ <<AutoId>>[1] = AutoId
    BY <2>2
  <2>4. /\ w \in Seq(S) /\ Len(w) = Len(s) + 1 /\ w[1] = AutoId
        /\ \A i \in 1..Len(s) : w[i + 1] = s[i]
    <3>1. /\ w \in Seq(S) /\ Len(w) = 1 + Len(s)
          /\ \A i \in 1..(1 + Len(s)) : w[i] = IF i <= 1 THEN <<AutoId>>[i] ELSE s[i - 1]
      BY <1>1, <2>3, ConcatProperties
    <3> HIDE DEF w
    <3>2. Len(s) \in Nat
      OBVIOUS
    <3> QED
      BY <2>3, <3>1, <3>2
  <2> HIDE DEF w
  <2>5. w # <<>> /\ Head(w) = AutoId
    BY <2>4, <1>1
  <2>6. Tail(w) = s
    <3>1. /\ Tail(w) \in Seq(S) /\ Len(Tail(w)) = Len(s)
          /\ \A i \in 1..Len(s) : Tail(w)[i] = s[i]
      BY <1>1, <2>4, <2>5
    <3> QED
      BY <1>1, <3>1, SeqEqual
  <2>7. WithoutEstablished(w) = s
    BY <2>5, <2>6 DEF WithoutEstablished
  <2> QED
    BY <2>1, <2>4, <2>7 DEF w, S, Wires
<1>3. CASE ~EmitConnectionEvent
  <2>1. established \o s = s
    BY <1>3, ConcatEmptySeq DEF established
  <2> QED
    BY <1>1, <2>1, ComingIds DEF Wires
<1> QED
  BY <1>2, <1>3

\* What is received comes off what is to come, unless it is connection:established.
LEMMA ComingTail ==
    ASSUME NEW w \in Wires, w # <<>>, WithoutEstablished(w) \in Seq(Ids)
    PROVE  /\ Tail(w) \in Seq(Ids)
           /\ WithoutEstablished(Tail(w)) = Tail(w)
           /\ \/ Head(w) = AutoId /\ Tail(w) = WithoutEstablished(w)
              \/ Head(w) # AutoId /\ w = WithoutEstablished(w)
<1>1. CASE Head(w) = AutoId
  <2>1. Tail(w) = WithoutEstablished(w)
    BY <1>1 DEF WithoutEstablished
  <2> QED
    BY <1>1, <2>1, ComingIds
<1>2. CASE Head(w) # AutoId
  <2>1. w = WithoutEstablished(w)
    BY <1>2 DEF WithoutEstablished
  <2>2. w \in Seq(Ids)
    BY <2>1
  <2>3. Tail(w) \in Seq(Ids)
    BY <2>2
  <2> QED
    BY <1>2, <2>1, <2>3, ComingIds
<1> QED
  BY <1>1, <1>2

-----------------------------------------------------------------------------
(* The ring. *)

\* buf holds the latest members of S, without a hole.
Recent(buf, S) ==
    /\ InOrder(buf)
    /\ ToSet(buf) \subseteq S
    /\ \A e \in S : buf # <<>> /\ e >= Head(buf) => e \in ToSet(buf)

\* Dropping the oldest leaves the latest.
LEMMA TailRecent ==
    ASSUME NEW S \in SUBSET Nat, NEW buf \in Seq(Ids), Recent(buf, S), buf # <<>>
    PROVE  Recent(Tail(buf), S)
<1>1. /\ InOrder(Tail(buf)) /\ Tail(buf) \in Seq(Ids)
      /\ Len(Tail(buf)) = Len(buf) - 1 /\ Len(buf) \in Nat
      /\ \A i \in 1..Len(Tail(buf)) : Tail(buf)[i] = buf[i + 1] /\ Head(buf) < Tail(buf)[i]
      /\ Head(buf) = buf[1] /\ Head(buf) \in Nat
  BY TailInOrder, SeqElements DEF Recent
<1>2. /\ ToSet(buf) = {buf[i] : i \in 1..Len(buf)}
      /\ ToSet(Tail(buf)) = {Tail(buf)[i] : i \in 1..Len(Tail(buf))}
  BY <1>1, SeqElements
<1>3. ToSet(Tail(buf)) \subseteq ToSet(buf)
  <2>1. \A i \in 1..Len(Tail(buf)) : i + 1 \in 1..Len(buf)
    BY <1>1
  <2> QED
    BY <1>1, <1>2, <2>1
<1>4. ASSUME NEW e \in S, Tail(buf) # <<>>, e >= Head(Tail(buf))
      PROVE  e \in ToSet(Tail(buf))
  <2>1. Head(Tail(buf)) = Tail(buf)[1] /\ 1 \in 1..Len(Tail(buf)) /\ Head(Tail(buf)) \in Nat
    BY <1>1, <1>4, SeqElements
  <2>2. e > Head(buf) /\ e \in Nat
    <3>1. Head(buf) < Head(Tail(buf))
      BY <1>1, <2>1
    <3>2. e \in Nat /\ Head(buf) \in Nat /\ e >= Head(Tail(buf))
      BY <1>1, <1>4
    <3> QED
      BY <2>1, <3>1, <3>2
  <2>3. PICK i \in 1..Len(buf) : e = buf[i]
    BY <1>1, <1>2, <2>2 DEF Recent
  <2>4. i - 1 \in 1..Len(Tail(buf)) /\ Tail(buf)[i - 1] = e
    BY <1>1, <2>2, <2>3
  <2> QED
    BY <1>2, <2>4
<1> QED
  BY <1>1, <1>3, <1>4 DEF Recent

\* append keeps the ring within its size, with the latest in it.
LEMMA AppendFact ==
    ASSUME NEW buf \in Seq(Ids), Len(buf) <= ReplayBufferSize,
           NEW n \in Nat, NEW S \in SUBSET (1..n), Recent(buf, S), NEW e \in Ids, e = n + 1
    PROVE  /\ append(buf, e) \in Seq(Ids)
           /\ Len(append(buf, e)) <= ReplayBufferSize
           /\ Recent(append(buf, e), S \cup {e})
<1> DEFINE all == Append(buf, e)
<1>1. /\ all \in Seq(Ids)
      /\ Len(all) = Len(buf) + 1 /\ Len(buf) \in Nat
      /\ \A i \in 1..Len(buf) : all[i] = buf[i]
      /\ all[Len(buf) + 1] = e
      /\ all # <<>>
  BY AppendProperties
<1>2. /\ \A i \in 1..Len(buf) : buf[i] \in S /\ buf[i] \in Nat /\ buf[i] < e
      /\ ToSet(buf) = {buf[i] : i \in 1..Len(buf)}
  <2>1. ToSet(buf) = {buf[i] : i \in 1..Len(buf)}
    BY SeqElements
  <2>2. \A i \in 1..Len(buf) : buf[i] \in S
    BY <2>1 DEF Recent
  <2>3. \A d \in S : d \in Nat /\ d < e
    OBVIOUS
  <2> QED
    BY <2>1, <2>2, <2>3
<1>3. InOrder(all)
  BY <1>2, AppendInOrder DEF Recent
<1> HIDE DEF all
<1>4. ToSet(all) = ToSet(buf) \cup {e}
  <2>1. ToSet(all) = {all[i] : i \in 1..Len(all)}
    BY <1>1, SeqElements
  <2>2. \A i \in 1..Len(all) : i \in 1..Len(buf) \/ i = Len(buf) + 1
    BY <1>1
  <2>3. \A i \in 1..Len(buf) : i \in 1..Len(all)
    BY <1>1
  <2>4. Len(buf) + 1 \in 1..Len(all)
    BY <1>1
  <2> QED
    BY <1>1, <1>2, <2>1, <2>2, <2>3, <2>4
<1>5. ASSUME NEW d \in S \cup {e}, d >= Head(all) PROVE d \in ToSet(all)
  <2>1. Head(all) = all[1]
    BY <1>1
  <2>2. CASE d = e
    BY <1>4, <2>2
  <2>3. CASE d # e /\ buf = <<>>
    <3>1. Head(all) = e /\ d < e /\ d \in Nat
      BY <1>1, <2>1, <2>3
    <3> QED
      BY <1>5, <3>1
  <2>4. CASE d # e /\ buf # <<>>
    <3>1. Head(all) = Head(buf)
      BY <1>1, <2>1, <2>4
    <3> QED
      BY <1>4, <1>5, <2>4, <3>1 DEF Recent
  <2> QED
    BY <2>2, <2>3, <2>4
<1>6. Recent(all, S \cup {e})
  BY <1>3, <1>4, <1>5 DEF Recent
<1>7. append(buf, e) = IF Len(all) > ReplayBufferSize THEN Tail(all) ELSE all
  BY DEF append, all
<1>8. ReplayBufferSize \in Nat
  BY ReplayAssumption
<1>9. CASE Len(all) > ReplayBufferSize
  <2>1. append(buf, e) = Tail(all)
    BY <1>7, <1>9
  <2>2. Tail(all) \in Seq(Ids) /\ Len(Tail(all)) = Len(all) - 1
    BY <1>1
  <2>3. S \cup {e} \in SUBSET Nat
    OBVIOUS
  <2>4. Recent(Tail(all), S \cup {e})
    BY <1>1, <1>6, <2>3, TailRecent
  <2>5. Len(append(buf, e)) <= ReplayBufferSize
    <3>1. Len(append(buf, e)) = Len(buf)
      BY <1>1, <2>1, <2>2
    <3> QED
      BY <3>1
  <2> QED
    BY <2>1, <2>2, <2>4, <2>5
<1>10. CASE ~(Len(all) > ReplayBufferSize)
  <2>1. append(buf, e) = all
    BY <1>7, <1>10
  <2> QED
    BY <1>1, <1>6, <1>8, <1>10, <2>1
<1> QED
  BY <1>9, <1>10

\* What a handshake gets of the ring: nothing, or all there is above id.
LEMMA SinceFact ==
    ASSUME NEW S \in SUBSET Nat, NEW buf \in Seq(Ids), Recent(buf, S), NEW id \in Int
    PROVE  /\ since(buf, id) \in Seq(Ids)
           /\ InOrder(since(buf, id))
           /\ \A i \in 1..Len(since(buf, id)) : id < since(buf, id)[i] /\ since(buf, id)[i] \in S
           /\ \A e \in S : id < e => \/ e \in ToSet(since(buf, id))
                                     \/ \A i \in 1..Len(since(buf, id)) : since(buf, id)[i] < e
           /\ IndexOf(buf, id) # {} => \A e \in S : id < e => e \in ToSet(since(buf, id))
<1> DEFINE found == IndexOf(buf, id)
<1>1. CASE found = {}
  <2>1. since(buf, id) = <<>>
    BY <1>1 DEF since
  <2> QED
    BY <1>1, <2>1 DEF InOrder
<1>2. CASE found # {}
  <2> DEFINE k == CHOOSE i \in found : TRUE
             s == since(buf, id)
  <2>1. k \in 1..Len(buf) /\ buf[k] = id
    BY <1>2 DEF IndexOf
  <2>2. s = SubSeq(buf, k + 1, Len(buf))
    BY <1>2 DEF since
  <2>3. /\ Len(buf) \in Nat /\ k \in Nat
        /\ \A i \in 1..Len(buf) : buf[i] \in Ids /\ buf[i] \in Nat
        /\ ToSet(buf) = {buf[i] : i \in 1..Len(buf)}
        /\ Head(buf) = buf[1] /\ buf # <<>>
    BY <2>1, SeqElements
  <2> HIDE DEF k, found, s
  <2>4. /\ s \in Seq(Ids)
        /\ Len(s) = Len(buf) - k
        /\ \A i \in 1..Len(s) : s[i] = buf[k + i]
    BY <2>1, <2>2
  <2>5. \A i \in 1..Len(s) : k + i \in 1..Len(buf) /\ k < k + i
    BY <2>3, <2>4
  <2>6. InOrder(s)
    <3> SUFFICES ASSUME NEW i \in 1..Len(s), NEW j \in 1..Len(s), i < j
                 PROVE  s[i] < s[j]
      BY DEF InOrder
    <3>1. k + i \in 1..Len(buf) /\ k + j \in 1..Len(buf) /\ k + i < k + j
      BY <2>3, <2>5
    <3>2. buf[k + i] < buf[k + j]
      BY <3>1 DEF Recent, InOrder
    <3> QED
      BY <2>4, <3>2
  <2>7. \A i \in 1..Len(s) : id < s[i] /\ s[i] \in S
    BY <2>1, <2>3, <2>4, <2>5 DEF Recent, InOrder
  <2>8. ASSUME NEW e \in S, id < e PROVE e \in ToSet(s)
    <3>1. id >= Head(buf)
      <4>1. CASE k = 1
        BY <2>1, <2>3, <4>1
      <4>2. CASE k > 1
        BY <2>1, <2>3, <4>2 DEF Recent, InOrder
      <4> QED
        BY <2>1, <4>1, <4>2
    <3>2. e \in Nat /\ e >= Head(buf)
      BY <2>3, <2>8, <3>1
    <3>3. PICK j \in 1..Len(buf) : e = buf[j]
      BY <2>3, <3>2 DEF Recent
    <3>4. j > k
      <4> SUFFICES ASSUME j <= k PROVE FALSE
        BY <2>1
      <4>1. buf[j] <= buf[k]
        BY <2>1, <2>3 DEF Recent, InOrder
      <4> QED
        BY <2>1, <2>3, <2>8, <3>3, <4>1
    <3>5. j - k \in 1..Len(s) /\ s[j - k] = e
      BY <2>1, <2>3, <2>4, <3>3, <3>4
    <3> QED
      BY <2>4, <3>5, SeqElements
  <2> QED
    BY <2>4, <2>6, <2>7, <2>8 DEF s
<1> QED
  BY <1>1, <1>2

\* What the queue adds to a handshake comes after what the ring gave it.
LEMMA MissingFact ==
    ASSUME NEW n \in Nat, n <= MaxEvents, NEW S \in SUBSET (1..n), NEW q \in SUBSET S,
           NEW id \in Int, NEW cap \in Seq(Ids),
           \A e \in S : id < e => e \in ToSet(cap) \/ \A i \in 1..Len(cap) : cap[i] < e,
           NEW events \in Listings(retrieveSince(q, id) \ ToSet(cap))
    PROVE  /\ events \in Seq(Ids) /\ InOrder(events)
           /\ \A i \in 1..Len(events) : id < events[i] /\ events[i] <= n
           /\ \A i \in 1..Len(cap), j \in 1..Len(events) : cap[i] < events[j]
<1> DEFINE missing == retrieveSince(q, id) \ ToSet(cap)
<1>1. \A e \in missing : e \in q /\ e > id
  BY DEF retrieveSince
<1>2. \A e \in missing : e \notin ToSet(cap)
  OBVIOUS
<1>3. events \in [1..Cardinality(missing) -> missing] /\ InOrder(events)
  BY DEF Listings, SetToSeqs
<1> HIDE DEF missing
<1>4. \A e \in missing : e \in S /\ id < e /\ e <= n /\ e \in Ids
  <2>1. \A e \in 1..n : e \in Nat /\ e <= n /\ e \in Ids
    BY ReplayAssumption DEF Ids
  <2> QED
    BY <1>1, <2>1
<1>5. \A e \in missing : \A i \in 1..Len(cap) : cap[i] < e
  BY <1>2, <1>4
<1>6. \A k \in Nat : events \in [1..k -> missing] => events \in Seq(Ids)
  BY <1>4
<1>7. missing \subseteq 1..n
  BY <1>1
<1>8. Cardinality(missing) \in Nat
  <2>1. IsFiniteSet(1..n)
    BY FS_Interval
  <2>2. IsFiniteSet(missing)
    BY <1>7, <2>1, FS_Subset
  <2> QED
    BY <2>2, FS_CardinalityType
<1>9. events \in Seq(Ids) /\ Len(events) = Cardinality(missing)
  BY <1>3, <1>6, <1>8
<1>10. \A i \in 1..Len(events) : events[i] \in missing
  BY <1>3, <1>9
<1> QED
  BY <1>3, <1>4, <1>5, <1>9, <1>10

-----------------------------------------------------------------------------
(* The commands. *)

\* What a command at the end of the line leaves of the invariant about commands.
LEMMA Issued ==
    ASSUME IInv, NEW cmd \in Commands, commands' = Append(commands, cmd),
           addressed \subseteq addressed', addressed' \subseteq 1..issued', queue' = queue,
           cmd.op = "append" => cmd.id \in addressed',
           \A i \in 1..Len(commands) : commands[i].op = "retrieve" =>
              phase'[commands[i].client] = phase[commands[i].client],
           cmd.op = "retrieve" => /\ phase'[cmd.client] = "retrieving"
                                  /\ phase[cmd.client] # "retrieving"
    PROVE  commands' \in Seq(Commands) /\ StoredWereIssued' /\ RetrievalsAwaited'
<1>1. commands \in Seq(Commands) /\ StoredWereIssued /\ RetrievalsAwaited
  BY DEF IInv, TypeOK
<1>2. /\ commands' \in Seq(Commands)
      /\ Len(commands') = Len(commands) + 1
      /\ \A i \in 1..Len(commands) : commands'[i] = commands[i] /\ commands[i] \in Commands
      /\ commands'[Len(commands) + 1] = cmd
      /\ Len(commands) \in Nat
  BY <1>1
<1>3. \A i \in 1..Len(commands') : i \in 1..Len(commands) \/ i = Len(commands) + 1
  BY <1>2
<1>4. StoredWereIssued'
  BY <1>1, <1>2, <1>3 DEF StoredWereIssued
<1>5. RetrievalsAwaited'
  <2> SUFFICES ASSUME NEW i \in 1..Len(commands'), commands'[i].op = "retrieve"
               PROVE  /\ phase'[commands'[i].client] = "retrieving"
                      /\ \A j \in 1..Len(commands') :
                            /\ commands'[j].op = "retrieve"
                            /\ commands'[j].client = commands'[i].client
                            => j = i
    BY DEF RetrievalsAwaited
  <2>1. CASE i \in 1..Len(commands)
    BY <1>1, <1>2, <1>3, <2>1 DEF RetrievalsAwaited
  <2>2. CASE i = Len(commands) + 1
    BY <1>1, <1>2, <1>3, <2>2 DEF RetrievalsAwaited
  <2> QED
    BY <1>3, <2>1, <2>2
<1> QED
  BY <1>2, <1>4, <1>5

\* The same for the command at the head, which is executed.
LEMMA Executed ==
    ASSUME IInv, commands # <<>>, commands' = Tail(commands),
           UNCHANGED <<issued, addressed>>, queue' \subseteq addressed,
           \A c \in Clients : \/ phase'[c] = phase[c]
                              \/ Head(commands).op = "retrieve" /\ Head(commands).client = c
    PROVE  /\ commands' \in Seq(Commands) /\ StoredWereIssued' /\ RetrievalsAwaited'
           /\ Head(commands).op = "retrieve" => phase[Head(commands).client] = "retrieving"
<1>1. commands \in Seq(Commands) /\ StoredWereIssued /\ RetrievalsAwaited
  BY DEF IInv, TypeOK
<1>2. /\ commands' \in Seq(Commands)
      /\ Len(commands') = Len(commands) - 1
      /\ \A i \in 1..Len(commands') : commands'[i] = commands[i + 1]
      /\ Head(commands) = commands[1]
      /\ Len(commands) \in Nat \ {0}
      /\ \A i \in 1..Len(commands) : commands[i] \in Commands
  BY <1>1
<1>3. \A i \in 1..Len(commands') : i + 1 \in 1..Len(commands)
  BY <1>2
<1>4. StoredWereIssued'
  BY <1>1, <1>2, <1>3 DEF StoredWereIssued
<1>5. RetrievalsAwaited'
  <2> SUFFICES ASSUME NEW i \in 1..Len(commands'), commands'[i].op = "retrieve"
               PROVE  /\ phase'[commands'[i].client] = "retrieving"
                      /\ \A j \in 1..Len(commands') :
                            /\ commands'[j].op = "retrieve"
                            /\ commands'[j].client = commands'[i].client
                            => j = i
    BY DEF RetrievalsAwaited
  <2>1. commands[i + 1].op = "retrieve" /\ i + 1 \in 1..Len(commands) /\ i + 1 # 1
    BY <1>2, <1>3
  <2>2. commands[i + 1].client \in Clients
    BY <1>2, <2>1 DEF Commands
  <2>3. ~(Head(commands).op = "retrieve" /\ Head(commands).client = commands[i + 1].client)
    BY <1>1, <1>2, <2>1 DEF RetrievalsAwaited
  <2>4. phase'[commands[i + 1].client] = phase[commands[i + 1].client]
    BY <2>2, <2>3
  <2> QED
    BY <1>1, <1>2, <1>3, <2>1, <2>4 DEF RetrievalsAwaited
<1>6. Head(commands).op = "retrieve" => phase[Head(commands).client] = "retrieving"
  BY <1>1, <1>2 DEF RetrievalsAwaited
<1> QED
  BY <1>2, <1>4, <1>5, <1>6

\* The same when no command is issued or executed.
LEMMA CommandsKept ==
    ASSUME IInv, commands' = commands, queue' \subseteq queue,
           addressed \subseteq addressed', addressed' \subseteq 1..issued',
           \A c \in Clients : phase[c] = "retrieving" => phase'[c] = "retrieving"
    PROVE  commands' \in Seq(Commands) /\ StoredWereIssued' /\ RetrievalsAwaited'
<1>1. /\ commands \in Seq(Commands) /\ StoredWereIssued /\ RetrievalsAwaited
      /\ \A i \in 1..Len(commands) : commands[i] \in Commands
  BY DEF IInv, TypeOK
<1>2. \A i \in 1..Len(commands) :
        commands[i].op = "retrieve" => commands[i].client \in Clients
  BY <1>1 DEF Commands
<1> QED
  BY <1>1, <1>2 DEF StoredWereIssued, RetrievalsAwaited

-----------------------------------------------------------------------------
(* One client. *)

Ordered(c) == HandshakeInOrder(c) /\ StreamInOrder(c)

\* The types of what concerns one client.
LEMMA ClientTypes ==
    ASSUME IInv, NEW c \in Clients
    PROVE  /\ captured[c] \in Seq(Ids) /\ gap[c] \in Seq(Ids) /\ wire[c] \in Wires
           /\ Coming(c) \in Seq(Ids)
           /\ lastEventId[c] \in Int /\ lastEventId[c] <= issued
           /\ issued \in Nat /\ issued <= MaxEvents /\ MaxEvents \in Nat
           /\ addressed \subseteq 1..issued
           /\ Ordered(c)
<1>1. /\ captured[c] \in Seq(Ids) /\ gap[c] \in Seq(Ids) /\ wire[c] \in Wires
      /\ lastEventId[c] \in Int
      /\ issued \in Nat /\ issued <= MaxEvents /\ MaxEvents \in Nat
  BY ReplayAssumption DEF IInv, TypeOK, Wires, NoHeader
<1>2. HandshakeInOrder(c) /\ StreamInOrder(c) /\ addressed \subseteq 1..issued
  BY DEF IInv, StoredWereIssued
<1> QED
  BY <1>1, <1>2 DEF Ordered, HandshakeInOrder, StreamInOrder

\* A client a step does not touch, but for new events.
LEMMA ClientKept ==
    ASSUME IInv, NEW d \in Clients, issued' \in Nat, issued <= issued',
           \A e \in addressed' : e \in addressed \/ (e \in Nat /\ e > issued),
           captured'[d] = captured[d], gap'[d] = gap[d], wire'[d] = wire[d],
           lastEventId'[d] = lastEventId[d], phase'[d] = phase[d]
    PROVE  Ordered(d)'
<1>1. /\ captured[d] \in Seq(Ids) /\ gap[d] \in Seq(Ids)
      /\ Coming(d) \in Seq(Ids)
      /\ lastEventId[d] \in Int /\ lastEventId[d] <= issued /\ issued \in Nat
      /\ HandshakeInOrder(d) /\ StreamInOrder(d)
  BY ClientTypes DEF Ordered
<1>2. /\ \A i \in 1..Len(captured[d]) : captured[d][i] \in Nat /\ captured[d][i] <= issued
      /\ \A i \in 1..Len(gap[d]) : gap[d][i] \in Nat
      /\ \A i \in 1..Len(Coming(d)) : Coming(d)[i] \in Nat
  BY <1>1, SeqElements DEF HandshakeInOrder, Follows
<1>3. Coming(d)' = Coming(d)
  BY DEF Coming
<1>4. Follows(captured[d], d)' /\ Follows(gap[d], d)' /\ Follows(Coming(d), d)'
  BY <1>1, <1>2, <1>3 DEF HandshakeInOrder, StreamInOrder, Follows, InOrder
<1>5. ASSUME NEW e \in addressed', lastEventId[d] < e
      PROVE  e \in ToSet(captured[d]) \/ \A i \in 1..Len(captured[d]) : captured[d][i] < e
  <2>1. CASE e \in addressed
    BY <1>1, <1>5, <2>1 DEF HandshakeInOrder
  <2>2. CASE e \in Nat /\ e > issued
    BY <1>1, <1>2, <2>2
  <2> QED
    BY <2>1, <2>2
<1>6. HandshakeInOrder(d)'
  BY <1>1, <1>4, <1>5 DEF HandshakeInOrder
<1>7. StreamInOrder(d)'
  BY <1>1, <1>3, <1>4 DEF StreamInOrder
<1> QED
  BY <1>6, <1>7 DEF Ordered

\* A client without a handshake, and what is to come to it.
LEMMA StreamOnly ==
    ASSUME NEW c \in Clients, lastEventId'[c] \in Int, issued' \in Nat,
           lastEventId'[c] <= issued',
           captured'[c] = <<>>, gap'[c] = <<>>,
           Coming(c)' \in Seq(Ids), Follows(Coming(c), c)',
           phase'[c] \notin {"live", "closing"} => wire'[c] = <<>>
    PROVE  Ordered(c)'
<1>1. Follows(captured[c], c)' /\ Follows(gap[c], c)'
  BY DEF Follows, InOrder
<1>2. HandshakeInOrder(c)'
  BY <1>1 DEF HandshakeInOrder
<1>3. StreamInOrder(c)'
  BY DEF StreamInOrder
<1> QED
  BY <1>2, <1>3 DEF Ordered

\* A client whose stream or handshake ends, or which is told to.
LEMMA ClientEnds ==
    ASSUME IInv, NEW c \in Clients, issued' = issued, lastEventId'[c] = lastEventId[c],
           phase'[c] \in {"off", "closing"},
           captured'[c] = <<>>, gap'[c] = <<>>,
           wire'[c] = <<>> \/ (phase'[c] = "closing" /\ wire'[c] = wire[c])
    PROVE  Ordered(c)'
<1>1. /\ lastEventId[c] \in Int /\ lastEventId[c] <= issued /\ issued \in Nat
      /\ Coming(c) \in Seq(Ids) /\ Follows(Coming(c), c)
  BY ClientTypes DEF Ordered, StreamInOrder
<1>2. CASE wire'[c] = <<>>
  <2>1. Coming(c)' = <<>>
    BY <1>2 DEF Coming, WithoutEstablished
  <2>2. Follows(Coming(c), c)'
    BY <2>1 DEF Follows, InOrder
  <2>3. Coming(c)' \in Seq(Ids)
    BY <2>1
  <2> QED
    BY <1>1, <1>2, <2>2, <2>3, StreamOnly
<1>3. CASE phase'[c] = "closing" /\ wire'[c] = wire[c]
  <2>1. Coming(c)' = Coming(c)
    BY <1>3 DEF Coming
  <2>2. Follows(Coming(c), c)'
    BY <1>1, <2>1 DEF Follows
  <2> QED
    BY <1>1, <1>3, <2>1, <2>2, StreamOnly
<1> QED
  BY <1>2, <1>3

\* A new greatest id goes to the end of some registered streams.
LEMMA DeliverFact ==
    ASSUME IInv, NEW streams \in SUBSET Live, NEW e \in Ids, e = issued + 1,
           deliver(e, streams), issued' = e, addressed' \subseteq addressed \cup {e},
           UNCHANGED <<phase, captured, gap, lastEventId>>
    PROVE  /\ wire' \in [Clients -> Wires]
           /\ written' \subseteq Ids
           /\ \A d \in Clients : Ordered(d)'
<1>1. ASSUME NEW d \in Clients PROVE wire'[d] \in Wires /\ Ordered(d)'
  <2>1. /\ wire[d] \in Wires /\ Coming(d) \in Seq(Ids)
        /\ lastEventId[d] \in Int /\ lastEventId[d] <= issued /\ issued \in Nat
        /\ issued' \in Nat /\ issued <= issued'
        /\ StreamInOrder(d)
    <3>1. /\ wire[d] \in Wires /\ Coming(d) \in Seq(Ids)
          /\ lastEventId[d] \in Int /\ lastEventId[d] <= issued /\ issued \in Nat
          /\ StreamInOrder(d)
      BY ClientTypes DEF Ordered
    <3> QED
      BY <3>1
  <2>2. CASE d \in streams
    <3>1. wire'[d] = Append(wire[d], e) /\ phase[d] = "live"
      BY <2>2 DEF deliver, Live
    <3>2. wire'[d] \in Wires /\ Coming(d)' = Append(Coming(d), e)
      BY <2>1, <3>1, ComingAppend DEF Coming
    <3>3. \A i \in 1..Len(Coming(d)) : /\ Coming(d)[i] \in Nat /\ Coming(d)[i] < e
                                      /\ lastEventId[d] < Coming(d)[i]
      BY <2>1, SeqElements DEF StreamInOrder, Follows
    <3>4. InOrder(Append(Coming(d), e))
      BY <2>1, <3>3, AppendInOrder DEF StreamInOrder, Follows
    <3>5. \A i \in 1..Len(Append(Coming(d), e)) :
            /\ lastEventId[d] < Append(Coming(d), e)[i]
            /\ Append(Coming(d), e)[i] <= e
      <4> DEFINE s == Coming(d)
      <4>1. s \in Seq(Ids)
        BY <2>1
      <4> HIDE DEF s
      <4>2. /\ Len(Append(s, e)) = Len(s) + 1 /\ Len(s) \in Nat
            /\ \A i \in 1..Len(s) : Append(s, e)[i] = s[i]
            /\ Append(s, e)[Len(s) + 1] = e
        BY <4>1
      <4>3. \A i \in 1..Len(Append(s, e)) : i \in 1..Len(s) \/ i = Len(s) + 1
        BY <4>2
      <4>4. \A i \in 1..Len(s) : s[i] \in Nat /\ s[i] < e /\ lastEventId[d] < s[i]
        BY <3>3 DEF s
      <4>5. e \in Nat /\ lastEventId[d] < e
        BY <2>1
      <4>6. \A i \in 1..Len(Append(s, e)) :
              lastEventId[d] < Append(s, e)[i] /\ Append(s, e)[i] <= e
        BY <4>2, <4>3, <4>4, <4>5
      <4> QED
        BY <4>6 DEF s
    <3>6. Follows(Coming(d), d)' /\ Coming(d)' \in Seq(Ids)
      <4>1. Append(Coming(d), e) \in Seq(Ids)
        BY <2>1
      <4> QED
        BY <3>2, <3>4, <3>5, <4>1 DEF Follows
    <3>7. captured'[d] = <<>> /\ gap'[d] = <<>> /\ phase'[d] = "live"
      BY <2>1, <3>1 DEF StreamInOrder
    <3>8. lastEventId'[d] \in Int /\ lastEventId'[d] <= issued'
      BY <2>1
    <3> QED
      BY <2>1, <3>2, <3>6, <3>7, <3>8, StreamOnly
  <2>3. CASE d \notin streams
    <3>1. wire'[d] = wire[d]
      BY <2>3 DEF deliver
    <3>2. \A x \in addressed' : x \in addressed \/ (x \in Nat /\ x > issued)
      BY <2>1
    <3>3. Ordered(d)'
      BY <2>1, <3>1, <3>2, ClientKept
    <3> QED
      BY <2>1, <3>1, <3>3
  <2> QED
    BY <2>2, <2>3
<1>2. wire' = [c \in Clients |-> wire'[c]]
  BY DEF deliver
<1>3. wire' \in [Clients -> Wires]
  BY <1>1, <1>2
<1>4. written' \subseteq Ids
  BY DEF deliver, IInv, TypeOK
<1> QED
  BY <1>1, <1>3, <1>4

-----------------------------------------------------------------------------
(* IInv, one action at a time. *)

\* The initial states satisfy the inductive invariant.
LEMMA InitInv == Init => IInv
<1> SUFFICES ASSUME Init PROVE IInv
  OBVIOUS
<1>1. TypeOK
  BY ReplayAssumption DEF Init, TypeOK, Phases, NoHeader
<1>2. Alone /\ RingIsRecent /\ StoredWereIssued /\ RetrievalsAwaited
  <2>1. ToSet(<<>>) = {}
    BY DEF ToSet
  <2> QED
    BY <2>1 DEF Init, Alone, RingIsRecent, StoredWereIssued, RetrievalsAwaited, InOrder
<1>3. \A c \in Clients : HandshakeInOrder(c) /\ StreamInOrder(c)
  BY DEF Init, HandshakeInOrder, StreamInOrder, InOrder, Follows, Coming,
         WithoutEstablished, NoHeader
<1> QED
  BY <1>1, <1>2, <1>3 DEF IInv

\* emitToUser: a new greatest id goes to the end of the ring and of every stream.
LEMMA EmitStep == ASSUME IInv, emitToUser PROVE IInv'
<1> DEFINE e == issued + 1
<1>1. /\ issued < MaxEvents /\ issued' = e /\ addressed' = addressed \cup {e}
      /\ ring' = append(ring, e) /\ deliver(e, Live)
      /\ exposed' = [c \in Clients |-> IF c \in InHandshake THEN exposed[c] \cup {e}
                                                            ELSE exposed[c]]
      /\ UNCHANGED <<queue, remote, bus, phase, captured, gap, ghosts, clientVars,
                     pruned, restarts>>
      /\ \/ commands' = Append(commands, [op |-> "append", id |-> e]) /\ unqueued' = unqueued
         \/ commands' = commands /\ unqueued' = unqueued \cup {e}
  BY DEF emitToUser, emitToUserLocal, Issue
<1>2. /\ issued \in Nat /\ e \in Ids /\ e \in Nat /\ e = issued + 1
      /\ MaxEvents \in Nat /\ addressed \subseteq 1..issued
  BY <1>1, ReplayAssumption DEF IInv, TypeOK, Ids, StoredWereIssued
<1> HIDE DEF e
<1>3. ring' \in Seq(Ids) /\ Len(ring') <= ReplayBufferSize /\ RingIsRecent'
  <2>1. ring \in Seq(Ids) /\ Len(ring) <= ReplayBufferSize /\ Recent(ring, addressed)
    BY DEF IInv, TypeOK, RingIsRecent, Recent
  <2>2. /\ append(ring, e) \in Seq(Ids)
        /\ Len(append(ring, e)) <= ReplayBufferSize
        /\ Recent(append(ring, e), addressed \cup {e})
    BY <1>2, <2>1, AppendFact
  <2> QED
    BY <1>1, <2>2 DEF RingIsRecent, Recent
<1>4. commands' \in Seq(Commands) /\ StoredWereIssued' /\ RetrievalsAwaited'
  <2>1. addressed \subseteq addressed' /\ addressed' \subseteq 1..issued' /\ e \in addressed'
    <3>1. addressed' = addressed \cup {e} /\ issued' = e
      BY <1>1
    <3>2. \A x \in 1..issued : x \in 1..e
      BY <1>2
    <3>3. e \in 1..e
      BY <1>2
    <3> QED
      BY <1>2, <3>1, <3>2, <3>3
  <2>2. CASE commands' = Append(commands, [op |-> "append", id |-> e])
    <3> DEFINE cmd == [op |-> "append", id |-> e]
    <3>1. cmd \in Commands /\ cmd.op = "append" /\ cmd.id = e
      BY <1>2 DEF Commands
    <3>2. commands' = Append(commands, cmd)
      BY <2>2
    <3> HIDE DEF cmd
    <3> QED
      BY <1>1, <2>1, <3>1, <3>2, Issued
  <2>3. CASE commands' = commands
    BY <1>1, <2>1, <2>3, CommandsKept
  <2> QED
    BY <1>1, <2>2, <2>3
<1>5. /\ wire' \in [Clients -> Wires] /\ written' \subseteq Ids
      /\ \A d \in Clients : Ordered(d)'
  <2>1. UNCHANGED <<phase, captured, gap, lastEventId>>
    BY <1>1 DEF clientVars
  <2> QED
    BY <1>1, <1>2, <2>1, DeliverFact
<1>6. TypeOK'
  <2>1. /\ unqueued' \subseteq Ids /\ exposed' \in [Clients -> SUBSET Ids]
        /\ addressed' \subseteq Ids
    BY <1>1, <1>2 DEF IInv, TypeOK
  <2>2. issued' \in 0..MaxEvents
    BY <1>1, <1>2
  <2> QED
    BY <1>1, <1>3, <1>4, <1>5, <2>1, <2>2 DEF IInv, TypeOK, clientVars, Wires
<1>7. Alone'
  BY <1>1 DEF IInv, Alone
<1> QED
  BY <1>3, <1>4, <1>5, <1>6, <1>7 DEF IInv, Ordered

\* An event that is not addressed to the user goes to the end of some streams only.
LEMMA BroadcastStep ==
    ASSUME IInv, NEW reached \in SUBSET Live, broadcast(reached) PROVE IInv'
<1> DEFINE e == issued + 1
<1>1. /\ issued < MaxEvents /\ issued' = e /\ deliver(e, reached)
      /\ UNCHANGED <<storeVars, addressed, ring, bus, unqueued, phase, captured, gap, ghosts,
                     clientVars, historyVars>>
  BY DEF broadcast
<1>2. /\ issued \in Nat /\ e \in Ids /\ e \in Nat /\ e = issued + 1
      /\ MaxEvents \in Nat /\ addressed \subseteq 1..issued
  BY <1>1, ReplayAssumption DEF IInv, TypeOK, Ids, StoredWereIssued
<1> HIDE DEF e
<1>3. commands' \in Seq(Commands) /\ StoredWereIssued' /\ RetrievalsAwaited'
  <2>1. commands' = commands /\ queue' = queue /\ addressed' = addressed /\ phase' = phase
    BY <1>1 DEF storeVars
  <2>2. addressed' \subseteq 1..issued'
    BY <1>1, <1>2
  <2> QED
    BY <2>1, <2>2, CommandsKept
<1>4. /\ wire' \in [Clients -> Wires] /\ written' \subseteq Ids
      /\ \A d \in Clients : Ordered(d)'
  <2>1. UNCHANGED <<phase, captured, gap, lastEventId>> /\ addressed' \subseteq addressed \cup {e}
    BY <1>1 DEF clientVars
  <2> QED
    BY <1>1, <1>2, <2>1, DeliverFact
<1>5. TypeOK'
  <2>1. issued' \in 0..MaxEvents
    BY <1>1, <1>2
  <2> QED
    BY <1>1, <1>3, <1>4, <2>1 DEF IInv, TypeOK, clientVars, storeVars, historyVars, Wires
<1>6. Alone' /\ RingIsRecent'
  BY <1>1 DEF IInv, Alone, RingIsRecent, storeVars
<1> QED
  BY <1>3, <1>4, <1>5, <1>6 DEF IInv, Ordered

\* Redis executes an append, an acknowledgement or a removal; a command fails that
\* is no retrieval; the key expires.  No client notices.
LEMMA StoreStep ==
    ASSUME IInv,
           \/ AppendExecutes \/ AcknowledgeExecutes \/ RemoveExecutes \/ Expire
           \/ CommandFails /\ ~NextIs("retrieve")
    PROVE  IInv'
<1>1. /\ UNCHANGED <<remote, eventVars, streamVars, clientVars>>
      /\ UNCHANGED <<exposed, restarts>>
  BY DEF AppendExecutes, AcknowledgeExecutes, RemoveExecutes, Expire, CommandFails,
         historyVars, streamVars
<1>2. /\ issued \in Nat /\ queue \subseteq addressed /\ commands \in Seq(Commands)
      /\ addressed \subseteq Ids /\ addressed \subseteq 1..issued
      /\ UNCHANGED <<issued, addressed>> /\ phase' = phase
  BY <1>1, ReplayAssumption DEF IInv, TypeOK, StoredWereIssued, eventVars, streamVars
<1>3. /\ commands' \in Seq(Commands) /\ StoredWereIssued' /\ RetrievalsAwaited'
      /\ queue' \subseteq Ids /\ pruned' \subseteq Ids
  <2>1. CASE AppendExecutes
    <3>1. /\ commands # <<>> /\ Head(commands).op = "append"
          /\ queue' = zadd(queue, Head(commands).id)
          /\ commands' = Tail(commands) /\ pruned' = pruned
      BY <2>1 DEF AppendExecutes, NextIs, historyVars
    <3>2. Head(commands).id \in addressed
      <4>1. Head(commands) = commands[1] /\ 1 \in 1..Len(commands)
        BY <1>2, <3>1
      <4> QED
        BY <3>1, <4>1 DEF IInv, StoredWereIssued
    <3>3. queue' \subseteq queue \cup {Head(commands).id}
      BY <3>1 DEF zadd
    <3>4. queue' \subseteq addressed
      BY <1>2, <3>2, <3>3
    <3>5. commands' \in Seq(Commands) /\ StoredWereIssued' /\ RetrievalsAwaited'
      BY <1>2, <3>1, <3>4, Executed
    <3> QED
      BY <1>2, <3>1, <3>4, <3>5 DEF IInv, TypeOK
  <2>2. CASE AcknowledgeExecutes
    <3> DEFINE upTo == {e \in queue : e <= Head(commands).id}
               cmd == [op |-> "remove", ids |-> upTo]
    <3>1. /\ commands # <<>> /\ Head(commands).op = "acknowledge"
          /\ \/ commands' = Tail(commands)
             \/ commands' = Append(Tail(commands), cmd)
          /\ queue' = queue /\ pruned' = pruned
      BY <2>2 DEF AcknowledgeExecutes, NextIs, historyVars
    <3>2. cmd \in Commands /\ cmd.op = "remove"
      BY DEF IInv, TypeOK, Commands
    <3> HIDE DEF cmd, upTo
    <3>3. /\ Tail(commands) \in Seq(Commands)
          /\ Len(Tail(commands)) = Len(commands) - 1
          /\ \A i \in 1..Len(Tail(commands)) : Tail(commands)[i] = commands[i + 1]
      BY <1>2, <3>1
    <3>4. /\ commands' \in Seq(Commands)
          /\ \A i \in 1..Len(commands') :
                \/ commands'[i] = cmd
                \/ commands'[i] = commands[i + 1] /\ i + 1 \in 1..Len(commands)
      BY <1>2, <3>1, <3>2, <3>3
    <3>5. StoredWereIssued'
      BY <1>2, <3>1, <3>2, <3>4 DEF IInv, StoredWereIssued
    <3>6. RetrievalsAwaited'
      <4>1. \A i \in 1..Len(commands') : commands'[i].op = "retrieve" =>
              commands'[i] = commands[i + 1] /\ i + 1 \in 1..Len(commands)
        BY <3>2, <3>4
      <4>2. RetrievalsAwaited /\ Len(commands') \in Nat
        BY <3>4 DEF IInv
      <4> SUFFICES ASSUME NEW i \in 1..Len(commands'), commands'[i].op = "retrieve"
                   PROVE  /\ phase[commands'[i].client] = "retrieving"
                          /\ \A j \in 1..Len(commands') :
                                /\ commands'[j].op = "retrieve"
                                /\ commands'[j].client = commands'[i].client
                                => j = i
        BY <1>2 DEF RetrievalsAwaited
      <4>3. phase[commands'[i].client] = "retrieving"
        BY <4>1, <4>2 DEF RetrievalsAwaited
      <4>4. ASSUME NEW j \in 1..Len(commands'), commands'[j].op = "retrieve",
                   commands'[j].client = commands'[i].client
            PROVE  j = i
        <5>1. j + 1 = i + 1
          BY <4>1, <4>2, <4>4 DEF RetrievalsAwaited
        <5> QED
          BY <4>2, <5>1
      <4> QED
        BY <4>3, <4>4
    <3> QED
      BY <3>1, <3>4, <3>5, <3>6 DEF IInv, TypeOK
  <2>3. CASE RemoveExecutes
    <3>1. /\ commands # <<>> /\ commands' = Tail(commands)
          /\ queue' \subseteq queue /\ pruned' \subseteq pruned \cup queue
      BY <2>3 DEF RemoveExecutes, NextIs
    <3>2. queue' \subseteq addressed
      BY <1>2, <3>1
    <3>3. commands' \in Seq(Commands) /\ StoredWereIssued' /\ RetrievalsAwaited'
      BY <1>2, <3>1, <3>2, Executed
    <3> QED
      BY <3>1, <3>3 DEF IInv, TypeOK
  <2>4. CASE Expire
    <3>1. queue' = {} /\ commands' = commands /\ pruned' = pruned
      BY <2>4 DEF Expire, historyVars
    <3>2. queue' \subseteq queue /\ addressed \subseteq addressed' /\ addressed' \subseteq 1..issued'
      BY <1>2, <3>1
    <3>3. commands' \in Seq(Commands) /\ StoredWereIssued' /\ RetrievalsAwaited'
      BY <1>2, <3>1, <3>2, CommandsKept
    <3> QED
      BY <3>1, <3>3 DEF IInv, TypeOK
  <2>5. CASE CommandFails /\ ~NextIs("retrieve")
    <3>1. /\ commands # <<>> /\ commands' = Tail(commands)
          /\ queue' = queue /\ pruned' = pruned
      BY <2>5 DEF CommandFails, historyVars
    <3>2. queue' \subseteq addressed
      BY <1>2, <3>1
    <3>3. commands' \in Seq(Commands) /\ StoredWereIssued' /\ RetrievalsAwaited'
      BY <1>2, <3>1, <3>2, Executed
    <3> QED
      BY <3>1, <3>3 DEF IInv, TypeOK
  <2> QED
    BY <2>1, <2>2, <2>3, <2>4, <2>5
<1>4. TypeOK'
  BY <1>1, <1>3 DEF IInv, TypeOK, eventVars, streamVars, clientVars
<1>5. ASSUME NEW d \in Clients PROVE Ordered(d)'
  <2>1. UNCHANGED <<captured[d], gap[d], wire[d], lastEventId[d], phase[d]>>
    BY <1>1 DEF streamVars, clientVars
  <2>2. issued' \in Nat /\ issued <= issued' /\ \A e \in addressed' : e \in addressed
    BY <1>2
  <2> QED
    BY <2>1, <2>2, ClientKept
<1>6. Alone' /\ RingIsRecent'
  BY <1>1 DEF IInv, Alone, RingIsRecent, eventVars
<1> QED
  BY <1>3, <1>4, <1>5, <1>6 DEF IInv, Ordered

\* The queue's answer, or its failure: what the ring has not captured comes after it.
LEMMA RetrieveStep ==
    ASSUME IInv, RetrieveExecutes \/ (CommandFails /\ NextIs("retrieve"))
    PROVE  IInv'
<1>1. /\ commands # <<>> /\ Head(commands).op = "retrieve"
      /\ UNCHANGED <<queue, remote, eventVars, captured, wire, ghosts, written, clientVars,
                     historyVars>>
      /\ commands' = Tail(commands)
      /\ phase' = [phase EXCEPT ![Head(commands).client] = "returned"]
  BY DEF RetrieveExecutes, CommandFails, NextIs, Retrieved
<1>2. /\ commands \in Seq(Commands) /\ queue \subseteq addressed
      /\ Head(commands) \in Commands
      /\ phase \in [Clients -> Phases] /\ gap \in [Clients -> Seq(Ids)]
      /\ UNCHANGED <<issued, addressed>>
  BY <1>1 DEF IInv, TypeOK, StoredWereIssued, eventVars
<1>3. PICK c \in Clients : c = Head(commands).client
  BY <1>1, <1>2 DEF Commands
<1>4. /\ commands' \in Seq(Commands) /\ StoredWereIssued' /\ RetrievalsAwaited'
      /\ phase[c] = "retrieving"
  <2>1. queue' \subseteq addressed
    BY <1>1, <1>2
  <2>2. \A d \in Clients : phase'[d] = phase[d] \/ d = c
    BY <1>1, <1>2, <1>3
  <2> QED
    BY <1>1, <1>2, <1>3, <2>1, <2>2, Executed
<1>5. /\ captured[c] \in Seq(Ids) /\ lastEventId[c] \in Int /\ lastEventId[c] <= issued
      /\ issued \in Nat /\ issued <= MaxEvents /\ addressed \subseteq 1..issued
      /\ HandshakeInOrder(c) /\ StreamInOrder(c)
  BY ClientTypes DEF Ordered
<1>6. PICK events \in Seq(Ids) :
        /\ gap' = [gap EXCEPT ![c] = events]
        /\ InOrder(events)
        /\ \A i \in 1..Len(events) : lastEventId[c] < events[i] /\ events[i] <= issued
        /\ \A i \in 1..Len(captured[c]), j \in 1..Len(events) : captured[c][i] < events[j]
  <2>1. CASE CommandFails /\ NextIs("retrieve")
    <3>1. gap' = [gap EXCEPT ![c] = <<>>]
      BY <1>3, <2>1 DEF CommandFails, Retrieved
    <3>2. <<>> \in Seq(Ids) /\ Len(<<>>) = 0
      OBVIOUS
    <3>3. InOrder(<<>>) /\ \A i \in 1..Len(<<>>) : FALSE
      BY <3>2 DEF InOrder
    <3> WITNESS <<>> \in Seq(Ids)
    <3> QED
      BY <3>1, <3>3
  <2>2. CASE RetrieveExecutes
    <3>1. PICK events \in Listings(retrieveSince(queue, lastEventId[c]) \ ToSet(captured[c])) :
            gap' = [gap EXCEPT ![c] = events]
      BY <1>3, <2>2 DEF RetrieveExecutes, Retrieved
    <3>2. \A e \in addressed : lastEventId[c] < e =>
            e \in ToSet(captured[c]) \/ \A i \in 1..Len(captured[c]) : captured[c][i] < e
      BY <1>5 DEF HandshakeInOrder
    <3>3. /\ events \in Seq(Ids) /\ InOrder(events)
          /\ \A i \in 1..Len(events) : lastEventId[c] < events[i] /\ events[i] <= issued
          /\ \A i \in 1..Len(captured[c]), j \in 1..Len(events) : captured[c][i] < events[j]
      BY <1>2, <1>5, <3>2, MissingFact
    <3> QED
      BY <3>1, <3>3
  <2> QED
    BY <2>1, <2>2
<1>7. TypeOK'
  BY <1>1, <1>2, <1>3, <1>4, <1>6 DEF IInv, TypeOK, Phases, eventVars, clientVars, historyVars
<1>8. ASSUME NEW d \in Clients PROVE Ordered(d)'
  <2>1. CASE d = c
    <3>1. /\ gap'[c] = events /\ phase'[c] = "returned" /\ wire'[c] = <<>>
          /\ captured'[c] = captured[c] /\ lastEventId'[c] = lastEventId[c]
      <4>1. wire[c] = <<>>
        BY <1>4, <1>5 DEF StreamInOrder
      <4> QED
        BY <1>1, <1>2, <1>3, <1>6, <4>1 DEF clientVars
    <3>2. Coming(c)' = <<>> /\ Coming(c)' \in Seq(Ids)
      BY <3>1 DEF Coming, WithoutEstablished
    <3>3. StreamInOrder(c)'
      BY <3>1, <3>2 DEF StreamInOrder, Follows, InOrder
    <3>4. Follows(captured[c], c)' /\ Follows(gap[c], c)'
      BY <1>2, <1>5, <1>6, <3>1 DEF HandshakeInOrder, Follows, InOrder
    <3>5. HandshakeInOrder(c)'
      BY <1>2, <1>5, <1>6, <3>1, <3>4 DEF HandshakeInOrder
    <3> QED
      BY <2>1, <3>3, <3>5 DEF Ordered
  <2>2. CASE d # c
    <3>1. UNCHANGED <<gap[d], phase[d], wire[d], captured[d], lastEventId[d]>>
      BY <1>1, <1>2, <1>3, <1>6, <2>2 DEF clientVars
    <3> QED
      BY <1>2, <1>5, <3>1, ClientKept
  <2> QED
    BY <2>1, <2>2
<1>9. Alone' /\ RingIsRecent'
  BY <1>1 DEF IInv, Alone, RingIsRecent, eventVars
<1> QED
  BY <1>4, <1>7, <1>8, <1>9 DEF IInv, Ordered

\* openStream: what is captured of the ring is above Last-Event-ID, and nothing the
\* queue can add is below it.
LEMMA OpenStep == ASSUME IInv, NEW c \in Clients, openStream(c) PROVE IInv'
<1> DEFINE capture == since(ring, lastEventId[c])
           cmd == [op |-> "retrieve", client |-> c]
<1>1. /\ phase[c] = "off"
      /\ captured' = [captured EXCEPT ![c] = capture]
      /\ UNCHANGED <<queue, remote, eventVars, gap, wire, ghosts, written, clientVars,
                     historyVars>>
      /\ \/ /\ phase' = [phase EXCEPT ![c] = "retrieving"]
            /\ commands' = Append(commands, cmd)
         \/ /\ phase' = [phase EXCEPT ![c] = "returned"]
            /\ commands' = commands
  BY DEF openStream, Issue
<1>2. /\ phase \in [Clients -> Phases] /\ captured \in [Clients -> Seq(Ids)]
      /\ ring \in Seq(Ids) /\ Recent(ring, addressed)
      /\ issued' = issued /\ addressed' = addressed /\ queue' = queue
  BY <1>1 DEF IInv, TypeOK, RingIsRecent, Recent, eventVars
<1>3. /\ issued \in Nat /\ lastEventId[c] \in Int /\ lastEventId[c] <= issued
      /\ addressed \subseteq 1..issued /\ addressed \in SUBSET Nat
      /\ gap[c] = <<>> /\ wire[c] = <<>>
  BY <1>1, ClientTypes DEF Ordered, StreamInOrder
<1>4. /\ capture \in Seq(Ids) /\ InOrder(capture)
      /\ \A i \in 1..Len(capture) : lastEventId[c] < capture[i] /\ capture[i] \in addressed
      /\ \A e \in addressed : lastEventId[c] < e =>
            e \in ToSet(capture) \/ \A i \in 1..Len(capture) : capture[i] < e
  BY <1>2, <1>3, SinceFact
<1> HIDE DEF capture
<1>5. commands' \in Seq(Commands) /\ StoredWereIssued' /\ RetrievalsAwaited'
  <2>1. addressed \subseteq addressed' /\ addressed' \subseteq 1..issued'
    BY <1>2, <1>3
  <2>2. CASE commands' = Append(commands, cmd) /\ phase' = [phase EXCEPT ![c] = "retrieving"]
    <3>1. cmd \in Commands /\ cmd.op = "retrieve" /\ cmd.client = c /\ cmd.op # "append"
      BY DEF Commands
    <3> HIDE DEF cmd
    <3>2. phase'[c] = "retrieving" /\ \A d \in Clients \ {c} : phase'[d] = phase[d]
      BY <1>2, <2>2
    <3>3. \A i \in 1..Len(commands) : commands[i].op = "retrieve" =>
            phase'[commands[i].client] = phase[commands[i].client]
      <4> SUFFICES ASSUME NEW i \in 1..Len(commands), commands[i].op = "retrieve"
                   PROVE  phase'[commands[i].client] = phase[commands[i].client]
        OBVIOUS
      <4>1. commands[i] \in Commands /\ phase[commands[i].client] = "retrieving"
        BY DEF IInv, TypeOK, RetrievalsAwaited
      <4>2. commands[i].client \in Clients
        BY <4>1 DEF Commands
      <4> QED
        BY <1>1, <3>2, <4>1, <4>2
    <3> QED
      BY <1>1, <1>2, <2>1, <2>2, <3>1, <3>2, <3>3, Issued
  <2>3. CASE commands' = commands /\ phase' = [phase EXCEPT ![c] = "returned"]
    <3>1. \A d \in Clients : phase[d] = "retrieving" => phase'[d] = "retrieving"
      BY <1>1, <1>2, <2>3
    <3> QED
      BY <1>2, <2>1, <2>3, <3>1, CommandsKept
  <2> QED
    BY <1>1, <2>2, <2>3
<1>6. TypeOK'
  BY <1>1, <1>2, <1>4, <1>5 DEF IInv, TypeOK, Phases, eventVars, clientVars, historyVars
<1>7. ASSUME NEW d \in Clients PROVE Ordered(d)'
  <2>1. CASE d = c
    <3>1. /\ captured'[c] = capture /\ gap'[c] = <<>> /\ wire'[c] = <<>>
          /\ lastEventId'[c] = lastEventId[c]
          /\ phase'[c] \in {"retrieving", "returned"}
      BY <1>1, <1>2, <1>3 DEF clientVars
    <3>2. Coming(c)' = <<>> /\ Coming(c)' \in Seq(Ids)
      BY <3>1 DEF Coming, WithoutEstablished
    <3>3. StreamInOrder(c)'
      BY <3>1, <3>2 DEF StreamInOrder, Follows, InOrder
    <3>4. \A i \in 1..Len(capture) : capture[i] <= issued
      <4>1. \A n \in Nat : \A e \in 1..n : e <= n
        OBVIOUS
      <4>2. issued \in Nat /\ addressed \subseteq 1..issued
        BY <1>3
      <4> QED
        BY <1>4, <4>1, <4>2
    <3>5. Follows(captured[c], c)' /\ Follows(gap[c], c)'
      BY <1>2, <1>4, <3>1, <3>4 DEF Follows, InOrder
    <3>6. HandshakeInOrder(c)'
      BY <1>2, <1>3, <1>4, <3>1, <3>5 DEF HandshakeInOrder
    <3> QED
      BY <2>1, <3>3, <3>6 DEF Ordered
  <2>2. CASE d # c
    <3>1. UNCHANGED <<gap[d], phase[d], wire[d], captured[d], lastEventId[d]>>
      BY <1>1, <1>2, <2>2 DEF clientVars
    <3> QED
      BY <1>2, <1>3, <3>1, ClientKept
  <2> QED
    BY <2>1, <2>2
<1>8. Alone' /\ RingIsRecent'
  BY <1>1 DEF IInv, Alone, RingIsRecent, eventVars
<1> QED
  BY <1>5, <1>6, <1>7, <1>8 DEF IInv, Ordered

\* A stream or a handshake ends, or starts to: the server forgets it, closes it or
\* loses it.
LEMMA EndStep ==
    ASSUME IInv, NEW c \in Clients,
           \/ Abandon(c) \/ SubscribeClosed(c) \/ disconnectLocal(c)
           \/ StreamCloses(c) \/ Drop(c) \/ GhostEnds(c)
    PROVE  IInv'
<1>1. /\ UNCHANGED <<storeVars, eventVars, written, clientVars, historyVars>>
      /\ ghosts' \subseteq ghosts \cup {c}
  BY DEF Abandon, SubscribeClosed, disconnectLocal, StreamCloses, Drop, GhostEnds
<1>2. /\ phase \in [Clients -> Phases] /\ captured \in [Clients -> Seq(Ids)]
      /\ gap \in [Clients -> Seq(Ids)] /\ wire \in [Clients -> Wires]
      /\ UNCHANGED <<issued, addressed>>
  BY <1>1 DEF IInv, TypeOK, Wires, eventVars
<1>3. StreamInOrder(c) /\ issued \in Nat /\ addressed \subseteq 1..issued
  BY ClientTypes DEF Ordered
<1>4. \/ UNCHANGED <<phase, captured, gap, wire>>
      \/ \E next \in {"off", "closing"} :
            /\ phase[c] # "retrieving"
            /\ phase' = [phase EXCEPT ![c] = next]
            /\ captured' = [captured EXCEPT ![c] = <<>>]
            /\ gap' = [gap EXCEPT ![c] = <<>>]
            /\ \/ wire' = [wire EXCEPT ![c] = <<>>]
               \/ wire' = wire /\ next = "closing"
  <2>1. CASE Abandon(c) \/ SubscribeClosed(c)
    <3>1. /\ phase[c] = "returned" /\ wire' = wire /\ Leave(c, "off")
      BY <2>1 DEF Abandon, SubscribeClosed
    <3>2. wire' = [wire EXCEPT ![c] = <<>>]
      BY <1>2, <1>3, <3>1 DEF StreamInOrder
    <3> QED
      BY <3>1, <3>2 DEF Leave
  <2>2. CASE disconnectLocal(c)
    <3>1. /\ phase[c] = "live" /\ phase' = [phase EXCEPT ![c] = "closing"]
          /\ UNCHANGED <<captured, gap, wire>>
      BY <2>2 DEF disconnectLocal
    <3>2. /\ captured' = [captured EXCEPT ![c] = <<>>]
          /\ gap' = [gap EXCEPT ![c] = <<>>]
      BY <1>2, <1>3, <3>1 DEF StreamInOrder
    <3> QED
      BY <3>1, <3>2
  <2>3. CASE StreamCloses(c) \/ Drop(c)
    <3>1. /\ phase[c] \in {"live", "closing"} /\ phase' = [phase EXCEPT ![c] = "off"]
          /\ UNCHANGED <<captured, gap>>
          /\ \/ wire' = [wire EXCEPT ![c] = <<>>]
             \/ wire' = wire /\ wire[c] = <<>>
      BY <2>3 DEF StreamCloses, Drop
    <3>2. /\ captured' = [captured EXCEPT ![c] = <<>>]
          /\ gap' = [gap EXCEPT ![c] = <<>>]
          /\ wire' = [wire EXCEPT ![c] = <<>>]
      BY <1>2, <1>3, <3>1 DEF StreamInOrder
    <3> QED
      BY <3>1, <3>2
  <2>4. CASE GhostEnds(c)
    BY <2>4 DEF GhostEnds
  <2> QED
    BY <2>1, <2>2, <2>3, <2>4
<1>5. commands' \in Seq(Commands) /\ StoredWereIssued' /\ RetrievalsAwaited'
  <2>1. \A d \in Clients : phase[d] = "retrieving" => phase'[d] = "retrieving"
    BY <1>2, <1>4
  <2>2. commands' = commands /\ queue' \subseteq queue
    BY <1>1 DEF storeVars
  <2> QED
    BY <1>2, <1>3, <2>1, <2>2, CommandsKept
<1>6. TypeOK'
  <2>1. <<>> \in Seq(Ids) /\ <<>> \in Wires
    BY DEF Wires
  <2>2. /\ phase' \in [Clients -> Phases] /\ captured' \in [Clients -> Seq(Ids)]
        /\ gap' \in [Clients -> Seq(Ids)] /\ wire' \in [Clients -> Wires]
    BY <1>2, <1>4, <2>1 DEF Phases
  <2> QED
    BY <1>1, <1>5, <2>2
       DEF IInv, TypeOK, storeVars, eventVars, clientVars, historyVars, Wires
<1>7. ASSUME NEW d \in Clients PROVE Ordered(d)'
  <2>1. lastEventId'[d] = lastEventId[d]
    BY <1>1 DEF clientVars
  <2>2. CASE UNCHANGED <<phase[d], captured[d], gap[d], wire[d]>>
    BY <1>2, <1>3, <2>1, <2>2, ClientKept
  <2>3. CASE /\ d = c
             /\ phase'[c] \in {"off", "closing"}
             /\ captured'[c] = <<>> /\ gap'[c] = <<>>
             /\ wire'[c] = <<>> \/ (phase'[c] = "closing" /\ wire'[c] = wire[c])
    BY <1>2, <2>1, <2>3, ClientEnds
  <2> QED
    BY <1>2, <1>4, <2>2, <2>3
<1>8. Alone' /\ RingIsRecent'
  BY <1>1 DEF IInv, Alone, RingIsRecent, eventVars, storeVars
<1> QED
  BY <1>5, <1>6, <1>7, <1>8 DEF IInv, Ordered

\* Subscribe: the ring's events, then the queue's, then the live ones.
LEMMA SubscribeStep == ASSUME IInv, NEW c \in Clients, Subscribe(c) PROVE IInv'
<1> DEFINE all == captured[c] \o gap[c]
           cmd == [op |-> "acknowledge", id |-> Last(gap[c])]
<1>1. /\ phase[c] = "returned"
      /\ phase' = [phase EXCEPT ![c] = "live"]
      /\ captured' = [captured EXCEPT ![c] = <<>>]
      /\ gap' = [gap EXCEPT ![c] = <<>>]
      /\ wire' = [wire EXCEPT ![c] = established \o all]
      /\ written' = written \cup ToSet(captured[c]) \cup ToSet(gap[c])
      /\ UNCHANGED <<queue, remote, eventVars, ghosts, clientVars, historyVars>>
      /\ \/ gap[c] # <<>> /\ commands' = Append(commands, cmd)
         \/ commands' = commands
  BY DEF Subscribe, Leave, Issue
<1>2. /\ phase \in [Clients -> Phases] /\ captured \in [Clients -> Seq(Ids)]
      /\ gap \in [Clients -> Seq(Ids)] /\ wire \in [Clients -> Wires]
      /\ issued' = issued /\ addressed' = addressed /\ queue' = queue
  BY <1>1 DEF IInv, TypeOK, Wires, eventVars
<1>3. /\ issued \in Nat /\ lastEventId[c] \in Int /\ lastEventId[c] <= issued
      /\ addressed \subseteq 1..issued /\ addressed \subseteq addressed'
      /\ HandshakeInOrder(c)
  BY <1>2, ClientTypes DEF Ordered
<1>4. /\ \A i \in 1..Len(gap[c]) : gap[c][i] \in Ids
      /\ Len(gap[c]) \in Nat
      /\ ToSet(captured[c]) \subseteq Ids /\ ToSet(gap[c]) \subseteq Ids
  BY <1>2, SeqElements
<1>5. /\ all \in Seq(Ids) /\ InOrder(all)
      /\ \A i \in 1..Len(all) : lastEventId[c] < all[i] /\ all[i] <= issued
  <2>1. /\ captured[c] \in Seq(Ids) /\ gap[c] \in Seq(Ids)
        /\ Follows(captured[c], c) /\ Follows(gap[c], c)
        /\ \A i \in 1..Len(captured[c]), j \in 1..Len(gap[c]) : captured[c][i] < gap[c][j]
    BY <1>2, <1>3 DEF HandshakeInOrder
  <2>2. InOrder(all)
    BY <2>1, ConcatInOrder DEF Follows
  <2>3. /\ all \in Seq(Ids)
        /\ \A k \in 1..Len(all) : \/ \E i \in 1..Len(captured[c]) : all[k] = captured[c][i]
                                  \/ \E j \in 1..Len(gap[c]) : all[k] = gap[c][j]
    BY <2>1, ConcatElements
  <2> HIDE DEF all
  <2> QED
    BY <2>1, <2>2, <2>3 DEF Follows
<1> HIDE DEF all
<1>6. established \o all \in Wires /\ WithoutEstablished(established \o all) = all
  BY <1>5, ComingFirst
<1>7. commands' \in Seq(Commands) /\ StoredWereIssued' /\ RetrievalsAwaited'
  <2>1. \A d \in Clients : phase[d] = "retrieving" => phase'[d] = "retrieving"
    BY <1>1, <1>2
  <2>2. addressed' \subseteq 1..issued'
    BY <1>2, <1>3
  <2>3. CASE gap[c] # <<>> /\ commands' = Append(commands, cmd)
    <3>1. Last(gap[c]) \in Ids
      <4>1. Len(gap[c]) \in 1..Len(gap[c])
        <5>1. gap[c] \in Seq(Ids) /\ gap[c] # <<>>
          BY <1>2, <2>3
        <5> QED
          BY <5>1
      <4> QED
        BY <1>4, <4>1 DEF Last
    <3>2. cmd \in Commands /\ cmd.op # "append" /\ cmd.op # "retrieve"
      BY <3>1 DEF Commands
    <3> HIDE DEF cmd
    <3>3. \A i \in 1..Len(commands) : commands[i].op = "retrieve" =>
            phase'[commands[i].client] = phase[commands[i].client]
      <4> SUFFICES ASSUME NEW i \in 1..Len(commands), commands[i].op = "retrieve"
                   PROVE  phase'[commands[i].client] = phase[commands[i].client]
        OBVIOUS
      <4>1. commands[i] \in Commands /\ phase[commands[i].client] = "retrieving"
        BY DEF IInv, TypeOK, RetrievalsAwaited
      <4>2. commands[i].client \in Clients
        BY <4>1 DEF Commands
      <4> QED
        BY <2>1, <4>1, <4>2
    <3> QED
      BY <1>2, <1>3, <2>2, <2>3, <3>2, <3>3, Issued
  <2>4. CASE commands' = commands
    BY <1>2, <1>3, <2>1, <2>2, <2>4, CommandsKept
  <2> QED
    BY <1>1, <2>3, <2>4
<1>8. TypeOK'
  <2>1. written' \subseteq Ids
    BY <1>1, <1>4 DEF IInv, TypeOK
  <2>2. wire' \in [Clients -> Wires]
    BY <1>1, <1>2, <1>6
  <2> QED
    BY <1>1, <1>2, <1>7, <2>1, <2>2
       DEF IInv, TypeOK, Phases, Wires, eventVars, clientVars, historyVars
<1>9. ASSUME NEW d \in Clients PROVE Ordered(d)'
  <2>1. CASE d = c
    <3>1. /\ captured'[c] = <<>> /\ gap'[c] = <<>> /\ wire'[c] = established \o all
          /\ lastEventId'[c] = lastEventId[c] /\ phase'[c] = "live"
      BY <1>1, <1>2 DEF clientVars
    <3>2. Coming(c)' = all
      BY <1>6, <3>1 DEF Coming
    <3>3. Follows(Coming(c), c)' /\ Coming(c)' \in Seq(Ids)
      BY <1>2, <1>5, <3>1, <3>2 DEF Follows
    <3> QED
      BY <1>2, <1>3, <2>1, <3>1, <3>3, StreamOnly
  <2>2. CASE d # c
    <3>1. UNCHANGED <<gap[d], phase[d], wire[d], captured[d], lastEventId[d]>>
      BY <1>1, <1>2, <2>2 DEF clientVars
    <3> QED
      BY <1>2, <1>3, <3>1, ClientKept
  <2> QED
    BY <2>1, <2>2
<1>10. Alone' /\ RingIsRecent'
  BY <1>1 DEF IInv, Alone, RingIsRecent, eventVars
<1> QED
  BY <1>7, <1>8, <1>9, <1>10 DEF IInv, Ordered

\* Receive: the client moves on by one event, or starts over with the framework's id.
LEMMA ReceiveStep == ASSUME IInv, NEW c \in Clients, Receive(c) PROVE IInv'
<1> DEFINE head == Head(wire[c])
           rest == Tail(wire[c])
<1>1. /\ wire[c] # <<>>
      /\ lastEventId' = [lastEventId EXCEPT ![c] = head]
      /\ received' = [received EXCEPT ![c] = received[c] \cup ({head} \ {AutoId})]
      /\ wire' = [wire EXCEPT ![c] = rest]
      /\ UNCHANGED <<storeVars, eventVars, phase, captured, gap, ghosts, written,
                     historyVars>>
  BY DEF Receive
<1>2. /\ wire \in [Clients -> Wires] /\ lastEventId \in [Clients -> NoHeader..MaxEvents]
      /\ received \in [Clients -> SUBSET Ids]
      /\ UNCHANGED <<issued, addressed, phase, captured, gap>>
  BY <1>1 DEF IInv, TypeOK, Wires, eventVars
<1>3. /\ wire[c] \in Wires /\ Coming(c) \in Seq(Ids) /\ issued \in Nat
      /\ issued <= MaxEvents /\ MaxEvents \in Nat
      /\ addressed \subseteq 1..issued /\ StreamInOrder(c) /\ Follows(Coming(c), c)
      /\ lastEventId[c] \in Int
  BY ClientTypes DEF Ordered, StreamInOrder
<1>4. /\ rest \in Seq(Ids) /\ WithoutEstablished(rest) = rest
      /\ \/ head = AutoId /\ rest = Coming(c)
         \/ head # AutoId /\ wire[c] = Coming(c)
  BY <1>1, <1>3, ComingTail DEF Coming
<1>5. \A i \in 1..Len(Coming(c)) : Coming(c)[i] \in Ids /\ Coming(c)[i] \in Nat
  BY <1>3, SeqElements
<1>6. /\ InOrder(rest)
      /\ \A i \in 1..Len(rest) : head < rest[i] /\ rest[i] <= issued
      /\ head \in 0..issued /\ head \in {AutoId} \cup Ids
  <2>1. CASE head = AutoId /\ rest = Coming(c)
    <3> HIDE DEF head, rest
    <3>1. \A i \in 1..Len(rest) : rest[i] \in Ids /\ rest[i] <= issued
      BY <1>3, <1>5, <2>1 DEF Follows
    <3>2. InOrder(rest)
      BY <1>3, <2>1 DEF Follows
    <3>3. head = 0 /\ head \in 0..issued /\ head \in {AutoId} \cup Ids
      BY <1>3, <2>1 DEF AutoId
    <3>4. \A e \in Ids : 0 < e
      BY DEF Ids
    <3> QED
      BY <3>1, <3>2, <3>3, <3>4
  <2>2. CASE head # AutoId /\ wire[c] = Coming(c)
    <3> DEFINE s == Coming(c)
    <3>1. s \in Seq(Ids) /\ InOrder(s) /\ s # <<>> /\ head = Head(s) /\ rest = Tail(s)
      BY <1>1, <1>3, <2>2 DEF Follows
    <3>2. \A i \in 1..Len(s) : s[i] <= issued /\ s[i] \in Nat /\ s[i] \in Ids
      BY <1>3, <1>5 DEF Follows
    <3> HIDE DEF s, head, rest
    <3>3. Head(s) = s[1] /\ 1 \in 1..Len(s) /\ Len(s) \in Nat
      BY <3>1
    <3>4. /\ InOrder(rest) /\ Len(rest) = Len(s) - 1
          /\ \A i \in 1..Len(rest) : rest[i] = s[i + 1] /\ head < rest[i]
      BY <3>1, TailInOrder
    <3>5. \A i \in 1..Len(rest) : i + 1 \in 1..Len(s)
      BY <3>3, <3>4
    <3>6. head \in Nat /\ head <= issued /\ head \in Ids
      BY <3>1, <3>2, <3>3
    <3>7. \A i \in 1..Len(rest) : head < rest[i] /\ rest[i] <= issued
      BY <3>2, <3>4, <3>5
    <3>8. head \in 0..issued
      BY <1>3, <3>6
    <3> QED
      BY <3>4, <3>6, <3>7, <3>8
  <2> QED
    BY <1>4, <2>1, <2>2
<1> HIDE DEF head, rest
<1>7. commands' \in Seq(Commands) /\ StoredWereIssued' /\ RetrievalsAwaited'
  <2>1. commands' = commands /\ queue' \subseteq queue
    BY <1>1 DEF storeVars
  <2>2. addressed \subseteq addressed' /\ addressed' \subseteq 1..issued'
    BY <1>2, <1>3
  <2>3. \A d \in Clients : phase[d] = "retrieving" => phase'[d] = "retrieving"
    BY <1>2
  <2> QED
    BY <2>1, <2>2, <2>3, CommandsKept
<1>8. TypeOK'
  <2>1. head \in NoHeader..MaxEvents
    BY <1>3, <1>6 DEF NoHeader
  <2>2. {head} \ {AutoId} \subseteq Ids
    BY <1>6
  <2>3. rest \in Wires
    <3>1. rest \in Seq({AutoId} \cup Ids)
      BY <1>4, SeqMonotonic
    <3> QED
      BY <3>1 DEF Wires
  <2>4. /\ lastEventId' \in [Clients -> NoHeader..MaxEvents]
        /\ received' \in [Clients -> SUBSET Ids]
        /\ wire' \in [Clients -> Wires]
    BY <1>1, <1>2, <2>1, <2>2, <2>3
  <2> QED
    BY <1>1, <1>7, <2>4 DEF IInv, TypeOK, Wires, storeVars, eventVars, historyVars
<1>9. ASSUME NEW d \in Clients PROVE Ordered(d)'
  <2>1. CASE d = c
    <3>1. /\ phase[c] \in {"live", "closing"} /\ captured[c] = <<>> /\ gap[c] = <<>>
      BY <1>1, <1>3 DEF StreamInOrder
    <3>2. /\ captured'[c] = <<>> /\ gap'[c] = <<>> /\ wire'[c] = rest
          /\ lastEventId'[c] = head /\ phase'[c] \in {"live", "closing"}
      BY <1>1, <1>2, <3>1
    <3>3. Coming(c)' = rest /\ Coming(c)' \in Seq(Ids)
      BY <1>4, <3>2 DEF Coming
    <3>4. Follows(Coming(c), c)'
      BY <1>2, <1>6, <3>2, <3>3 DEF Follows
    <3>5. lastEventId'[c] \in Int /\ lastEventId'[c] <= issued' /\ issued' \in Nat
      BY <1>2, <1>3, <1>6, <3>2
    <3> QED
      BY <2>1, <3>2, <3>3, <3>4, <3>5, StreamOnly
  <2>2. CASE d # c
    <3>1. UNCHANGED <<gap[d], phase[d], wire[d], captured[d], lastEventId[d]>>
      BY <1>1, <1>2, <2>2
    <3> QED
      BY <1>2, <1>3, <3>1, ClientKept
  <2> QED
    BY <2>1, <2>2
<1>10. Alone' /\ RingIsRecent'
  BY <1>1 DEF IInv, Alone, RingIsRecent, eventVars, storeVars
<1> QED
  BY <1>7, <1>8, <1>9, <1>10 DEF IInv, Ordered

\* Restart: nothing is left here, and the ids go on.
LEMMA RestartStep == ASSUME IInv, Restart PROVE IInv'
<1>1. /\ restarts < MaxRestarts /\ restarts' = restarts + 1
      /\ ring' = <<>> /\ commands' = <<>> /\ bus' = {} /\ ghosts' = {}
      /\ phase' = [d \in Clients |-> "off"]
      /\ captured' = [d \in Clients |-> <<>>]
      /\ gap' = [d \in Clients |-> <<>>]
      /\ wire' = [d \in Clients |-> <<>>]
      /\ unqueued' \subseteq unqueued \cup Ids
      /\ UNCHANGED <<queue, remote, issued, addressed, written, clientVars, exposed, pruned>>
  BY DEF Restart
<1>2. TypeOK'
  <2>1. restarts' \in 0..MaxRestarts
    BY <1>1, ReplayAssumption DEF IInv, TypeOK
  <2>2. /\ ring' \in Seq(Ids) /\ Len(ring') <= ReplayBufferSize
        /\ commands' \in Seq(Commands)
    BY <1>1, ReplayAssumption
  <2>3. /\ captured' \in [Clients -> Seq(Ids)] /\ gap' \in [Clients -> Seq(Ids)]
        /\ wire' \in [Clients -> Seq({AutoId} \cup Ids)] /\ phase' \in [Clients -> Phases]
    BY <1>1 DEF Phases
  <2> QED
    BY <1>1, <2>1, <2>2, <2>3 DEF IInv, TypeOK, clientVars
<1>3. Alone' /\ RingIsRecent' /\ StoredWereIssued' /\ RetrievalsAwaited'
  <2>1. ToSet(<<>>) = {}
    BY DEF ToSet
  <2> QED
    BY <1>1, <2>1
       DEF IInv, Alone, RingIsRecent, StoredWereIssued, RetrievalsAwaited, InOrder
<1>4. ASSUME NEW d \in Clients PROVE Ordered(d)'
  <2>1. /\ issued' = issued /\ lastEventId'[d] = lastEventId[d] /\ phase'[d] = "off"
        /\ captured'[d] = <<>> /\ gap'[d] = <<>> /\ wire'[d] = <<>>
    BY <1>1 DEF clientVars
  <2> QED
    BY <2>1, ClientEnds
<1> QED
  BY <1>2, <1>3, <1>4 DEF IInv, Ordered

-----------------------------------------------------------------------------
(* The theorems. *)

\* On an instance that is alone, the inductive invariant survives every step.
LEMMA NextInv == ASSUME ~Elsewhere, IInv, [Next]_vars PROVE IInv'
<1>1. CASE UNCHANGED vars
  BY <1>1 DEF vars, storeVars, eventVars, streamVars, clientVars, historyVars, IInv,
              TypeOK, Alone, RingIsRecent, StoredWereIssued, RetrievalsAwaited,
              HandshakeInOrder, StreamInOrder, Follows, Coming
<1>2. CASE emitToUser
  BY <1>2, EmitStep
<1>3. CASE EmitElsewhere
  BY <1>3 DEF EmitElsewhere
<1>4. CASE \E reached \in SUBSET Live : broadcast(reached)
  BY <1>4, BroadcastStep
<1>5. CASE \E e \in Ids : BusDelivers(e) \/ BusLoses(e) \/ RemoteAppendExecutes(e)
  BY <1>5 DEF BusDelivers, BusLoses, RemoteAppendExecutes, IInv, Alone
<1>6. CASE Redis
  <2>1. CASE RetrieveExecutes \/ (CommandFails /\ NextIs("retrieve"))
    BY <2>1, RetrieveStep
  <2>2. CASE \/ AppendExecutes \/ AcknowledgeExecutes \/ RemoveExecutes \/ Expire
             \/ CommandFails /\ ~NextIs("retrieve")
    BY <2>2, StoreStep
  <2> QED
    BY <1>6, <2>1, <2>2 DEF Redis
<1>7. CASE \E c \in Clients : Stream(c)
  <2> SUFFICES ASSUME NEW c \in Clients, Stream(c) PROVE IInv'
    BY <1>7
  <2>1. CASE openStream(c)
    BY <2>1, OpenStep
  <2>2. CASE Subscribe(c)
    BY <2>2, SubscribeStep
  <2>3. CASE Receive(c)
    BY <2>3, ReceiveStep
  <2>4. CASE \/ Abandon(c) \/ SubscribeClosed(c) \/ disconnectLocal(c)
             \/ StreamCloses(c) \/ Drop(c) \/ GhostEnds(c)
    BY <2>4, EndStep
  <2> QED
    BY <2>1, <2>2, <2>3, <2>4 DEF Stream
<1>8. CASE Restart
  BY <1>8, RestartStep
<1> QED
  BY <1>1, <1>2, <1>3, <1>4, <1>5, <1>6, <1>7, <1>8 DEF Next

\* On an instance that is alone, the inductive invariant holds throughout: the ring
\* holds the user's latest events without a hole, and every handshake and every
\* stream is in order.
THEOREM Invariance == ASSUME ~Elsewhere PROVE Spec => []IInv
<1>1. Init => IInv
  BY InitInv
<1>2. IInv /\ [Next]_vars => IInv'
  BY NextInv
<1> QED
  BY <1>1, <1>2, PTL DEF Spec

\* On an instance that is alone, what is under way to a client is in the order of
\* the ids and above its Last-Event-ID, so no event comes twice on a stream: whatever
\* the ring and the queue overlap in, and across drops, failures of Redis and restarts.
THEOREM InOrderAlone == ASSUME ~Elsewhere PROVE Spec => []DeliveredInOrder
<1>1. IInv => DeliveredInOrder
  <2> SUFFICES ASSUME IInv, NEW c \in Clients PROVE InOrder(<<lastEventId[c]>> \o Coming(c))
    BY DEF DeliveredInOrder
  <2> DEFINE s == Coming(c)
             all == <<lastEventId[c]>> \o s
  <2>1. /\ s \in Seq(Ids) /\ lastEventId[c] \in Int /\ InOrder(s)
        /\ \A i \in 1..Len(s) : lastEventId[c] < s[i]
    BY ClientTypes DEF Ordered, StreamInOrder, Follows
  <2> HIDE DEF s
  <2>2. Len(s) \in Nat
    BY <2>1
  <2>3. /\ Len(all) = Len(s) + 1
        /\ all[1] = lastEventId[c]
        /\ \A i \in 2..(Len(s) + 1) : all[i] = s[i - 1]
    BY <2>1
  <2> HIDE DEF all
  <2> SUFFICES ASSUME NEW i \in 1..Len(all), NEW j \in 1..Len(all), i < j
               PROVE  all[i] < all[j]
    BY DEF InOrder, all, s
  <2>4. j - 1 \in 1..Len(s) /\ all[j] = s[j - 1]
    BY <2>2, <2>3
  <2>5. CASE i = 1
    BY <2>1, <2>3, <2>4, <2>5
  <2>6. CASE i > 1
    <3>1. i - 1 \in 1..Len(s) /\ all[i] = s[i - 1] /\ i - 1 < j - 1
      BY <2>2, <2>3, <2>6
    <3> QED
      BY <2>1, <2>4, <3>1 DEF InOrder
  <2> QED
    BY <2>5, <2>6
<1>2. Spec => []IInv
  BY Invariance
<1> QED
  BY <1>1, <1>2, PTL

\* A ring in order holds each id once, so findIndex finds what is there.
LEMMA IndexFact ==
    ASSUME NEW buf \in Seq(Ids), InOrder(buf), NEW id \in ToSet(buf)
    PROVE  IndexOf(buf, id) # {}
<1>1. Len(buf) \in Nat /\ \A i \in 1..Len(buf) : buf[i] \in Nat
  BY SeqElements
<1>2. PICK i \in 1..Len(buf) : buf[i] = id
  BY SeqElements
<1>3. \A j \in 1..(i - 1) : buf[j] # id
  BY <1>1, <1>2 DEF InOrder
<1> QED
  BY <1>2, <1>3 DEF IndexOf

\* On an instance that is alone, a handshake whose Last-Event-ID is still in the ring
\* captures all the user's events since, for any ring size and number of clients.
THEOREM ReplayCompleteAlone == ASSUME ~Elsewhere PROVE Spec => ReplayComplete
<1>1. ASSUME IInv, NEW c \in Clients, openStream(c), lastEventId[c] \in ToSet(ring),
             NEW e \in addressed, lastEventId[c] < e
      PROVE  e \in ToSet(captured'[c])
  <2>1. /\ ring \in Seq(Ids) /\ Recent(ring, addressed)
        /\ addressed \in SUBSET Nat /\ lastEventId[c] \in Int
    <3>1. addressed \subseteq Ids /\ Ids \subseteq Nat
      BY <1>1 DEF IInv, TypeOK, Ids
    <3>2. ring \in Seq(Ids) /\ Recent(ring, addressed)
      BY <1>1 DEF IInv, TypeOK, RingIsRecent, Recent
    <3>3. lastEventId[c] \in Int
      BY <1>1, ClientTypes
    <3> QED
      BY <3>1, <3>2, <3>3
  <2>2. IndexOf(ring, lastEventId[c]) # {}
    BY <1>1, <2>1, IndexFact DEF Recent
  <2>3. e \in ToSet(since(ring, lastEventId[c]))
    BY <1>1, <2>1, <2>2, SinceFact
  <2>4. captured'[c] = since(ring, lastEventId[c])
    BY <1>1 DEF openStream, IInv, TypeOK
  <2> QED
    BY <2>3, <2>4
<1>2. IInv => \A c \in Clients : openStream(c) /\ lastEventId[c] \in ToSet(ring) =>
                 \A e \in addressed : lastEventId[c] < e => e \in ToSet(captured'[c])
  BY <1>1
<1>3. Spec => []IInv
  BY Invariance
<1> QED
  BY <1>2, <1>3, PTL DEF Spec, ReplayComplete

-----------------------------------------------------------------------------
(* Acknowledgements, on any instance: other instances may emit to the user. *)

\* W holds an id as great as e.
CoveredBy(e, W) == \E w \in W \cap Ids : e <= w

\* What cmd takes out of the queue, now or by the removal it leads to, is covered.
PrunesCovered(cmd, W) ==
    /\ cmd.op = "acknowledge" => CoveredBy(cmd.id, W)
    /\ cmd.op = "remove" => \A e \in cmd.ids : CoveredBy(e, W)

LinePrunesCovered(line, W) ==
    /\ line \in Seq(Commands)
    /\ \A i \in 1..Len(line) : PrunesCovered(line[i], W)

\* The strengthening of PrunedWereCovered: the ids written to a stream cover what the
\* acknowledgements and removals on their way to Redis will prune, too.
PruneInv ==
    /\ issued \in 0..MaxEvents
    /\ queue \subseteq Ids
    /\ gap \in [Clients -> Seq(Ids)]
    /\ LinePrunesCovered(commands, written)
    /\ \A e \in pruned : CoveredBy(e, written)

\* What covers something covers it when more has been written.
LEMMA CoverGrows ==
    ASSUME NEW W, NEW V, W \subseteq V
    PROVE  /\ \A e : CoveredBy(e, W) => CoveredBy(e, V)
           /\ \A line : LinePrunesCovered(line, W) => LinePrunesCovered(line, V)
<1>1. \A e : CoveredBy(e, W) => CoveredBy(e, V)
  BY DEF CoveredBy
<1>2. \A cmd : PrunesCovered(cmd, W) => PrunesCovered(cmd, V)
  BY <1>1 DEF PrunesCovered
<1> QED
  BY <1>1, <1>2 DEF LinePrunesCovered

\* A command whose prunes are covered joins the line.
LEMMA CoverAppend ==
    ASSUME NEW line, NEW W, LinePrunesCovered(line, W),
           NEW cmd \in Commands, PrunesCovered(cmd, W)
    PROVE  LinePrunesCovered(Append(line, cmd), W)
<1> DEFINE new == Append(line, cmd)
<1>1. line \in Seq(Commands) /\ \A i \in 1..Len(line) : PrunesCovered(line[i], W)
  BY DEF LinePrunesCovered
<1>2. /\ new \in Seq(Commands)
      /\ \A i \in 1..Len(new) : \/ new[i] = cmd
                                \/ i \in 1..Len(line) /\ new[i] = line[i]
  <2>1. /\ Len(new) = Len(line) + 1 /\ new \in Seq(Commands) /\ Len(line) \in Nat
        /\ \A i \in 1..Len(line) : new[i] = line[i]
        /\ new[Len(line) + 1] = cmd
    BY <1>1
  <2> HIDE DEF new
  <2>2. \A i \in 1..Len(new) : i = Len(line) + 1 \/ i \in 1..Len(line)
    BY <2>1
  <2> QED
    BY <2>1, <2>2
<1> HIDE DEF new
<1>3. \A i \in 1..Len(new) : PrunesCovered(new[i], W)
  BY <1>1, <1>2
<1> QED
  BY <1>2, <1>3 DEF LinePrunesCovered, new

\* The first command leaves the line.
LEMMA CoverTail ==
    ASSUME NEW line, NEW W, LinePrunesCovered(line, W), line # <<>>
    PROVE  /\ LinePrunesCovered(Tail(line), W)
           /\ Head(line) \in Commands
           /\ PrunesCovered(Head(line), W)
<1> DEFINE rest == Tail(line)
           first == Head(line)
<1>1. line \in Seq(Commands) /\ \A i \in 1..Len(line) : PrunesCovered(line[i], W)
  BY DEF LinePrunesCovered
<1>2. /\ rest \in Seq(Commands)
      /\ \A i \in 1..Len(rest) : i + 1 \in 1..Len(line) /\ rest[i] = line[i + 1]
      /\ 1 \in 1..Len(line) /\ first = line[1] /\ line[1] \in Commands
  BY <1>1
<1> HIDE DEF rest, first
<1>3. \A i \in 1..Len(rest) : PrunesCovered(rest[i], W)
  BY <1>1, <1>2
<1>4. first \in Commands /\ PrunesCovered(first, W)
  BY <1>1, <1>2
<1> QED
  BY <1>2, <1>3, <1>4 DEF LinePrunesCovered, rest, first

\* A step that prunes nothing, and whose commands are covered.
LEMMA PruneKept ==
    ASSUME PruneInv, written \subseteq written', pruned' = pruned,
           issued' \in 0..MaxEvents, queue' \subseteq Ids, gap' \in [Clients -> Seq(Ids)],
           LinePrunesCovered(commands', written) \/ LinePrunesCovered(commands', written')
    PROVE  PruneInv'
<1>1. \A e : CoveredBy(e, written) => CoveredBy(e, written')
  BY CoverGrows
<1>2. LinePrunesCovered(commands', written')
  BY CoverGrows
<1>3. \A e \in pruned' : CoveredBy(e, written')
  BY <1>1 DEF PruneInv
<1> QED
  BY <1>2, <1>3 DEF PruneInv

\* What a handshake gets out of the queue are ids.
LEMMA ListingIds ==
    ASSUME NEW S \in SUBSET Ids, NEW events \in Listings(S)
    PROVE  events \in Seq(Ids)
<1>1. events \in [1..Cardinality(S) -> S]
  BY DEF Listings, SetToSeqs
<1>2. Cardinality(S) \in Nat
  <2>1. IsFiniteSet(Ids)
    BY FS_Interval, ReplayAssumption DEF Ids
  <2>2. IsFiniteSet(S)
    BY <2>1, FS_Subset
  <2> QED
    BY <2>2, FS_CardinalityType
<1>3. \A k \in Nat : events \in [1..k -> S] => events \in Seq(Ids)
  OBVIOUS
<1> QED
  BY <1>1, <1>2, <1>3

LEMMA PruneInit == Init => PruneInv
<1> SUFFICES ASSUME Init PROVE PruneInv
  OBVIOUS
<1>1. LinePrunesCovered(commands, written)
  BY DEF Init, LinePrunesCovered
<1> QED
  BY <1>1, ReplayAssumption DEF Init, PruneInv

\* Emitting appends: it prunes nothing.
LEMMA PruneEmit == ASSUME PruneInv, emitToUser PROVE PruneInv'
<1> DEFINE e == issued + 1
           cmd == [op |-> "append", id |-> e]
<1>1. /\ issued < MaxEvents /\ issued' = e /\ emitToUserLocal(e)
      /\ commands' = Append(commands, cmd) \/ commands' = commands
      /\ UNCHANGED <<queue, gap, pruned>>
  BY DEF emitToUser, Issue
<1>2. e \in Ids /\ issued' \in 0..MaxEvents
  BY <1>1, ReplayAssumption DEF PruneInv, Ids
<1>3. written \subseteq written'
  BY <1>1 DEF emitToUserLocal, deliver
<1>4. cmd \in Commands /\ PrunesCovered(cmd, written)
  BY <1>2 DEF Commands, PrunesCovered
<1> HIDE DEF cmd, e
<1>5. LinePrunesCovered(commands', written)
  BY <1>1, <1>4, CoverAppend DEF PruneInv
<1> QED
  BY <1>1, <1>2, <1>3, <1>5, PruneKept DEF PruneInv

\* Redis executes a command.
LEMMA PruneAppend == ASSUME PruneInv, AppendExecutes PROVE PruneInv'
<1>1. /\ commands # <<>> /\ Head(commands).op = "append"
      /\ queue' = zadd(queue, Head(commands).id) /\ commands' = Tail(commands)
      /\ UNCHANGED <<issued, gap, pruned, written>>
  BY DEF AppendExecutes, NextIs, eventVars, streamVars, historyVars
<1>2. LinePrunesCovered(Tail(commands), written) /\ Head(commands) \in Commands
  BY <1>1, CoverTail DEF PruneInv
<1>3. queue' \subseteq queue \cup {Head(commands).id}
  BY <1>1 DEF zadd
<1>4. Head(commands).id \in Ids
  BY <1>1, <1>2 DEF Commands
<1>5. queue' \subseteq Ids
  BY <1>3, <1>4 DEF PruneInv
<1> QED
  BY <1>1, <1>2, <1>5, PruneKept DEF PruneInv

\* An acknowledgement up to a covered id asks for the removal of covered ids only.
LEMMA PruneAcknowledge == ASSUME PruneInv, AcknowledgeExecutes PROVE PruneInv'
<1> DEFINE upTo == {e \in queue : e <= Head(commands).id}
           cmd == [op |-> "remove", ids |-> upTo]
<1>1. /\ commands # <<>> /\ Head(commands).op = "acknowledge"
      /\ commands' = Tail(commands) \/ commands' = Append(Tail(commands), cmd)
      /\ UNCHANGED <<issued, queue, gap, pruned, written>>
  BY DEF AcknowledgeExecutes, NextIs, eventVars, streamVars, historyVars
<1>2. /\ LinePrunesCovered(Tail(commands), written)
      /\ Head(commands) \in Commands
      /\ PrunesCovered(Head(commands), written)
  BY <1>1, CoverTail DEF PruneInv
<1>3. Head(commands).id \in Ids
  BY <1>1, <1>2 DEF Commands
<1>4. PICK w \in written \cap Ids : Head(commands).id <= w
  BY <1>1, <1>2 DEF PrunesCovered, CoveredBy
<1>5. ASSUME NEW e \in upTo PROVE CoveredBy(e, written)
  <2>1. e \in Ids /\ e <= Head(commands).id
    BY <1>5 DEF PruneInv
  <2>2. e <= w
    BY <1>3, <1>4, <2>1 DEF Ids
  <2> QED
    BY <1>4, <2>2 DEF CoveredBy
<1>6. cmd \in Commands /\ cmd.op = "remove" /\ cmd.ids = upTo
  BY DEF PruneInv, Commands
<1> HIDE DEF cmd, upTo
<1>7. PrunesCovered(cmd, written)
  BY <1>5, <1>6 DEF PrunesCovered
<1>8. LinePrunesCovered(commands', written)
  BY <1>1, <1>2, <1>6, <1>7, CoverAppend
<1> QED
  BY <1>1, <1>8, PruneKept DEF PruneInv

LEMMA PruneRemove == ASSUME PruneInv, RemoveExecutes PROVE PruneInv'
<1>1. /\ commands # <<>> /\ Head(commands).op = "remove"
      /\ queue' \subseteq queue /\ commands' = Tail(commands)
      /\ pruned' = pruned \cup (queue \cap Head(commands).ids)
      /\ UNCHANGED <<issued, gap, written>>
  BY DEF RemoveExecutes, NextIs, eventVars, streamVars
<1>2. /\ LinePrunesCovered(Tail(commands), written)
      /\ PrunesCovered(Head(commands), written)
  BY <1>1, CoverTail DEF PruneInv
<1>3. LinePrunesCovered(commands', written')
  BY <1>1, <1>2
<1>4. \A e \in pruned' : CoveredBy(e, written')
  BY <1>1, <1>2 DEF PruneInv, PrunesCovered
<1> QED
  BY <1>1, <1>3, <1>4 DEF PruneInv

\* A handshake gets the queue's events, or nothing; another command fails; the key expires.
LEMMA PruneOther ==
    ASSUME PruneInv, RetrieveExecutes \/ CommandFails \/ Expire
    PROVE  PruneInv'
<1>1. UNCHANGED <<issued, pruned, written>>
  BY DEF RetrieveExecutes, CommandFails, Expire, eventVars, streamVars, historyVars
<1>2. /\ gap \in [Clients -> Seq(Ids)] /\ queue \subseteq Ids /\ issued \in 0..MaxEvents
      /\ LinePrunesCovered(commands, written)
  BY DEF PruneInv
<1>3. CASE Expire
  BY <1>1, <1>2, <1>3, PruneKept DEF Expire, streamVars
<1>4. CASE RetrieveExecutes \/ CommandFails
  <2>1. commands # <<>> /\ commands' = Tail(commands) /\ queue' = queue
    BY <1>4 DEF RetrieveExecutes, CommandFails, NextIs, Retrieved
  <2>2. LinePrunesCovered(Tail(commands), written)
    BY <1>2, <2>1, CoverTail
  <2>3. gap' \in [Clients -> Seq(Ids)]
    <3>1. CASE RetrieveExecutes
      <4> DEFINE S == retrieveSince(queue, lastEventId[Head(commands).client])
                      \ ToSet(captured[Head(commands).client])
      <4>1. S \subseteq Ids
        BY <1>2 DEF retrieveSince
      <4>2. PICK events \in Listings(S) : gap' = [gap EXCEPT ![Head(commands).client] = events]
        BY <3>1 DEF RetrieveExecutes, Retrieved
      <4> HIDE DEF S
      <4>3. events \in Seq(Ids)
        BY <4>1, <4>2, ListingIds
      <4> QED
        BY <1>2, <4>2, <4>3
    <3>2. CASE CommandFails
      <4>1. gap' = gap \/ gap' = [gap EXCEPT ![Head(commands).client] = <<>>]
        BY <3>2 DEF CommandFails, Retrieved
      <4>2. <<>> \in Seq(Ids)
        OBVIOUS
      <4> QED
        BY <1>2, <4>1, <4>2
    <3> QED
      BY <1>4, <3>1, <3>2
  <2> QED
    BY <1>1, <1>2, <2>1, <2>2, <2>3, PruneKept
<1> QED
  BY <1>3, <1>4

\* Subscribe writes what it then acknowledges.
LEMMA PruneSubscribe == ASSUME PruneInv, NEW c \in Clients, Subscribe(c) PROVE PruneInv'
<1> DEFINE cmd == [op |-> "acknowledge", id |-> Last(gap[c])]
<1>1. /\ gap' = [gap EXCEPT ![c] = <<>>]
      /\ written \subseteq written' /\ ToSet(gap[c]) \subseteq written'
      /\ \/ gap[c] # <<>> /\ commands' = Append(commands, cmd)
         \/ commands' = commands
      /\ UNCHANGED <<issued, queue, pruned>>
  BY DEF Subscribe, Leave, Issue, eventVars, historyVars
<1>2. gap[c] \in Seq(Ids) /\ gap' \in [Clients -> Seq(Ids)]
  <2>1. <<>> \in Seq(Ids)
    OBVIOUS
  <2> QED
    BY <1>1, <2>1 DEF PruneInv
<1>3. CASE commands' = commands
  BY <1>1, <1>2, <1>3, PruneKept DEF PruneInv
<1>4. CASE gap[c] # <<>> /\ commands' = Append(commands, cmd)
  <2> DEFINE s == gap[c]
  <2>1. /\ s \in Seq(Ids) /\ s # <<>> /\ ToSet(s) \subseteq written'
        /\ cmd = [op |-> "acknowledge", id |-> Last(s)]
    BY <1>1, <1>2, <1>4
  <2> HIDE DEF s
  <2>2. Last(s) = s[Len(s)] /\ Len(s) \in 1..Len(s)
    BY <2>1 DEF Last
  <2>3. Last(s) \in Ids /\ Last(s) \in ToSet(s)
    BY <2>1, <2>2, SeqElements
  <2>4. CoveredBy(Last(s), written')
    <3>1. Last(s) <= Last(s)
      BY <2>3 DEF Ids
    <3> QED
      BY <2>1, <2>3, <3>1 DEF CoveredBy
  <2>5. cmd \in Commands /\ PrunesCovered(cmd, written')
    <3>1. cmd \in Commands /\ cmd.op = "acknowledge" /\ cmd.id = Last(s)
      BY <2>1, <2>3 DEF Commands
    <3> QED
      BY <2>4, <3>1 DEF PrunesCovered
  <2> HIDE DEF cmd
  <2>6. LinePrunesCovered(commands, written')
    BY <1>1, CoverGrows DEF PruneInv
  <2>7. LinePrunesCovered(commands', written')
    BY <1>4, <2>5, <2>6, CoverAppend
  <2> QED
    BY <1>1, <1>2, <2>7, PruneKept DEF PruneInv
<1> QED
  BY <1>1, <1>3, <1>4

\* The other steps of a handshake and of its stream prune nothing.
LEMMA PruneStream == ASSUME PruneInv, NEW c \in Clients, Stream(c) PROVE PruneInv'
<1>1. CASE Subscribe(c)
  BY <1>1, PruneSubscribe
<1>2. CASE openStream(c)
  <2> DEFINE cmd == [op |-> "retrieve", client |-> c]
  <2>1. /\ UNCHANGED <<issued, queue, gap, pruned, written>>
        /\ commands' = Append(commands, cmd) \/ commands' = commands
    BY <1>2 DEF openStream, Issue, eventVars, historyVars
  <2>2. cmd \in Commands /\ PrunesCovered(cmd, written)
    BY DEF Commands, PrunesCovered
  <2> HIDE DEF cmd
  <2>3. LinePrunesCovered(commands', written)
    BY <2>1, <2>2, CoverAppend DEF PruneInv
  <2> QED
    BY <2>1, <2>3, PruneKept DEF PruneInv
<1>3. CASE Abandon(c) \/ SubscribeClosed(c)
  <2>1. /\ UNCHANGED <<issued, queue, commands, pruned, written>>
        /\ gap' = [gap EXCEPT ![c] = <<>>]
    BY <1>3 DEF Abandon, SubscribeClosed, Leave, eventVars, historyVars, storeVars
  <2>2. <<>> \in Seq(Ids)
    OBVIOUS
  <2>3. gap' \in [Clients -> Seq(Ids)]
    BY <2>1, <2>2 DEF PruneInv
  <2> QED
    BY <2>1, <2>3, PruneKept DEF PruneInv
<1>4. CASE Receive(c) \/ disconnectLocal(c) \/ StreamCloses(c) \/ Drop(c) \/ GhostEnds(c)
  <2>1. UNCHANGED <<issued, queue, commands, gap, pruned, written>>
    BY <1>4 DEF Receive, disconnectLocal, StreamCloses, Drop, GhostEnds, eventVars,
                historyVars, storeVars
  <2> QED
    BY <2>1, PruneKept DEF PruneInv
<1> QED
  BY <1>1, <1>2, <1>3, <1>4 DEF Stream

\* What emits elsewhere, broadcasts, the bus and a restart do covers what they leave.
LEMMA PruneNext == ASSUME PruneInv, [Next]_vars PROVE PruneInv'
<1>1. CASE UNCHANGED vars
  <2>1. UNCHANGED <<issued, queue, commands, gap, pruned, written>>
    BY <1>1 DEF vars, eventVars, storeVars, streamVars, historyVars
  <2> QED
    BY <2>1, PruneKept DEF PruneInv
<1>2. CASE emitToUser
  BY <1>2, PruneEmit
<1>3. CASE EmitElsewhere \/ \E reached \in SUBSET Live : broadcast(reached)
  <2>1. /\ issued < MaxEvents /\ issued' = issued + 1 /\ written \subseteq written'
        /\ UNCHANGED <<queue, commands, gap, pruned>>
    BY <1>3 DEF EmitElsewhere, broadcast, deliver, streamVars, storeVars, historyVars
  <2>2. issued' \in 0..MaxEvents
    BY <2>1, ReplayAssumption DEF PruneInv
  <2> QED
    BY <2>1, <2>2, PruneKept DEF PruneInv
<1>4. ASSUME NEW e \in Ids, BusDelivers(e) \/ BusLoses(e) \/ RemoteAppendExecutes(e)
      PROVE  PruneInv'
  <2>1. /\ written \subseteq written' /\ UNCHANGED <<issued, commands, gap, pruned>>
        /\ queue' = queue \/ queue' = zadd(queue, e)
    BY <1>4 DEF BusDelivers, BusLoses, RemoteAppendExecutes, emitToUserLocal, deliver,
                streamVars, eventVars, storeVars, historyVars
  <2>2. zadd(queue, e) \subseteq queue \cup {e}
    BY DEF zadd
  <2>3. queue' \subseteq Ids
    BY <2>1, <2>2 DEF PruneInv
  <2> QED
    BY <2>1, <2>3, PruneKept DEF PruneInv
<1>5. CASE Redis
  BY <1>5, PruneAppend, PruneAcknowledge, PruneRemove, PruneOther DEF Redis
<1>6. CASE \E c \in Clients : Stream(c)
  BY <1>6, PruneStream
<1>7. CASE Restart
  <2>1. /\ commands' = <<>> /\ gap' = [c \in Clients |-> <<>>]
        /\ UNCHANGED <<issued, queue, pruned, written>>
    BY <1>7 DEF Restart
  <2>2. <<>> \in Seq(Ids) /\ LinePrunesCovered(<<>>, written)
    BY DEF LinePrunesCovered
  <2>3. gap' \in [Clients -> Seq(Ids)] /\ LinePrunesCovered(commands', written)
    BY <2>1, <2>2
  <2> QED
    BY <2>1, <2>3, PruneKept DEF PruneInv
<1> QED
  BY <1>1, <1>2, <1>3, <1>4, <1>5, <1>6, <1>7 DEF Next

\* On any instance, other instances emitting or not, an acknowledgement never takes an
\* event out of the queue that is newer than everything written to an open stream: a
\* handshake that comes to nothing prunes nothing, and what is appended while the
\* acknowledgement and the removal are under way stays, whatever fails in between.
THEOREM AcknowledgedWereWritten == Spec => []PrunedWereCovered
<1>1. Init => PruneInv
  BY PruneInit
<1>2. PruneInv /\ [Next]_vars => PruneInv'
  BY PruneNext
<1>3. PruneInv => PrunedWereCovered
  BY DEF PruneInv, PrunedWereCovered, CoveredBy
<1> QED
  BY <1>1, <1>2, <1>3, PTL DEF Spec

-----------------------------------------------------------------------------
(* What a client misses, on an instance that is alone and whose queue holds all. *)

\* Redis answers, and neither the cap nor the limit of a retrieval is ever reached.
HoldsEverything ==
    /\ ~StorageMayFail
    /\ MaxPerUser >= MaxEvents
    /\ RetrieveLimit >= MaxEvents

Appending(e) == [op |-> "append", id |-> e]

\* The line of commands appends e.
Appends(line, e) == \E i \in 1..Len(line) : line[i] = Appending(e)

\* What the line appends behind the retrieval of a client, the client was exposed to.
BehindExposed(line, exposures) ==
    \A i, j \in 1..Len(line) : \A e \in Ids :
        i < j /\ line[i].op = "retrieve" /\ line[j] = Appending(e)
            => e \in exposures[line[i].client]

\* The events c may miss.
Excused(c) == exposed[c] \cup unqueued \cup pruned

\* What c has received or will unless its stream breaks.
Reached(c) == received[c] \cup ToSet(Coming(c))

\* e is newer than something that reaches c, and does not reach c itself.
Overtaken(c, e) ==
    /\ e \in addressed \ (Reached(c) \cup Excused(c))
    /\ \E older \in Reached(c) : older < e

\* Every event is in the queue or on its way there, unless some stream counted as open
\* or an acknowledgement removed it.
StoredUnlessExcused == \A e \in addressed \ (unqueued \cup pruned) :
    e \in queue \/ Appends(commands, e)

\* The commands are executed in order: what is appended behind a retrieval was emitted
\* during the handshake.
AppendedBehind == BehindExposed(commands, exposed)

\* What c asks for is what it received last, or the framework's id.
AsksForReceived(c) ==
    \/ lastEventId[c] = NoHeader /\ received[c] = {}
    \/ lastEventId[c] = AutoId
    \/ lastEventId[c] \in received[c]

\* What the ring and the queue gave a handshake is all the client lacks.
HandshakeComplete(c) ==
    phase[c] = "returned" =>
        \/ received[c] = {} /\ captured[c] = <<>> /\ gap[c] = <<>>
        \/ \A e \in addressed \ Excused(c) :
              lastEventId[c] < e => e \in ToSet(captured[c]) \cup ToSet(gap[c])

\* An open stream overtakes nothing.  Whatever it was that a broken one overtook, the
\* client will still ask for it.
NothingOvertaken(c) ==
    \A e \in Ids : Overtaken(c, e) =>
        /\ phase[c] # "live"
        /\ lastEventId[c] < e
        /\ \A f \in ToSet(Coming(c)) : f < e

\* The strengthening of LossesExplained.
LossInv ==
    /\ ~QueueConfigured => addressed \subseteq unqueued
    /\ StoredUnlessExcused
    /\ AppendedBehind
    /\ \A c \in Clients : AsksForReceived(c) /\ HandshakeComplete(c) /\ NothingOvertaken(c)

\* The two fields of an append.
LEMMA AppendingFact == \A e : Appending(e).op = "append" /\ Appending(e).id = e
  BY DEF Appending

\* The elements of a sequence that grows at its end, or of one put before another.
LEMMA AppendSet ==
    ASSUME NEW s \in Seq(Ids), NEW e \in Ids
    PROVE  ToSet(Append(s, e)) = ToSet(s) \cup {e}
<1> DEFINE t == Append(s, e)
<1>1. /\ t \in Seq(Ids) /\ Len(t) = Len(s) + 1 /\ Len(s) \in Nat
      /\ \A i \in 1..Len(s) : t[i] = s[i]
      /\ t[Len(s) + 1] = e
  OBVIOUS
<1>2. ToSet(t) = {t[i] : i \in 1..Len(t)} /\ ToSet(s) = {s[i] : i \in 1..Len(s)}
  BY <1>1, SeqElements
<1> HIDE DEF t
<1>3. \A i \in 1..Len(t) : i = Len(s) + 1 \/ i \in 1..Len(s)
  BY <1>1
<1>4. \A i \in 1..Len(s) : i \in 1..Len(t)
  BY <1>1
<1>5. Len(s) + 1 \in 1..Len(t)
  BY <1>1
<1> QED
  BY <1>1, <1>2, <1>3, <1>4, <1>5 DEF t

LEMMA ConcatSet ==
    ASSUME NEW s \in Seq(Ids), NEW t \in Seq(Ids)
    PROVE  ToSet(s \o t) = ToSet(s) \cup ToSet(t)
<1> DEFINE u == s \o t
<1>1. /\ u \in Seq(Ids) /\ Len(u) = Len(s) + Len(t) /\ Len(s) \in Nat /\ Len(t) \in Nat
      /\ \A k \in 1..(Len(s) + Len(t)) : u[k] = IF k <= Len(s) THEN s[k] ELSE t[k - Len(s)]
  BY ConcatProperties
<1>2. /\ ToSet(u) = {u[i] : i \in 1..Len(u)} /\ ToSet(s) = {s[i] : i \in 1..Len(s)}
      /\ ToSet(t) = {t[i] : i \in 1..Len(t)}
  BY <1>1, SeqElements
<1> HIDE DEF u
<1>3. \A k \in 1..Len(u) : \/ k \in 1..Len(s) /\ u[k] = s[k]
                           \/ k - Len(s) \in 1..Len(t) /\ u[k] = t[k - Len(s)]
  BY <1>1
<1>4. \A k \in 1..Len(s) : k \in 1..Len(u) /\ u[k] = s[k]
  BY <1>1
<1>5. \A k \in 1..Len(t) : k + Len(s) \in 1..Len(u) /\ u[k + Len(s)] = t[k]
  BY <1>1
<1>6. ToSet(u) \subseteq ToSet(s) \cup ToSet(t)
  BY <1>2, <1>3
<1>7. ToSet(s) \subseteq ToSet(u)
  BY <1>2, <1>4
<1>8. ToSet(t) \subseteq ToSet(u)
  BY <1>2, <1>5
<1> QED
  BY <1>6, <1>7, <1>8 DEF u

LEMMA TailSet ==
    ASSUME NEW s \in Seq(Ids), s # <<>>
    PROVE  ToSet(s) = {Head(s)} \cup ToSet(Tail(s))
<1> DEFINE t == Tail(s)
<1>1. /\ t \in Seq(Ids) /\ Len(t) = Len(s) - 1 /\ Len(s) \in Nat \ {0}
      /\ \A i \in 1..Len(t) : t[i] = s[i + 1]
      /\ Head(s) = s[1]
  OBVIOUS
<1>2. ToSet(t) = {t[i] : i \in 1..Len(t)} /\ ToSet(s) = {s[i] : i \in 1..Len(s)}
  BY <1>1, SeqElements
<1> HIDE DEF t
<1>3. \A i \in 1..Len(s) : i = 1 \/ (i - 1 \in 1..Len(t) /\ s[i] = t[i - 1])
  <2> SUFFICES ASSUME NEW i \in 1..Len(s), i # 1
               PROVE  i - 1 \in 1..Len(t) /\ s[i] = t[i - 1]
    OBVIOUS
  <2>1. i - 1 \in 1..Len(t) /\ (i - 1) + 1 = i
    BY <1>1
  <2> QED
    BY <1>1, <2>1
<1>4. \A i \in 1..Len(t) : i + 1 \in 1..Len(s)
  BY <1>1
<1>5. 1 \in 1..Len(s)
  BY <1>1
<1>6. ToSet(s) \subseteq {Head(s)} \cup ToSet(t)
  BY <1>1, <1>2, <1>3
<1>7. ToSet(t) \subseteq ToSet(s) /\ Head(s) \in ToSet(s)
  BY <1>1, <1>2, <1>4, <1>5
<1> QED
  BY <1>6, <1>7 DEF t

-----------------------------------------------------------------------------
(* The line of commands, again, and a queue that holds everything. *)

\* A command joins the line.
LEMMA LineAppend ==
    ASSUME NEW line \in Seq(Commands), NEW cmd \in Commands, NEW exposures,
           BehindExposed(line, exposures),
           \A e \in Ids : cmd = Appending(e) =>
              \A i \in 1..Len(line) : line[i].op = "retrieve" => e \in exposures[line[i].client]
    PROVE  /\ Append(line, cmd) \in Seq(Commands)
           /\ \A e : Appends(line, e) \/ cmd = Appending(e) => Appends(Append(line, cmd), e)
           /\ BehindExposed(Append(line, cmd), exposures)
<1> DEFINE new == Append(line, cmd)
<1>1. /\ new \in Seq(Commands) /\ Len(new) = Len(line) + 1 /\ Len(line) \in Nat
      /\ \A i \in 1..Len(line) : new[i] = line[i]
      /\ new[Len(line) + 1] = cmd
  OBVIOUS
<1> HIDE DEF new
<1>2. \A i \in 1..Len(new) : i \in 1..Len(line) \/ i = Len(line) + 1
  BY <1>1
<1>3. (\A i \in 1..Len(line) : i \in 1..Len(new)) /\ Len(line) + 1 \in 1..Len(new)
  BY <1>1
<1>4. \A e : Appends(line, e) \/ cmd = Appending(e) => Appends(new, e)
  BY <1>1, <1>3 DEF Appends
<1>5. BehindExposed(new, exposures)
  <2> SUFFICES ASSUME NEW i \in 1..Len(new), NEW j \in 1..Len(new), NEW e \in Ids,
                      i < j, new[i].op = "retrieve", new[j] = Appending(e)
               PROVE  e \in exposures[new[i].client]
    BY DEF BehindExposed
  <2>1. i \in 1..Len(line) /\ new[i] = line[i]
    BY <1>1, <1>2
  <2>2. CASE j \in 1..Len(line)
    <3>1. new[j] = line[j]
      BY <1>1, <2>2
    <3> QED
      BY <2>1, <2>2, <3>1 DEF BehindExposed
  <2>3. CASE j = Len(line) + 1
    BY <1>1, <2>1, <2>3
  <2> QED
    BY <1>2, <2>2, <2>3
<1> QED
  BY <1>1, <1>4, <1>5 DEF new

\* The first command leaves the line.
LEMMA LineTail ==
    ASSUME NEW line \in Seq(Commands), line # <<>>, NEW exposures, BehindExposed(line, exposures)
    PROVE  /\ Tail(line) \in Seq(Commands) /\ Head(line) \in Commands
           /\ \A e : Appends(line, e) => Head(line) = Appending(e) \/ Appends(Tail(line), e)
           /\ BehindExposed(Tail(line), exposures)
           /\ Head(line).op = "retrieve" =>
                 \A e \in Ids : Appends(Tail(line), e) => e \in exposures[Head(line).client]
<1> DEFINE rest == Tail(line)
           first == Head(line)
<1>1. /\ rest \in Seq(Commands) /\ Len(rest) = Len(line) - 1 /\ Len(line) \in Nat \ {0}
      /\ \A i \in 1..Len(rest) : rest[i] = line[i + 1]
      /\ first = line[1] /\ first \in Commands
  OBVIOUS
<1> HIDE DEF rest, first
<1>2. \A i \in 1..Len(rest) : i + 1 \in 1..Len(line) /\ 1 < i + 1
  BY <1>1
<1>3. 1 \in 1..Len(line)
  BY <1>1
<1>4. ASSUME NEW e, Appends(line, e) PROVE first = Appending(e) \/ Appends(rest, e)
  <2>1. PICK i \in 1..Len(line) : line[i] = Appending(e)
    BY <1>4 DEF Appends
  <2>2. CASE i = 1
    BY <1>1, <2>1, <2>2
  <2>3. CASE i # 1
    <3>1. i - 1 \in 1..Len(rest) /\ (i - 1) + 1 = i
      BY <1>1, <2>3
    <3>2. rest[i - 1] = line[i]
      BY <1>1, <3>1
    <3> QED
      BY <2>1, <3>1, <3>2 DEF Appends
  <2> QED
    BY <2>2, <2>3
<1>5. BehindExposed(rest, exposures)
  <2> SUFFICES ASSUME NEW i \in 1..Len(rest), NEW j \in 1..Len(rest), NEW e \in Ids,
                      i < j, rest[i].op = "retrieve", rest[j] = Appending(e)
               PROVE  e \in exposures[rest[i].client]
    BY DEF BehindExposed
  <2>1. rest[i] = line[i + 1] /\ rest[j] = line[j + 1] /\ i + 1 < j + 1
    BY <1>1
  <2> QED
    BY <1>2, <2>1 DEF BehindExposed
<1>6. ASSUME first.op = "retrieve", NEW e \in Ids, Appends(rest, e)
      PROVE  e \in exposures[first.client]
  <2>1. PICK i \in 1..Len(rest) : rest[i] = Appending(e)
    BY <1>6 DEF Appends
  <2>2. line[i + 1] = Appending(e) /\ i + 1 \in 1..Len(line) /\ 1 < i + 1 /\ line[1] = first
    BY <1>1, <1>2, <2>1
  <2> QED
    BY <1>3, <1>6, <2>2 DEF BehindExposed
<1> QED
  BY <1>1, <1>4, <1>5, <1>6 DEF rest, first

\* A queue below its cap loses nothing to an append.
LEMMA ZaddKeeps ==
    ASSUME HoldsEverything, NEW q \in SUBSET Ids, NEW e \in Ids
    PROVE  zadd(q, e) = q \cup {e}
<1> DEFINE all == q \cup {e}
           above(d) == {x \in all : x > d}
<1>1. ASSUME NEW d \in all PROVE Cardinality(above(d)) < MaxPerUser
  <2>1. MaxEvents \in Nat /\ MaxPerUser \in Nat /\ MaxPerUser >= MaxEvents
    BY ReplayAssumption DEF HoldsEverything
  <2>2. d \in Nat /\ 1 <= d /\ d <= MaxEvents
    BY <2>1 DEF Ids
  <2>3. above(d) \subseteq (d + 1)..MaxEvents
    <3>1. \A x \in all : x \in Int /\ x <= MaxEvents
      BY <2>1 DEF Ids
    <3>2. \A x \in Int : x > d /\ x <= MaxEvents => x \in (d + 1)..MaxEvents
      BY <2>1, <2>2
    <3> QED
      BY <3>1, <3>2
  <2>4. IsFiniteSet((d + 1)..MaxEvents) /\ Cardinality((d + 1)..MaxEvents) <= MaxEvents - d
    <3> DEFINE a == d + 1
    <3>1. a \in Int /\ MaxEvents \in Int /\ a = d + 1
      BY <2>1, <2>2
    <3> HIDE DEF a
    <3>2. /\ IsFiniteSet(a..MaxEvents)
          /\ Cardinality(a..MaxEvents) = IF a > MaxEvents THEN 0 ELSE MaxEvents - a + 1
      BY <3>1, FS_Interval
    <3>3. (IF a > MaxEvents THEN 0 ELSE MaxEvents - a + 1) <= MaxEvents - d
      BY <2>1, <2>2, <3>1
    <3> QED
      BY <3>2, <3>3 DEF a
  <2>5. Cardinality((d + 1)..MaxEvents) \in Nat
    BY <2>4, FS_CardinalityType
  <2> HIDE DEF above
  <2>6. Cardinality(above(d)) <= Cardinality((d + 1)..MaxEvents) /\ Cardinality(above(d)) \in Nat
    BY <2>3, <2>4, FS_Subset, FS_CardinalityType
  <2> QED
    BY <2>1, <2>2, <2>4, <2>5, <2>6
<1> QED
  BY <1>1 DEF zadd

\* A retrieval below its limit gives all there is.
LEMMA RetrieveAll ==
    ASSUME HoldsEverything, NEW q \in SUBSET Ids, NEW id \in Int
    PROVE  retrieveSince(q, id) = {e \in q : e > id}
<1> DEFINE between(e) == {d \in q : id < d /\ d < e}
<1>1. ASSUME NEW e \in q PROVE Cardinality(between(e)) < RetrieveLimit
  <2>1. MaxEvents \in Nat /\ RetrieveLimit \in Nat /\ RetrieveLimit >= MaxEvents
    BY ReplayAssumption DEF HoldsEverything
  <2>2. e \in Nat /\ 1 <= e /\ e <= MaxEvents
    BY <2>1 DEF Ids
  <2>3. between(e) \subseteq 1..(e - 1)
    <3>1. \A d \in q : d \in Int /\ 1 <= d
      BY DEF Ids
    <3>2. \A d \in Int : 1 <= d /\ d < e => d \in 1..(e - 1)
      BY <2>2
    <3> QED
      BY <3>1, <3>2
  <2>4. IsFiniteSet(1..(e - 1)) /\ Cardinality(1..(e - 1)) <= e - 1
    <3>1. 1 \in Int /\ e - 1 \in Int
      BY <2>2
    <3> QED
      BY <2>2, <3>1, FS_Interval
  <2>5. Cardinality(1..(e - 1)) \in Nat
    BY <2>4, FS_CardinalityType
  <2> HIDE DEF between
  <2>6. Cardinality(between(e)) <= Cardinality(1..(e - 1)) /\ Cardinality(between(e)) \in Nat
    BY <2>3, <2>4, FS_Subset, FS_CardinalityType
  <2> QED
    BY <2>1, <2>2, <2>4, <2>5, <2>6
<1> QED
  BY <1>1 DEF retrieveSince

\* A listing holds all of its set.
LEMMA ListingSet ==
    ASSUME NEW S \in SUBSET Ids, NEW events \in Listings(S)
    PROVE  events \in Seq(Ids) /\ ToSet(events) = S
<1> DEFINE n == Cardinality(S)
<1>1. events \in [1..n -> S] /\ \A i, j \in 1..n : i # j => events[i] # events[j]
  BY DEF Listings, SetToSeqs
<1>2. IsFiniteSet(S) /\ n \in Nat
  <2>1. IsFiniteSet(Ids)
    BY FS_Interval, ReplayAssumption DEF Ids
  <2> QED
    BY <2>1, FS_Subset, FS_CardinalityType
<1> HIDE DEF n
<1>3. events \in Injection(1..n, S)
  BY <1>1 DEF Injection, IsInjective
<1>4. Cardinality(1..n) = n
  BY <1>2, FS_Interval
<1>5. events \in Surjection(1..n, S)
  BY <1>2, <1>3, <1>4, FS_Injection DEF n
<1>6. events \in Seq(Ids) /\ DOMAIN events = 1..n
  BY <1>1, ListingIds
<1>7. ToSet(events) = {events[i] : i \in 1..n}
  BY <1>6 DEF ToSet
<1> QED
  BY <1>1, <1>5, <1>6, <1>7 DEF Surjection

-----------------------------------------------------------------------------
(* One client, and what it misses. *)

ClientLoss(c) == AsksForReceived(c) /\ HandshakeComplete(c) /\ NothingOvertaken(c)

\* What is known of the ids that concern one client.
LEMMA ClientFacts ==
    ASSUME IInv, NEW c \in Clients
    PROVE  /\ issued \in Nat /\ addressed \subseteq Ids /\ Ids \subseteq Nat
           /\ \A e \in addressed : e <= issued
           /\ lastEventId[c] \in Int /\ lastEventId[c] <= issued
           /\ ToSet(Coming(c)) \subseteq Ids
           /\ \A f \in ToSet(Coming(c)) : lastEventId[c] < f /\ f <= issued
           /\ received[c] \subseteq Ids
           /\ phase[c] \notin {"live", "closing"} => Coming(c) = <<>> /\ ToSet(Coming(c)) = {}
           /\ phase[c] \in {"off", "live", "closing"} => captured[c] = <<>> /\ gap[c] = <<>>
<1>1. /\ Coming(c) \in Seq(Ids) /\ lastEventId[c] \in Int /\ lastEventId[c] <= issued
      /\ issued \in Nat /\ addressed \subseteq 1..issued /\ StreamInOrder(c)
  BY ClientTypes DEF Ordered
<1>2. /\ ToSet(Coming(c)) \subseteq Ids
      /\ ToSet(Coming(c)) = {Coming(c)[i] : i \in 1..Len(Coming(c))}
  BY <1>1, SeqElements
<1>3. \A f \in ToSet(Coming(c)) : lastEventId[c] < f /\ f <= issued
  BY <1>1, <1>2 DEF StreamInOrder, Follows
<1>4. /\ received[c] \subseteq Ids /\ addressed \subseteq Ids /\ Ids \subseteq Nat
      /\ \A e \in addressed : e <= issued
  BY <1>1 DEF IInv, TypeOK, Ids
<1>5. phase[c] \notin {"live", "closing"} => Coming(c) = <<>> /\ ToSet(Coming(c)) = {}
  <2>1. WithoutEstablished(<<>>) = <<>> /\ ToSet(<<>>) = {}
    BY DEF WithoutEstablished, ToSet
  <2> QED
    BY <1>1, <2>1 DEF StreamInOrder, Coming
<1> QED
  BY <1>1, <1>2, <1>3, <1>4, <1>5 DEF StreamInOrder

\* A client a step does not touch, but for an event it may miss, or one that is new.
LEMMA ClientUntouched ==
    ASSUME IInv, NEW d \in Clients, ClientLoss(d),
           phase'[d] = phase[d], captured'[d] = captured[d], gap'[d] = gap[d],
           Coming(d)' = Coming(d), lastEventId'[d] = lastEventId[d],
           received'[d] = received[d],
           NEW may, may = Excused(d)', Excused(d) \subseteq may,
           \A e \in addressed' : \/ e \in addressed
                                 \/ e \in may
                                 \/ e = issued + 1 /\ phase[d] \notin {"live", "returned"}
    PROVE  ClientLoss(d)'
<1>1. AsksForReceived(d) /\ HandshakeComplete(d) /\ NothingOvertaken(d)
  BY DEF ClientLoss
<1>2. AsksForReceived(d)'
  BY <1>1 DEF AsksForReceived
<1>3. HandshakeComplete(d)'
  <2> SUFFICES ASSUME phase[d] = "returned",
                      ~(received[d] = {} /\ captured[d] = <<>> /\ gap[d] = <<>>),
                      NEW e \in addressed', e \notin may, lastEventId[d] < e
               PROVE  e \in ToSet(captured[d]) \cup ToSet(gap[d])
    BY DEF HandshakeComplete
  <2> QED
    BY <1>1 DEF HandshakeComplete
<1>4. NothingOvertaken(d)'
  <2> SUFFICES ASSUME NEW e \in Ids, Overtaken(d, e)'
               PROVE  /\ phase[d] # "live" /\ lastEventId[d] < e
                      /\ \A f \in ToSet(Coming(d)) : f < e
    BY DEF NothingOvertaken
  <2>1. Reached(d)' = Reached(d)
    BY DEF Reached
  <2>2. /\ e \in addressed' /\ e \notin Reached(d) /\ e \notin may
        /\ \E older \in Reached(d) : older < e
    BY <2>1 DEF Overtaken
  <2>3. CASE e \in addressed
    <3>1. Overtaken(d, e)
      BY <2>2, <2>3 DEF Overtaken
    <3> QED
      BY <1>1, <3>1 DEF NothingOvertaken
  <2>4. CASE e = issued + 1 /\ phase[d] \notin {"live", "returned"}
    <3>1. /\ issued \in Nat /\ lastEventId[d] \in Int /\ lastEventId[d] <= issued
          /\ \A f \in ToSet(Coming(d)) : f \in Nat /\ f <= issued
      BY ClientFacts
    <3>2. lastEventId[d] < issued + 1 /\ \A f \in ToSet(Coming(d)) : f < issued + 1
      BY <3>1
    <3> QED
      BY <2>4, <3>2
  <2> QED
    BY <2>2, <2>3, <2>4
<1> QED
  BY <1>2, <1>3, <1>4 DEF ClientLoss

\* An open stream that a new event is written to.
LEMMA ClientDelivered ==
    ASSUME IInv, NEW d \in Clients, ClientLoss(d), NEW e \in Ids, e = issued + 1,
           phase[d] = "live", phase'[d] = "live", Coming(d)' = Append(Coming(d), e),
           lastEventId'[d] = lastEventId[d], received'[d] = received[d],
           NEW may, may = Excused(d)', Excused(d) \subseteq may,
           addressed' \subseteq addressed \cup {e}
    PROVE  ClientLoss(d)'
<1>1. AsksForReceived(d)' /\ HandshakeComplete(d)'
  BY DEF ClientLoss, AsksForReceived, HandshakeComplete
<1>2. ToSet(Coming(d))' = ToSet(Coming(d)) \cup {e}
  <2>1. Coming(d) \in Seq(Ids)
    BY ClientTypes
  <2> QED
    BY <2>1, AppendSet
<1>3. Reached(d)' = Reached(d) \cup {e}
  BY <1>2 DEF Reached
<1>4. ASSUME NEW f \in Ids, Overtaken(d, f)' PROVE FALSE
  <2>1. /\ f \in addressed' /\ f \notin Reached(d) /\ f # e /\ f \notin may
        /\ \E older \in Reached(d) \cup {e} : older < f
    BY <1>3, <1>4 DEF Overtaken
  <2>2. f \in addressed /\ f <= issued /\ f \in Nat /\ issued \in Nat
    BY <2>1, ClientFacts
  <2>3. \E older \in Reached(d) : older < f
    BY <2>1, <2>2
  <2>4. Overtaken(d, f)
    BY <2>1, <2>2, <2>3 DEF Overtaken
  <2> QED
    BY <2>4 DEF ClientLoss, NothingOvertaken
<1>5. NothingOvertaken(d)'
  BY <1>4 DEF NothingOvertaken
<1> QED
  BY <1>1, <1>5 DEF ClientLoss

\* A client whose stream is not open after the step: what was on its way is lost, or not.
LEMMA ClientBehind ==
    ASSUME IInv, NEW c \in Clients, ClientLoss(c), phase'[c] # "live",
           lastEventId'[c] = lastEventId[c], received'[c] = received[c],
           Coming(c)' = Coming(c) \/ Coming(c)' = <<>>,
           NEW may, may = Excused(c)', Excused(c) \subseteq may,
           addressed' = addressed
    PROVE  AsksForReceived(c)' /\ NothingOvertaken(c)'
<1>1. AsksForReceived(c)'
  BY DEF ClientLoss, AsksForReceived
<1>2. ToSet(Coming(c))' = ToSet(Coming(c)) \/ ToSet(Coming(c))' = {}
  BY DEF ToSet
<1>3. ASSUME NEW e \in Ids, Overtaken(c, e)'
      PROVE  lastEventId[c] < e /\ \A f \in ToSet(Coming(c))' : f < e
  <2>1. /\ e \in addressed /\ e \notin received[c] /\ e \notin ToSet(Coming(c))' /\ e \notin may
        /\ \E older \in Reached(c) : older < e
    BY <1>2, <1>3 DEF Overtaken, Reached
  <2>2. CASE e \in ToSet(Coming(c))
    BY <1>2, <2>1, <2>2, ClientFacts
  <2>3. CASE e \notin ToSet(Coming(c))
    <3>1. Overtaken(c, e)
      BY <2>1, <2>3 DEF Overtaken, Reached
    <3> QED
      BY <1>2, <3>1 DEF ClientLoss, NothingOvertaken
  <2> QED
    BY <2>2, <2>3
<1>4. NothingOvertaken(c)'
  BY <1>3 DEF NothingOvertaken
<1> QED
  BY <1>1, <1>4

-----------------------------------------------------------------------------
(* LossInv, one action at a time. *)

\* The initial states satisfy it.
LEMMA LossInit == Init => LossInv
<1> SUFFICES ASSUME Init PROVE LossInv
  OBVIOUS
<1>1. ~QueueConfigured => addressed \subseteq unqueued
  BY DEF Init
<1>2. StoredUnlessExcused /\ AppendedBehind
  BY DEF Init, StoredUnlessExcused, AppendedBehind, BehindExposed
<1>3. \A c \in Clients : AsksForReceived(c) /\ HandshakeComplete(c) /\ NothingOvertaken(c)
  BY DEF Init, AsksForReceived, HandshakeComplete, NothingOvertaken, Overtaken
<1> QED
  BY <1>1, <1>2, <1>3 DEF LossInv

\* What a client was exposed to only grows.
LEMMA ExposedMore ==
    ASSUME NEW line \in Seq(Commands), NEW exposures, NEW more, BehindExposed(line, exposures),
           \A c \in Clients : exposures[c] \subseteq more[c]
    PROVE  BehindExposed(line, more)
<1> SUFFICES ASSUME NEW i \in 1..Len(line), NEW j \in 1..Len(line), NEW e \in Ids,
                    i < j, line[i].op = "retrieve", line[j] = Appending(e)
             PROVE  e \in more[line[i].client]
  BY DEF BehindExposed
<1>1. line[i] \in Commands
  OBVIOUS
<1>2. line[i].client \in Clients
  BY <1>1 DEF Commands
<1>3. e \in exposures[line[i].client]
  BY DEF BehindExposed
<1> QED
  BY <1>2, <1>3

\* emitToUser: to every open stream, and to the queue when there is none.
LEMMA LossEmit == ASSUME IInv, LossInv, emitToUser PROVE LossInv'
<1> DEFINE e == issued + 1
<1>1. /\ issued < MaxEvents /\ issued' = e /\ addressed' = addressed \cup {e}
      /\ deliver(e, Live)
      /\ exposed' = [c \in Clients |-> IF c \in InHandshake THEN exposed[c] \cup {e}
                                                            ELSE exposed[c]]
      /\ UNCHANGED <<queue, phase, captured, gap, clientVars, pruned>>
      /\ \/ QueueConfigured /\ commands' = Append(commands, Appending(e)) /\ unqueued' = unqueued
         \/ commands' = commands /\ unqueued' = unqueued \cup {e}
  BY DEF emitToUser, emitToUserLocal, Issue, Appending
<1>2. /\ issued \in Nat /\ e \in Ids
      /\ commands \in Seq(Commands) /\ exposed \in [Clients -> SUBSET Ids]
      /\ wire \in [Clients -> Wires]
  BY <1>1, ReplayAssumption DEF IInv, TypeOK, Ids, Wires
<1> HIDE DEF e
<1>3. /\ \A d \in Clients : exposed[d] \subseteq exposed'[d]
      /\ \A d \in InHandshake : e \in exposed'[d]
  BY <1>1, <1>2 DEF InHandshake
<1>4. BehindExposed(commands, exposed')
  BY <1>2, <1>3, ExposedMore DEF LossInv, AppendedBehind
<1>5. \A i \in 1..Len(commands) :
        commands[i].op = "retrieve" => e \in exposed'[commands[i].client]
  <2> SUFFICES ASSUME NEW i \in 1..Len(commands), commands[i].op = "retrieve"
               PROVE  e \in exposed'[commands[i].client]
    OBVIOUS
  <2>1. commands[i] \in Commands /\ phase[commands[i].client] = "retrieving"
    BY <1>2 DEF IInv, RetrievalsAwaited
  <2>2. commands[i].client \in InHandshake
    BY <2>1 DEF Commands, InHandshake
  <2> QED
    BY <1>3, <2>2
<1>6. ~QueueConfigured => addressed' \subseteq unqueued'
  BY <1>1 DEF LossInv
<1>7. /\ \A f : Appends(commands, f) => Appends(commands', f)
      /\ BehindExposed(commands', exposed')
      /\ e \in unqueued' \/ Appends(commands', e)
  <2>1. CASE commands' = Append(commands, Appending(e))
    <3>1. Appending(e) \in Commands
      BY <1>2 DEF Appending, Commands
    <3>2. \A f \in Ids : Appending(e) = Appending(f) => f = e
      BY AppendingFact
    <3>3. \A f \in Ids : Appending(e) = Appending(f) => \A i \in 1..Len(commands) :
             commands[i].op = "retrieve" => f \in exposed'[commands[i].client]
      BY <1>5, <3>2
    <3>4. /\ \A f : Appends(commands, f) \/ Appending(e) = Appending(f)
                       => Appends(Append(commands, Appending(e)), f)
          /\ BehindExposed(Append(commands, Appending(e)), exposed')
      BY <1>2, <1>4, <3>1, <3>3, LineAppend
    <3> QED
      BY <2>1, <3>4
  <2>2. CASE commands' = commands /\ unqueued' = unqueued \cup {e}
    BY <1>4, <2>2
  <2> QED
    BY <1>1, <2>1, <2>2
<1>8. StoredUnlessExcused'
  BY <1>1, <1>7 DEF LossInv, StoredUnlessExcused
<1>9. AppendedBehind'
  BY <1>7 DEF AppendedBehind
<1>10. ASSUME NEW d \in Clients PROVE ClientLoss(d)'
  <2>1. ClientLoss(d) /\ wire[d] \in Wires /\ Excused(d) \subseteq Excused(d)'
    BY <1>1, <1>2, <1>3 DEF LossInv, ClientLoss, Excused
  <2>2. CASE d \in Live
    <3>1. wire'[d] = Append(wire[d], e) /\ phase[d] = "live"
      BY <1>1, <2>2 DEF deliver, Live
    <3>2. Coming(d)' = Append(Coming(d), e)
      BY <1>2, <2>1, <3>1, ComingAppend DEF Coming
    <3> QED
      BY <1>1, <1>2, <2>1, <3>1, <3>2, ClientDelivered DEF clientVars, e
  <2>3. CASE d \notin Live
    <3>1. wire'[d] = wire[d] /\ phase[d] # "live"
      BY <1>1, <2>3 DEF deliver, Live
    <3>2. Coming(d)' = Coming(d)
      BY <3>1 DEF Coming
    <3>3. e \in Excused(d)' \/ phase[d] # "returned"
      BY <1>3 DEF InHandshake, Excused
    <3>4. \A f \in addressed' : \/ f \in addressed
                                \/ f \in Excused(d)'
                                \/ f = issued + 1 /\ phase[d] \notin {"live", "returned"}
      BY <1>1, <3>1, <3>3 DEF e
    <3>5. UNCHANGED <<phase[d], captured[d], gap[d], lastEventId[d], received[d]>>
      BY <1>1 DEF clientVars
    <3> QED
      BY <2>1, <3>2, <3>4, <3>5, ClientUntouched
  <2> QED
    BY <2>2, <2>3
<1> QED
  BY <1>6, <1>8, <1>9, <1>10 DEF LossInv, ClientLoss

\* broadcast: an event that is not the user's own.
LEMMA LossBroadcast ==
    ASSUME IInv, LossInv, NEW streams \in SUBSET Live, broadcast(streams) PROVE LossInv'
<1> DEFINE e == issued + 1
<1>1. /\ issued < MaxEvents /\ deliver(e, streams)
      /\ UNCHANGED <<storeVars, addressed, ring, bus, unqueued, phase, captured, gap, ghosts,
                     clientVars, historyVars>>
  BY DEF broadcast
<1>2. issued \in Nat /\ e \in Ids /\ wire \in [Clients -> Wires]
  BY <1>1, ReplayAssumption DEF IInv, TypeOK, Ids, Wires
<1> HIDE DEF e
<1>3. ASSUME NEW d \in Clients PROVE ClientLoss(d)'
  <2>1. ClientLoss(d) /\ wire[d] \in Wires /\ Excused(d)' = Excused(d)
    BY <1>1, <1>2 DEF LossInv, ClientLoss, Excused, historyVars
  <2>2. UNCHANGED <<phase[d], captured[d], gap[d], lastEventId[d], received[d]>>
    BY <1>1 DEF clientVars
  <2>3. CASE d \in streams
    <3>1. wire'[d] = Append(wire[d], e) /\ phase[d] = "live"
      BY <1>1, <2>3 DEF deliver, Live
    <3>2. Coming(d)' = Append(Coming(d), e)
      BY <1>2, <2>1, <3>1, ComingAppend DEF Coming
    <3> QED
      BY <1>1, <1>2, <2>1, <2>2, <3>1, <3>2, ClientDelivered DEF e
  <2>4. CASE d \notin streams
    <3>1. Coming(d)' = Coming(d)
      BY <1>1, <2>4 DEF deliver, Coming
    <3> QED
      BY <1>1, <2>1, <2>2, <3>1, ClientUntouched
  <2> QED
    BY <2>3, <2>4
<1> QED
  BY <1>1, <1>3 DEF LossInv, ClientLoss, StoredUnlessExcused, AppendedBehind,
                    storeVars, historyVars

\* The clients, when nothing of theirs changes.
LEMMA ClientsAside ==
    ASSUME IInv, LossInv, pruned \subseteq pruned',
           UNCHANGED <<addressed, phase, captured, gap, wire, lastEventId, received, exposed,
                       unqueued>>
    PROVE  \A d \in Clients : ClientLoss(d)'
<1> SUFFICES ASSUME NEW d \in Clients PROVE ClientLoss(d)'
  OBVIOUS
<1>1. ClientLoss(d) /\ Excused(d) \subseteq Excused(d)'
  BY DEF LossInv, ClientLoss, Excused
<1>2. Coming(d)' = Coming(d)
  BY DEF Coming
<1> QED
  BY <1>1, <1>2, ClientUntouched

\* An append that is executed.
LEMMA LossAppend == ASSUME IInv, LossInv, HoldsEverything, AppendExecutes PROVE LossInv'
<1> DEFINE first == Head(commands)
           rest == Tail(commands)
<1>1. /\ commands # <<>> /\ first.op = "append" /\ commands' = rest
      /\ queue' = zadd(queue, first.id)
      /\ UNCHANGED <<addressed, unqueued, phase, captured, gap, wire, lastEventId, received,
                     exposed, pruned>>
  BY DEF AppendExecutes, NextIs, eventVars, streamVars, clientVars, historyVars
<1>2. commands \in Seq(Commands) /\ BehindExposed(commands, exposed) /\ queue \in SUBSET Ids
  BY DEF IInv, TypeOK, LossInv, AppendedBehind
<1>3. /\ first \in Commands
      /\ \A e : Appends(commands, e) => first = Appending(e) \/ Appends(rest, e)
      /\ BehindExposed(rest, exposed)
  BY <1>1, <1>2, LineTail
<1> HIDE DEF first, rest
<1>4. first.id \in Ids
  BY <1>1, <1>3 DEF Commands
<1>5. queue' = queue \cup {first.id}
  BY <1>1, <1>2, <1>4, ZaddKeeps
<1>6. StoredUnlessExcused'
  BY <1>1, <1>3, <1>5, AppendingFact DEF LossInv, StoredUnlessExcused
<1>7. \A d \in Clients : ClientLoss(d)'
  BY <1>1, ClientsAside
<1> QED
  BY <1>1, <1>3, <1>6, <1>7 DEF LossInv, ClientLoss, AppendedBehind

\* An acknowledgement that is executed: it takes nothing out of the queue yet.
LEMMA LossAcknowledge == ASSUME IInv, LossInv, AcknowledgeExecutes PROVE LossInv'
<1> DEFINE first == Head(commands)
           rest == Tail(commands)
           upTo == {e \in queue : e <= first.id}
           cmd == [op |-> "remove", ids |-> upTo]
<1>1. /\ commands # <<>> /\ first.op = "acknowledge" /\ queue' = queue
      /\ commands' = rest \/ commands' = Append(rest, cmd)
      /\ UNCHANGED <<addressed, unqueued, phase, captured, gap, wire, lastEventId, received,
                     exposed, pruned>>
  BY DEF AcknowledgeExecutes, NextIs, eventVars, streamVars, clientVars, historyVars
<1>2. commands \in Seq(Commands) /\ BehindExposed(commands, exposed) /\ queue \in SUBSET Ids
  BY DEF IInv, TypeOK, LossInv, AppendedBehind
<1>3. /\ rest \in Seq(Commands)
      /\ \A e : Appends(commands, e) => first = Appending(e) \/ Appends(rest, e)
      /\ BehindExposed(rest, exposed)
  BY <1>1, <1>2, LineTail
<1>4. cmd \in Commands /\ cmd.op = "remove"
  BY <1>2 DEF Commands
<1> HIDE DEF first, rest, cmd
<1>5. \A e : Appends(commands, e) => Appends(rest, e)
  BY <1>1, <1>3, AppendingFact
<1>6. BehindExposed(commands', exposed) /\ \A e : Appends(rest, e) => Appends(commands', e)
  <2>1. \A e \in Ids : cmd # Appending(e)
    BY <1>4, AppendingFact
  <2>2. /\ \A e : Appends(rest, e) => Appends(Append(rest, cmd), e)
        /\ BehindExposed(Append(rest, cmd), exposed)
    BY <1>3, <1>4, <2>1, LineAppend
  <2> QED
    BY <1>1, <1>3, <2>2
<1>7. StoredUnlessExcused'
  BY <1>1, <1>5, <1>6 DEF LossInv, StoredUnlessExcused
<1>8. \A d \in Clients : ClientLoss(d)'
  BY <1>1, ClientsAside
<1> QED
  BY <1>1, <1>6, <1>7, <1>8 DEF LossInv, ClientLoss, AppendedBehind

\* What an acknowledgement found is removed.
LEMMA LossRemove == ASSUME IInv, LossInv, RemoveExecutes PROVE LossInv'
<1> DEFINE first == Head(commands)
           rest == Tail(commands)
<1>1. /\ commands # <<>> /\ first.op = "remove" /\ commands' = rest
      /\ queue' = queue \ first.ids
      /\ pruned' = pruned \cup (queue \cap first.ids)
      /\ UNCHANGED <<addressed, unqueued, phase, captured, gap, wire, lastEventId, received,
                     exposed>>
  BY DEF RemoveExecutes, NextIs, eventVars, streamVars, clientVars
<1>2. commands \in Seq(Commands) /\ BehindExposed(commands, exposed)
  BY DEF IInv, TypeOK, LossInv, AppendedBehind
<1>3. /\ \A e : Appends(commands, e) => first = Appending(e) \/ Appends(rest, e)
      /\ BehindExposed(rest, exposed)
  BY <1>1, <1>2, LineTail
<1> HIDE DEF first, rest
<1>4. \A e : Appends(commands, e) => Appends(rest, e)
  BY <1>1, <1>3, AppendingFact
<1>5. StoredUnlessExcused'
  BY <1>1, <1>4 DEF LossInv, StoredUnlessExcused
<1>6. \A d \in Clients : ClientLoss(d)'
  BY <1>1, ClientsAside
<1> QED
  BY <1>1, <1>3, <1>5, <1>6 DEF LossInv, ClientLoss, AppendedBehind

\* The queue's answer to a handshake: all that was appended before the handshake began
\* has been executed by then.
LEMMA LossRetrieve == ASSUME IInv, LossInv, HoldsEverything, RetrieveExecutes PROVE LossInv'
<1> DEFINE first == Head(commands)
           rest == Tail(commands)
<1>1. /\ commands # <<>> /\ first.op = "retrieve" /\ commands' = rest
      /\ UNCHANGED <<queue, addressed, unqueued, captured, wire, lastEventId, received,
                     exposed, pruned>>
      /\ phase' = [phase EXCEPT ![first.client] = "returned"]
      /\ \E events \in Listings(retrieveSince(queue, lastEventId[first.client])
                                   \ ToSet(captured[first.client])) :
            gap' = [gap EXCEPT ![first.client] = events]
  BY DEF RetrieveExecutes, Retrieved, NextIs, eventVars, clientVars, historyVars
<1>2. /\ commands \in Seq(Commands) /\ BehindExposed(commands, exposed) /\ queue \in SUBSET Ids
      /\ phase \in [Clients -> Phases] /\ gap \in [Clients -> Seq(Ids)]
  BY DEF IInv, TypeOK, LossInv, AppendedBehind
<1>3. /\ first \in Commands
      /\ \A e : Appends(commands, e) => first = Appending(e) \/ Appends(rest, e)
      /\ BehindExposed(rest, exposed)
      /\ \A e \in Ids : Appends(rest, e) => e \in exposed[first.client]
  BY <1>1, <1>2, LineTail
<1> HIDE DEF first, rest
<1>4. PICK c \in Clients : c = first.client
  BY <1>1, <1>3 DEF Commands
<1>5. \A e : Appends(commands, e) => Appends(rest, e)
  BY <1>1, <1>3, AppendingFact
<1>6. StoredUnlessExcused'
  BY <1>1, <1>5 DEF LossInv, StoredUnlessExcused
<1>7. ASSUME NEW e \in addressed \ Excused(c) PROVE e \in queue
  <2>1. e \in Ids /\ (e \in queue \/ Appends(commands, e))
    BY <1>7, ClientFacts DEF LossInv, StoredUnlessExcused, Excused
  <2> QED
    BY <1>3, <1>4, <1>5, <2>1, <1>7 DEF Excused
<1>8. PICK events \in Listings(retrieveSince(queue, lastEventId[c]) \ ToSet(captured[c])) :
        gap' = [gap EXCEPT ![c] = events]
  BY <1>1, <1>4
<1>9. HandshakeComplete(c)'
  <2>1. lastEventId[c] \in Int /\ ToSet(captured[c]) \subseteq Ids
    BY ClientTypes, SeqElements
  <2>2. retrieveSince(queue, lastEventId[c]) = {e \in queue : e > lastEventId[c]}
    BY <1>2, <2>1, RetrieveAll
  <2>3. ToSet(events) = {e \in queue : e > lastEventId[c]} \ ToSet(captured[c])
    <3>1. retrieveSince(queue, lastEventId[c]) \ ToSet(captured[c]) \in SUBSET Ids
      BY <1>2, <2>2
    <3> QED
      BY <1>8, <2>2, <3>1, ListingSet
  <2>4. /\ gap'[c] = events /\ captured'[c] = captured[c] /\ lastEventId'[c] = lastEventId[c]
        /\ addressed' \ Excused(c)' = addressed \ Excused(c)
    BY <1>1, <1>2, <1>8 DEF Excused
  <2>5. \A e \in addressed \ Excused(c) : e \in Int
    BY ClientFacts DEF Ids
  <2>6. \A e \in addressed' \ Excused(c)' :
          lastEventId'[c] < e => e \in ToSet(captured'[c]) \cup ToSet(gap'[c])
    BY <1>7, <2>1, <2>3, <2>4, <2>5
  <2> QED
    BY <2>6 DEF HandshakeComplete
<1>10. ASSUME NEW d \in Clients PROVE ClientLoss(d)'
  <2>1. ClientLoss(d) /\ Excused(d)' = Excused(d) /\ Coming(d)' = Coming(d)
    BY <1>1 DEF LossInv, ClientLoss, Excused, Coming
  <2>2. CASE d = c
    <3>1. phase'[c] = "returned"
      BY <1>1, <1>2, <1>4
    <3>2. AsksForReceived(c)' /\ NothingOvertaken(c)'
      BY <1>1, <2>1, <2>2, <3>1, ClientBehind
    <3> QED
      BY <1>9, <2>2, <3>2 DEF ClientLoss
  <2>3. CASE d # c
    <3>1. phase'[d] = phase[d] /\ gap'[d] = gap[d]
      BY <1>1, <1>2, <1>4, <1>8, <2>3
    <3> QED
      BY <1>1, <2>1, <3>1, ClientUntouched
  <2> QED
    BY <2>2, <2>3
<1> QED
  BY <1>1, <1>3, <1>6, <1>10 DEF LossInv, ClientLoss, AppendedBehind

\* openStream: the retrieval joins the line, behind every append so far.  Without one
\* there is nothing to ask the queue for, or no queue.
LEMMA LossOpen == ASSUME IInv, LossInv, NEW c \in Clients, openStream(c) PROVE LossInv'
<1> DEFINE cmd == [op |-> "retrieve", client |-> c]
<1>1. /\ phase[c] = "off"
      /\ captured' = [captured EXCEPT ![c] = since(ring, lastEventId[c])]
      /\ UNCHANGED <<queue, addressed, unqueued, gap, wire, lastEventId, received, exposed,
                     pruned>>
      /\ \/ /\ phase' = [phase EXCEPT ![c] = "retrieving"]
            /\ commands' = Append(commands, cmd)
         \/ /\ ~QueueConfigured \/ lastEventId[c] = NoHeader
            /\ phase' = [phase EXCEPT ![c] = "returned"]
            /\ commands' = commands
  BY DEF openStream, Issue, eventVars, clientVars, historyVars
<1>2. /\ commands \in Seq(Commands) /\ BehindExposed(commands, exposed)
      /\ phase \in [Clients -> Phases] /\ captured \in [Clients -> Seq(Ids)]
      /\ ring \in Seq(Ids)
  BY DEF IInv, TypeOK, LossInv, AppendedBehind
<1>3. BehindExposed(commands', exposed) /\ \A e : Appends(commands, e) => Appends(commands', e)
  <2>1. cmd \in Commands /\ \A e \in Ids : cmd # Appending(e)
    <3>1. cmd \in Commands /\ cmd.op = "retrieve"
      BY DEF Commands
    <3> HIDE DEF cmd
    <3> QED
      BY <3>1, AppendingFact
  <2> HIDE DEF cmd
  <2>2. /\ \A e : Appends(commands, e) => Appends(Append(commands, cmd), e)
        /\ BehindExposed(Append(commands, cmd), exposed)
    BY <1>2, <2>1, LineAppend
  <2> QED
    BY <1>1, <1>2, <2>2
<1>4. StoredUnlessExcused'
  BY <1>1, <1>3 DEF LossInv, StoredUnlessExcused
<1>5. HandshakeComplete(c)'
  <2>1. CASE phase' = [phase EXCEPT ![c] = "retrieving"]
    BY <1>2, <2>1 DEF HandshakeComplete
  <2>2. CASE ~QueueConfigured
    BY <1>1, <2>2 DEF LossInv, Excused, HandshakeComplete
  <2>3. CASE lastEventId[c] = NoHeader
    <3>1. received[c] = {}
      <4>1. NoHeader # AutoId /\ NoHeader \notin received[c]
        BY ClientFacts DEF NoHeader, AutoId
      <4> QED
        BY <2>3, <4>1 DEF LossInv, AsksForReceived
    <3>2. since(ring, NoHeader) = <<>>
      <4>1. \A i \in 1..Len(ring) : ring[i] # NoHeader
        BY <1>2, SeqElements DEF NoHeader
      <4> QED
        BY <4>1 DEF since, IndexOf
    <3>3. gap[c] = <<>>
      BY <1>1, ClientFacts
    <3> QED
      BY <1>1, <1>2, <2>3, <3>1, <3>2, <3>3 DEF HandshakeComplete
  <2> QED
    BY <1>1, <2>1, <2>2, <2>3
<1>6. ASSUME NEW d \in Clients PROVE ClientLoss(d)'
  <2>1. ClientLoss(d) /\ Excused(d)' = Excused(d) /\ Coming(d)' = Coming(d)
    BY <1>1 DEF LossInv, ClientLoss, Excused, Coming
  <2>2. CASE d = c
    <3>1. phase'[c] # "live"
      BY <1>1, <1>2
    <3>2. AsksForReceived(c)' /\ NothingOvertaken(c)'
      BY <1>1, <2>1, <2>2, <3>1, ClientBehind
    <3> QED
      BY <1>5, <2>2, <3>2 DEF ClientLoss
  <2>3. CASE d # c
    <3>1. phase'[d] = phase[d] /\ captured'[d] = captured[d]
      BY <1>1, <1>2, <2>3
    <3> QED
      BY <1>1, <2>1, <3>1, ClientUntouched
  <2> QED
    BY <2>2, <2>3
<1> QED
  BY <1>1, <1>3, <1>4, <1>6 DEF LossInv, ClientLoss, AppendedBehind

\* A stream or a handshake that ends, or starts to: whatever was on its way is lost, but
\* the client will ask again for what is newer than the last it received.
LEMMA LossEnd ==
    ASSUME IInv, LossInv, NEW c \in Clients,
           \/ Abandon(c) \/ SubscribeClosed(c) \/ disconnectLocal(c)
           \/ StreamCloses(c) \/ Drop(c)
    PROVE  LossInv'
<1>1. /\ UNCHANGED <<storeVars, eventVars, clientVars, historyVars>>
      /\ \E next \in {"off", "closing"} : phase' = [phase EXCEPT ![c] = next]
      /\ captured' = [captured EXCEPT ![c] = <<>>] \/ captured' = captured
      /\ gap' = [gap EXCEPT ![c] = <<>>] \/ gap' = gap
      /\ wire' = [wire EXCEPT ![c] = <<>>] \/ wire' = wire
  BY DEF Abandon, SubscribeClosed, disconnectLocal, StreamCloses, Drop, Leave
<1>2. /\ UNCHANGED <<queue, commands, addressed, unqueued, lastEventId, received, exposed,
                     pruned>>
      /\ phase \in [Clients -> Phases] /\ captured \in [Clients -> Seq(Ids)]
      /\ gap \in [Clients -> Seq(Ids)] /\ wire \in [Clients -> Wires]
  BY <1>1 DEF IInv, TypeOK, Wires, storeVars, eventVars, clientVars, historyVars
<1>3. ASSUME NEW d \in Clients PROVE ClientLoss(d)'
  <2>1. ClientLoss(d) /\ Excused(d)' = Excused(d)
    BY <1>2 DEF LossInv, ClientLoss, Excused
  <2>2. CASE d = c
    <3>1. phase'[c] \in {"off", "closing"}
      BY <1>1, <1>2
    <3>2. wire'[c] = wire[c] \/ wire'[c] = <<>>
      BY <1>1, <1>2
    <3>3. Coming(c)' = Coming(c) \/ Coming(c)' = <<>>
      BY <3>2 DEF Coming, WithoutEstablished
    <3>4. AsksForReceived(c)' /\ NothingOvertaken(c)'
      BY <1>2, <2>1, <2>2, <3>1, <3>3, ClientBehind
    <3> QED
      BY <2>2, <3>1, <3>4 DEF ClientLoss, HandshakeComplete
  <2>3. CASE d # c
    <3>1. UNCHANGED <<phase[d], captured[d], gap[d], wire[d]>>
      BY <1>1, <1>2, <2>3
    <3>2. Coming(d)' = Coming(d)
      BY <3>1 DEF Coming
    <3> QED
      BY <1>2, <2>1, <3>1, <3>2, ClientUntouched
  <2> QED
    BY <2>2, <2>3
<1> QED
  BY <1>2, <1>3 DEF LossInv, ClientLoss, StoredUnlessExcused, AppendedBehind

\* A restart: the appends it cuts off are excused.
LEMMA LossRestart == ASSUME IInv, LossInv, Restart PROVE LossInv'
<1>1. /\ commands' = <<>>
      /\ phase' = [d \in Clients |-> "off"]
      /\ wire' = [d \in Clients |-> <<>>]
      /\ unqueued' = unqueued \cup {e \in Ids : Appending(e) \in ToSet(commands)}
      /\ UNCHANGED <<queue, addressed, lastEventId, received, exposed, pruned>>
  BY DEF Restart, clientVars, Appending
<1>2. commands \in Seq(Commands) /\ addressed \subseteq Ids
  BY DEF IInv, TypeOK
<1>3. \A e \in addressed : Appends(commands, e) => e \in unqueued'
  <2>1. \A i \in 1..Len(commands) : commands[i] \in ToSet(commands)
    BY <1>2 DEF ToSet
  <2> QED
    BY <1>1, <1>2, <2>1 DEF Appends
<1>4. StoredUnlessExcused'
  BY <1>1, <1>3 DEF LossInv, StoredUnlessExcused
<1>5. AppendedBehind'
  BY <1>1 DEF AppendedBehind, BehindExposed
<1>6. ASSUME NEW d \in Clients PROVE ClientLoss(d)'
  <2>1. /\ ClientLoss(d) /\ Excused(d) \subseteq Excused(d)'
        /\ phase'[d] = "off" /\ wire'[d] = <<>>
    BY <1>1 DEF LossInv, ClientLoss, Excused
  <2>2. Coming(d)' = <<>>
    BY <2>1 DEF Coming, WithoutEstablished
  <2>3. AsksForReceived(d)' /\ NothingOvertaken(d)'
    BY <1>1, <2>1, <2>2, ClientBehind
  <2> QED
    BY <2>1, <2>3 DEF ClientLoss, HandshakeComplete
<1> QED
  BY <1>1, <1>4, <1>5, <1>6 DEF LossInv, ClientLoss

\* Subscribe: all the client lacks is written before the stream is open.
LEMMA LossSubscribe == ASSUME IInv, LossInv, NEW c \in Clients, Subscribe(c) PROVE LossInv'
<1> DEFINE all == captured[c] \o gap[c]
           cmd == [op |-> "acknowledge", id |-> Last(gap[c])]
<1>1. /\ phase[c] = "returned"
      /\ phase' = [phase EXCEPT ![c] = "live"]
      /\ captured' = [captured EXCEPT ![c] = <<>>]
      /\ gap' = [gap EXCEPT ![c] = <<>>]
      /\ wire' = [wire EXCEPT ![c] = established \o all]
      /\ UNCHANGED <<queue, addressed, unqueued, lastEventId, received, exposed, pruned>>
      /\ \/ gap[c] # <<>> /\ commands' = Append(commands, cmd)
         \/ commands' = commands
  BY DEF Subscribe, Leave, Issue, eventVars, clientVars, historyVars
<1>2. /\ commands \in Seq(Commands) /\ BehindExposed(commands, exposed)
      /\ phase \in [Clients -> Phases] /\ captured \in [Clients -> Seq(Ids)]
      /\ gap \in [Clients -> Seq(Ids)] /\ wire \in [Clients -> Wires]
  BY DEF IInv, TypeOK, LossInv, AppendedBehind, Wires
<1>3. BehindExposed(commands', exposed) /\ \A e : Appends(commands, e) => Appends(commands', e)
  <2>1. CASE commands' = commands
    BY <1>2, <2>1
  <2>2. CASE gap[c] # <<>> /\ commands' = Append(commands, cmd)
    <3>1. Last(gap[c]) \in Ids
      <4>1. gap[c] \in Seq(Ids) /\ Len(gap[c]) \in 1..Len(gap[c])
        BY <1>2, <2>2
      <4> QED
        BY <4>1 DEF Last
    <3>2. cmd \in Commands /\ cmd.op = "acknowledge"
      BY <3>1 DEF Commands
    <3> HIDE DEF cmd
    <3>3. \A e \in Ids : cmd # Appending(e)
      BY <3>2, AppendingFact
    <3>4. /\ \A e : Appends(commands, e) => Appends(Append(commands, cmd), e)
          /\ BehindExposed(Append(commands, cmd), exposed)
      BY <1>2, <3>2, <3>3, LineAppend
    <3> QED
      BY <2>2, <3>4
  <2> QED
    BY <1>1, <2>1, <2>2
<1>4. StoredUnlessExcused'
  BY <1>1, <1>3 DEF LossInv, StoredUnlessExcused
<1>5. /\ captured[c] \in Seq(Ids) /\ gap[c] \in Seq(Ids) /\ all \in Seq(Ids)
      /\ ToSet(all) = ToSet(captured[c]) \cup ToSet(gap[c])
  BY <1>2, ConcatSet, ConcatElements
<1> HIDE DEF all
<1>6. Coming(c)' = all
  <2>1. wire'[c] = established \o all
    BY <1>1, <1>2
  <2> QED
    BY <1>5, <2>1, ComingFirst DEF Coming
<1>7. ASSUME NEW e \in Ids, Overtaken(c, e)' PROVE FALSE
  <2>1. /\ e \in addressed \ Excused(c) /\ e \notin received[c] /\ e \notin ToSet(all)
        /\ \E older \in received[c] \cup ToSet(all) : older < e
    BY <1>1, <1>6, <1>7 DEF Overtaken, Reached, Excused
  <2>2. ToSet(Coming(c)) = {} /\ lastEventId[c] \in Int
    BY <1>1, ClientFacts
  <2>3. PICK older \in received[c] \cup ToSet(all) : older < e
    BY <2>1
  <2>4. ~(lastEventId[c] < e)
    <3>1. \/ received[c] = {} /\ captured[c] = <<>> /\ gap[c] = <<>>
          \/ lastEventId[c] < e => e \in ToSet(all)
      BY <1>1, <1>5, <2>1 DEF LossInv, HandshakeComplete
    <3>2. ~(received[c] = {} /\ captured[c] = <<>> /\ gap[c] = <<>>)
      BY <1>5, <2>1 DEF ToSet
    <3> QED
      BY <2>1, <3>1, <3>2
  <2>5. older \in received[c]
    <3>1. \A f \in ToSet(all) : lastEventId[c] < f /\ f \in Nat
      <4>1. Follows(captured[c], c) /\ Follows(gap[c], c)
        BY ClientTypes DEF Ordered, HandshakeInOrder
      <4>2. /\ ToSet(captured[c]) = {captured[c][i] : i \in 1..Len(captured[c])}
            /\ ToSet(gap[c]) = {gap[c][i] : i \in 1..Len(gap[c])}
            /\ \A i \in 1..Len(captured[c]) : captured[c][i] \in Nat
            /\ \A i \in 1..Len(gap[c]) : gap[c][i] \in Nat
        BY <1>5, SeqElements
      <4> QED
        BY <1>5, <4>1, <4>2 DEF Follows
    <3>2. e \in Nat
      BY ClientFacts
    <3> QED
      BY <2>2, <2>3, <2>4, <3>1, <3>2
  <2>6. Overtaken(c, e)
    BY <2>1, <2>2, <2>3, <2>5 DEF Overtaken, Reached
  <2> QED
    BY <2>4, <2>6 DEF LossInv, NothingOvertaken
<1>8. ASSUME NEW d \in Clients PROVE ClientLoss(d)'
  <2>1. ClientLoss(d) /\ Excused(d)' = Excused(d)
    BY <1>1 DEF LossInv, ClientLoss, Excused
  <2>2. CASE d = c
    <3>1. phase'[c] = "live"
      BY <1>1, <1>2
    <3>2. AsksForReceived(c)'
      BY <1>1, <2>1, <2>2 DEF ClientLoss, AsksForReceived
    <3>3. NothingOvertaken(c)'
      BY <1>7 DEF NothingOvertaken
    <3> QED
      BY <2>2, <3>1, <3>2, <3>3 DEF ClientLoss, HandshakeComplete
  <2>3. CASE d # c
    <3>1. UNCHANGED <<phase[d], captured[d], gap[d], wire[d]>>
      BY <1>1, <1>2, <2>3
    <3>2. Coming(d)' = Coming(d)
      BY <3>1 DEF Coming
    <3> QED
      BY <1>1, <2>1, <3>1, <3>2, ClientUntouched
  <2> QED
    BY <2>2, <2>3
<1> QED
  BY <1>1, <1>3, <1>4, <1>8 DEF LossInv, ClientLoss, AppendedBehind

\* Receive: the client moves past nothing it was overtaken by.
LEMMA LossReceive == ASSUME IInv, LossInv, NEW c \in Clients, Receive(c) PROVE LossInv'
<1> DEFINE head == Head(wire[c])
           rest == Tail(wire[c])
<1>1. /\ wire[c] # <<>>
      /\ lastEventId' = [lastEventId EXCEPT ![c] = head]
      /\ received' = [received EXCEPT ![c] = received[c] \cup ({head} \ {AutoId})]
      /\ wire' = [wire EXCEPT ![c] = rest]
      /\ UNCHANGED <<queue, commands, addressed, unqueued, phase, captured, gap, exposed,
                     pruned>>
  BY DEF Receive, storeVars, eventVars, historyVars
<1>2. /\ wire \in [Clients -> Wires] /\ lastEventId \in [Clients -> NoHeader..MaxEvents]
      /\ received \in [Clients -> SUBSET Ids]
  BY DEF IInv, TypeOK, Wires
<1>3. wire[c] \in Wires /\ Coming(c) \in Seq(Ids) /\ StreamInOrder(c)
  BY ClientTypes DEF Ordered
<1>4. /\ rest \in Seq(Ids) /\ WithoutEstablished(rest) = rest
      /\ \/ head = AutoId /\ rest = Coming(c)
         \/ head # AutoId /\ wire[c] = Coming(c)
  BY <1>1, <1>3, ComingTail DEF Coming
<1>5. head # AutoId => ToSet(Coming(c)) = {head} \cup ToSet(rest)
  BY <1>1, <1>3, <1>4, TailSet
<1> HIDE DEF head, rest
<1>6. /\ lastEventId'[c] = head /\ received'[c] = received[c] \cup ({head} \ {AutoId})
      /\ Coming(c)' = rest
  BY <1>1, <1>2, <1>4 DEF Coming
<1>7. Reached(c)' = Reached(c)
  <2>1. CASE head = AutoId
    BY <1>4, <1>6, <2>1 DEF Reached
  <2>2. CASE head # AutoId
    BY <1>5, <1>6, <2>2 DEF Reached
  <2> QED
    BY <2>1, <2>2
<1>8. AsksForReceived(c)'
  BY <1>6 DEF AsksForReceived
<1>9. HandshakeComplete(c)'
  BY <1>1, <1>3 DEF StreamInOrder, HandshakeComplete
<1>10. NothingOvertaken(c)'
  <2> SUFFICES ASSUME NEW e \in Ids, Overtaken(c, e)'
               PROVE  phase[c] # "live" /\ head < e /\ \A f \in ToSet(rest) : f < e
    BY <1>1, <1>6 DEF NothingOvertaken
  <2>1. Overtaken(c, e)
    BY <1>1, <1>7 DEF Overtaken, Excused
  <2>2. phase[c] # "live" /\ \A f \in ToSet(Coming(c)) : f < e
    BY <2>1 DEF LossInv, NothingOvertaken
  <2>3. head < e
    <3>1. CASE head = AutoId
      BY <3>1 DEF AutoId, Ids
    <3>2. CASE head # AutoId
      BY <1>5, <2>2, <3>2
    <3> QED
      BY <3>1, <3>2
  <2>4. ToSet(rest) \subseteq ToSet(Coming(c))
    BY <1>4, <1>5
  <2> QED
    BY <2>2, <2>3, <2>4
<1>11. ASSUME NEW d \in Clients PROVE ClientLoss(d)'
  <2>1. CASE d = c
    BY <1>8, <1>9, <1>10, <2>1 DEF ClientLoss
  <2>2. CASE d # c
    <3>1. ClientLoss(d) /\ Excused(d)' = Excused(d)
      BY <1>1 DEF LossInv, ClientLoss, Excused
    <3>2. UNCHANGED <<phase[d], captured[d], gap[d], wire[d], lastEventId[d], received[d]>>
      BY <1>1, <1>2, <2>2
    <3>3. Coming(d)' = Coming(d)
      BY <3>2 DEF Coming
    <3> QED
      BY <1>1, <3>1, <3>2, <3>3, ClientUntouched
  <2> QED
    BY <2>1, <2>2
<1> QED
  BY <1>1, <1>11 DEF LossInv, ClientLoss, StoredUnlessExcused, AppendedBehind

\* The strengthening survives every step.
LEMMA LossNext ==
    ASSUME ~Elsewhere, HoldsEverything, IInv, LossInv, [Next]_vars PROVE LossInv'
<1>1. CASE \/ UNCHANGED vars
           \/ \E c \in Clients : GhostEnds(c)
  <2>1. UNCHANGED <<queue, commands, addressed, phase, captured, gap, wire, lastEventId,
                    received, exposed, unqueued, pruned>>
    BY <1>1 DEF GhostEnds, vars, storeVars, eventVars, streamVars, clientVars, historyVars
  <2>2. \A d \in Clients : ClientLoss(d)'
    BY <2>1, ClientsAside
  <2> QED
    BY <2>1, <2>2 DEF LossInv, ClientLoss, StoredUnlessExcused, AppendedBehind
<1>2. CASE emitToUser
  BY <1>2, LossEmit
<1>3. CASE EmitElsewhere
  BY <1>3 DEF EmitElsewhere
<1>4. CASE \E reached \in SUBSET Live : broadcast(reached)
  BY <1>4, LossBroadcast
<1>5. CASE \E e \in Ids : BusDelivers(e) \/ BusLoses(e) \/ RemoteAppendExecutes(e)
  BY <1>5 DEF BusDelivers, BusLoses, RemoteAppendExecutes, IInv, Alone
<1>6. CASE Redis
  <2>1. ~CommandFails /\ ~Expire
    BY DEF CommandFails, Expire, HoldsEverything
  <2> QED
    BY <1>6, <2>1, LossAppend, LossAcknowledge, LossRemove, LossRetrieve DEF Redis
<1>7. ASSUME NEW c \in Clients, Stream(c), ~GhostEnds(c) PROVE LossInv'
  BY <1>7, LossOpen, LossSubscribe, LossReceive, LossEnd DEF Stream
<1>8. CASE Restart
  BY <1>8, LossRestart
<1> QED
  BY <1>1, <1>2, <1>3, <1>4, <1>5, <1>6, <1>7, <1>8 DEF Next

\* On an instance that is alone, with a queue that neither fails nor forgets, an event
\* a client skipped was emitted during one of its handshakes, was not queued because the
\* user counted as online or a restart cut its append off, or was acknowledged: for any
\* number of clients, whatever the ring holds, and across drops, ghosts and restarts.
THEOREM LossesExplainedAlone ==
    ASSUME ~Elsewhere, HoldsEverything PROVE Spec => []LossesExplained
<1>1. Init => IInv /\ LossInv
  BY InitInv, LossInit
<1>2. IInv /\ LossInv /\ [Next]_vars => IInv' /\ LossInv'
  BY NextInv, LossNext
<1>3. IInv /\ LossInv => LossesExplained
  <2> SUFFICES ASSUME IInv, LossInv, NEW c \in Clients, NEW e \in Missed(c), e \notin Excused(c)
               PROVE  FALSE
    BY DEF LossesExplained, Excused
  <2>1. /\ e \in addressed /\ e \in Ids /\ e \notin received[c] /\ e < lastEventId[c]
        /\ \E older \in received[c] : older < e
    BY ClientFacts DEF Missed
  <2>2. /\ \A f \in ToSet(Coming(c)) : lastEventId[c] < f /\ f \in Nat
        /\ lastEventId[c] \in Int /\ e \in Nat
    BY <2>1, ClientFacts
  <2>3. e \notin ToSet(Coming(c)) /\ ~(lastEventId[c] < e)
    BY <2>1, <2>2
  <2>4. Overtaken(c, e)
    BY <2>1, <2>3 DEF Overtaken, Reached
  <2> QED
    BY <2>1, <2>3, <2>4 DEF LossInv, NothingOvertaken
<1> QED
  BY <1>1, <1>2, <1>3, PTL DEF Spec

=============================================================================
