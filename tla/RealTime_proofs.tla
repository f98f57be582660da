---------------------------- MODULE RealTime_proofs ----------------------------
(***************************************************************************)
(* Proofs of safety properties of RealTime for any number of workers,      *)
(* sockets, channels, calls of publish and failures.                       *)
(***************************************************************************)
EXTENDS RealTime, TLAPS

(***************************************************************************)
(* 1. Sequences                                                            *)
(***************************************************************************)

Has(seq, m) == \E i \in DOMAIN seq : seq[i] = m

HasOnce(seq, m) == \A i, j \in DOMAIN seq : seq[i] = m /\ seq[j] = m => i = j

\* What Append adds.
LEMMA AppendHas ==
    ASSUME NEW S, NEW seq \in Seq(S), NEW e \in S, NEW m
    PROVE  /\ Append(seq, e) \in Seq(S)
           /\ Has(Append(seq, e), m) <=> Has(seq, m) \/ e = m
           /\ HasOnce(seq, m) /\ (e = m => ~Has(seq, m)) => HasOnce(Append(seq, e), m)
<1>1. /\ Append(seq, e) \in Seq(S) /\ Len(seq) \in Nat
      /\ DOMAIN seq = 1 .. Len(seq) /\ DOMAIN Append(seq, e) = 1 .. Len(seq) + 1
      /\ \A i \in 1 .. Len(seq) : Append(seq, e)[i] = seq[i]
      /\ Append(seq, e)[Len(seq) + 1] = e
  OBVIOUS
<1>2. \A i \in 1 .. Len(seq) + 1 : i \in 1 .. Len(seq) \/ i = Len(seq) + 1
  BY <1>1
<1>3. Has(Append(seq, e), m) <=> Has(seq, m) \/ e = m
  BY <1>1, <1>2 DEF Has
<1>4. HasOnce(seq, m) /\ (e = m => ~Has(seq, m)) => HasOnce(Append(seq, e), m)
  BY <1>1, <1>2 DEF Has, HasOnce
<1>. QED BY <1>1, <1>3, <1>4

\* What Tail leaves.
LEMMA TailHas ==
    ASSUME NEW S, NEW seq \in Seq(S), seq # <<>>, NEW m
    PROVE  /\ Tail(seq) \in Seq(S) /\ Head(seq) \in S
           /\ Has(seq, m) <=> Has(Tail(seq), m) \/ Head(seq) = m
           /\ HasOnce(seq, m) => HasOnce(Tail(seq), m) /\ ~(Has(Tail(seq), m) /\ Head(seq) = m)
<1>1. /\ Tail(seq) \in Seq(S) /\ Head(seq) \in S /\ Len(seq) \in Nat \ {0}
      /\ DOMAIN seq = 1 .. Len(seq) /\ DOMAIN Tail(seq) = 1 .. Len(seq) - 1
      /\ \A i \in 1 .. Len(seq) - 1 : Tail(seq)[i] = seq[i + 1]
      /\ Head(seq) = seq[1]
  OBVIOUS
<1>2. \A i \in 1 .. Len(seq) - 1 : i + 1 \in 1 .. Len(seq) /\ i + 1 # 1
  BY <1>1
<1>4. 1 \in 1 .. Len(seq)
  BY <1>1
<1>5. Has(seq, m) => Has(Tail(seq), m) \/ Head(seq) = m
  <2>. SUFFICES ASSUME NEW i \in 1 .. Len(seq), seq[i] = m, i # 1
                PROVE  Has(Tail(seq), m)
    BY <1>1 DEF Has
  <2>1. i - 1 \in 1 .. Len(seq) - 1 /\ (i - 1) + 1 = i
    BY <1>1
  <2>2. Tail(seq)[i - 1] = m
    BY <1>1, <2>1
  <2>. QED BY <1>1, <2>1, <2>2 DEF Has
<1>6. Has(Tail(seq), m) \/ Head(seq) = m => Has(seq, m)
  BY <1>1, <1>2, <1>4 DEF Has
<1>7. HasOnce(seq, m) => HasOnce(Tail(seq), m)
  <2>. SUFFICES ASSUME HasOnce(seq, m), NEW i \in 1 .. Len(seq) - 1, NEW j \in 1 .. Len(seq) - 1,
                       Tail(seq)[i] = m, Tail(seq)[j] = m
                PROVE  i = j
    BY <1>1 DEF HasOnce
  <2>1. seq[i + 1] = m /\ seq[j + 1] = m /\ i + 1 \in DOMAIN seq /\ j + 1 \in DOMAIN seq
    BY <1>1, <1>2
  <2>2. i + 1 = j + 1
    BY <2>1 DEF HasOnce
  <2>. QED BY <1>1, <2>2
<1>8. HasOnce(seq, m) => ~(Has(Tail(seq), m) /\ Head(seq) = m)
  BY <1>1, <1>2, <1>4 DEF Has, HasOnce
<1>. QED BY <1>1, <1>5, <1>6, <1>7, <1>8

\* An empty sequence has nothing.
LEMMA EmptyHas == \A m : ~Has(<<>>, m) /\ HasOnce(<<>>, m)
BY DEF Has, HasOnce

HasBefore(seq, m1, m2) == \E i, j \in DOMAIN seq : i < j /\ seq[i] = m1 /\ seq[j] = m2

\* Append puts its element behind all others.
LEMMA AppendOrder ==
    ASSUME NEW S, NEW seq \in Seq(S), NEW e \in S, NEW m1, NEW m2,
           HasBefore(Append(seq, e), m1, m2)
    PROVE  HasBefore(seq, m1, m2) \/ (Has(seq, m1) /\ m2 = e)
<1>1. /\ Len(seq) \in Nat /\ DOMAIN seq = 1 .. Len(seq)
      /\ DOMAIN Append(seq, e) = 1 .. Len(seq) + 1
      /\ \A i \in 1 .. Len(seq) : Append(seq, e)[i] = seq[i]
      /\ Append(seq, e)[Len(seq) + 1] = e
  OBVIOUS
<1>2. PICK i \in 1 .. Len(seq) + 1, j \in 1 .. Len(seq) + 1 :
         i < j /\ Append(seq, e)[i] = m1 /\ Append(seq, e)[j] = m2
  BY <1>1 DEF HasBefore
<1>3. i \in 1 .. Len(seq) /\ seq[i] = m1
  BY <1>1, <1>2
<1>4. CASE j = Len(seq) + 1
  BY <1>1, <1>2, <1>3, <1>4 DEF Has
<1>5. CASE j # Len(seq) + 1
  <2>1. j \in 1 .. Len(seq) /\ seq[j] = m2
    BY <1>1, <1>2, <1>5
  <2>. QED BY <1>1, <1>2, <1>3, <2>1 DEF HasBefore
<1>. QED BY <1>4, <1>5

\* Tail keeps the order, and its elements are behind the head.
LEMMA TailOrder ==
    ASSUME NEW S, NEW seq \in Seq(S), seq # <<>>, NEW m1, NEW m2
    PROVE  /\ HasBefore(Tail(seq), m1, m2) => HasBefore(seq, m1, m2)
           /\ Has(Tail(seq), m2) => HasBefore(seq, Head(seq), m2)
<1>1. /\ Len(seq) \in Nat \ {0}
      /\ DOMAIN seq = 1 .. Len(seq) /\ DOMAIN Tail(seq) = 1 .. Len(seq) - 1
      /\ \A i \in 1 .. Len(seq) - 1 : Tail(seq)[i] = seq[i + 1]
      /\ Head(seq) = seq[1]
  OBVIOUS
<1>2. \A i \in 1 .. Len(seq) - 1 : i + 1 \in DOMAIN seq /\ 1 < i + 1
  BY <1>1
<1>3. 1 \in DOMAIN seq
  BY <1>1
<1>4. HasBefore(Tail(seq), m1, m2) => HasBefore(seq, m1, m2)
  <2>. SUFFICES ASSUME NEW i \in 1 .. Len(seq) - 1, NEW j \in 1 .. Len(seq) - 1, i < j,
                       Tail(seq)[i] = m1, Tail(seq)[j] = m2
                PROVE  HasBefore(seq, m1, m2)
    BY <1>1 DEF HasBefore
  <2>1. seq[i + 1] = m1 /\ seq[j + 1] = m2 /\ i + 1 < j + 1
    BY <1>1
  <2>. QED BY <1>2, <2>1 DEF HasBefore
<1>5. Has(Tail(seq), m2) => HasBefore(seq, Head(seq), m2)
  BY <1>1, <1>2, <1>3 DEF Has, HasBefore
<1>. QED BY <1>4, <1>5

(***************************************************************************)
(* 2. Types                                                                *)
(***************************************************************************)

\* What broadcast_local starts is typed.
LEMMA BroadcastType ==
    ASSUME TypeOK, NEW m \in Messages, NEW by \in {"reader", "publish"}, NEW w,
           BroadcastLocal(m, by, w)
    PROVE  sends' \in SUBSET (Messages \X {"reader", "publish"} \X Sockets)
BY DEF TypeOK, BroadcastLocal, Subscribers

\* Redis appends to every stream it serves.
LEMMA AcceptType ==
    ASSUME TypeOK, NEW m \in Messages, Accept(m)
    PROVE  /\ stream' \in [Workers -> Seq(Messages)]
           /\ \A w \in Workers :
                 stream'[w] = IF w \in subscribed THEN Append(stream[w], m) ELSE stream[w]
<1>1. \A w \in Workers : Append(stream[w], m) \in Seq(Messages)
  BY DEF TypeOK
<1>. QED BY <1>1 DEF TypeOK, Accept

\* Every step keeps the types.
LEMMA NextType ==
    ASSUME IInv, Next
    PROVE  TypeOK'
<1>. TypeOK /\ failures \in Nat
  BY FailuresAreBounded DEF IInv, TypeOK
<1>1. ASSUME failures < MaxFailures
      PROVE  failures + 1 \in 0 .. MaxFailures
  BY <1>1, FailuresAreBounded
<1>2. ASSUME NEW w \in Workers,
             StartOnline(w) \/ StartOffline(w) \/ StartHalf(w) \/ Stop(w)
      PROVE  TypeOK'
  <2>1. ASSUME StartOnline(w) \/ StartOffline(w) \/ StartHalf(w) PROVE TypeOK'
    BY <1>1, <2>1
       DEF StartOnline, StartOffline, StartHalf, TypeOK, ReaderStates, redis, calls, sockets
  <2>2. ASSUME Stop(w) PROVE TypeOK'
    <3>1. stream' \in [Workers -> Seq(Messages)]
      BY <2>2 DEF Stop, TypeOK
    <3>2. sends' \subseteq sends
      BY <2>2 DEF Stop
    <3>. QED BY <1>1, <2>2, <3>1, <3>2 DEF Stop, TypeOK, ReaderStates, calls, sockets
  <2>. QED BY <1>2, <2>1, <2>2
<1>3. ASSUME NEW w \in Workers, NEW m \in Messages, Publish(m, w)
      PROVE  TypeOK'
  <2>1. sends' \in SUBSET (Messages \X {"reader", "publish"} \X Sockets)
    BY <1>3, BroadcastType DEF Publish, Fallback, TypeOK
  <2>2. /\ pc' \in [Messages -> CallStates] /\ local' \in SUBSET Messages
    BY <1>3 DEF Publish, Fallback, TypeOK, CallStates
  <2>3. /\ at' \in [Messages -> Workers \cup {None}]
        /\ client' \in SUBSET Workers /\ connected' \in SUBSET Workers
    BY <1>3 DEF Publish, TypeOK
  <2>. QED BY <1>3, <2>1, <2>2, <2>3 DEF Publish, TypeOK, redis, sockets
<1>4. ASSUME NEW m \in Messages, Answer(m) \/ PublishReturn(m)
      PROVE  TypeOK'
  <2>1. ASSUME PublishOk(m) PROVE TypeOK'
    BY <2>1, AcceptType DEF PublishOk, TypeOK, CallStates, bridges, sockets
  <2>2. ASSUME PublishError(m) PROVE TypeOK'
    BY <2>2, BroadcastType DEF PublishError, Fallback, TypeOK, CallStates, redis, sockets
  <2>3. ASSUME PublishLost(m) PROVE TypeOK'
    BY <1>1, <2>3, AcceptType, BroadcastType DEF PublishLost, Fallback, TypeOK, CallStates, sockets
  <2>4. ASSUME PublishReturn(m) PROVE TypeOK'
    BY <2>4 DEF PublishReturn, TypeOK, CallStates, redis, bridges, sockets
  <2>. QED BY <1>4, <2>1, <2>2, <2>3, <2>4 DEF Answer
<1>5. ASSUME NEW w \in Workers, Listen(w)
      PROVE  TypeOK'
  <2>1. ASSUME ReaderTakes(w) PROVE TypeOK'
    <3>1. Head(stream[w]) \in Messages /\ Tail(stream[w]) \in Seq(Messages)
      BY <2>1, TailHas DEF ReaderTakes, TypeOK
    <3>. QED BY <2>1, <3>1, BroadcastType DEF ReaderTakes, TypeOK, bridges, calls, sockets
  <2>2. ASSUME ReaderFails(w) \/ ReaderReconnects(w) PROVE TypeOK'
    <3>1. stream' = [stream EXCEPT ![w] = <<>>] /\ <<>> \in Seq(Messages)
      BY <2>2 DEF ReaderFails, ReaderReconnects
    <3>2. stream' \in [Workers -> Seq(Messages)]
      BY <3>1 DEF TypeOK
    <3>. QED BY <2>2, <3>2
             DEF ReaderFails, ReaderReconnects, TypeOK, ReaderStates, bridges, calls, sockets
  <2>. QED BY <1>5, <2>1, <2>2 DEF Listen
<1>6. ASSUME NEW s \in Sockets, SocketNext(s)
      PROVE  TypeOK'
  <2>1. ASSUME NEW channels \in SUBSET Channels \ {{}}, Connect(s, channels) PROVE TypeOK'
    BY <2>1 DEF Connect, TypeOK, GatewayStates, redis, bridges, calls
  <2>2. ASSUME Drop(s) \/ GatewayEnds(s) PROVE TypeOK'
    BY <2>2 DEF Drop, GatewayEnds, TypeOK, GatewayStates, redis, bridges, calls
  <2>3. ASSUME NEW m \in Messages, NEW by \in {"reader", "publish"}, Transmit(m, by, s)
        PROVE  TypeOK'
    <3>1. Append(received[s], m) \in Seq(Messages)
      BY AppendHas DEF TypeOK
    <3>. QED BY <2>3, <3>1
             DEF Transmit, Send, SendFails, TypeOK, redis, bridges, calls, sockets
  <2>. QED BY <1>6, <2>1, <2>2, <2>3 DEF SocketNext, Transmits
<1>7. ASSUME Outage \/ Recovery
      PROVE  TypeOK'
  BY <1>1, <1>7 DEF Outage, Recovery, TypeOK, bridges, calls, sockets
<1>. QED BY <1>2, <1>3, <1>4, <1>5, <1>6, <1>7 DEF Next, WorkerNext

(***************************************************************************)
(* 3. Events on their way                                                  *)
(***************************************************************************)

\* What CallsOK, OnTheWayOnce and OnceUnlessLost say of one message.
MessageOK(m) ==
    /\ pc[m] # "unsent" => at[m] \in Workers
    /\ pc[m] \in {"unsent", "publishing"} =>
          /\ m \notin lost \cup local
          /\ \A w \in Workers : ~Has(stream[w], m)
          /\ \A s \in Sockets : ~Has(received[s], m)
    /\ \A by \in {"reader", "publish"}, s \in Sockets : <<m, by, s>> \in sends =>
          /\ pc[m] \in {"sending", "done"}
          /\ by = "publish" => m \in local
    /\ m \notin lost =>
          /\ m \in local => \A w \in Workers : ~Has(stream[w], m)
          /\ \A w \in Workers : HasOnce(stream[w], m)
          /\ \A s \in Sockets :
                /\ Has(stream[WorkerOf[s]], m) =>
                      <<m, "reader", s>> \notin sends /\ ~Has(received[s], m)
                /\ m \in local => <<m, "reader", s>> \notin sends
                /\ Has(received[s], m) =>
                      \A by \in {"reader", "publish"} : <<m, by, s>> \notin sends
                /\ HasOnce(received[s], m)

MessagesOK == \A m \in Messages : MessageOK(m)

\* The invariant of the model, message by message.
LEMMA PerMessage == MessagesOK <=> CallsOK /\ OnTheWayOnce /\ OnceUnlessLost
<1>1. MessagesOK => CallsOK /\ OnTheWayOnce /\ OnceUnlessLost
  BY DEF MessagesOK, MessageOK, CallsOK, OnTheWayOnce, OnceUnlessLost, Has, HasOnce, InStream, Got
<1>2. CallsOK /\ OnTheWayOnce /\ OnceUnlessLost => MessagesOK
  BY DEF MessagesOK, MessageOK, CallsOK, OnTheWayOnce, OnceUnlessLost, Has, HasOnce, InStream, Got
<1>. QED BY <1>1, <1>2

\* The same after a step.
LEMMA PerMessageNext == MessagesOK' => CallsOK' /\ OnTheWayOnce' /\ OnceUnlessLost'
BY DEF MessagesOK, MessageOK, CallsOK, OnTheWayOnce, OnceUnlessLost, Has, HasOnce, InStream, Got

\* A step after which a message is on its way in no more places than before.
Stays(m) ==
    /\ pc'[m] = pc[m] /\ at'[m] = at[m]
    /\ m \in lost' <=> m \in lost
    /\ m \in local' <=> m \in local
    /\ \A w \in Workers : /\ Has(stream'[w], m) => Has(stream[w], m)
                          /\ HasOnce(stream[w], m) => HasOnce(stream'[w], m)
    /\ \A s \in Sockets : /\ Has(received'[s], m) => Has(received[s], m)
                          /\ HasOnce(received[s], m) => HasOnce(received'[s], m)
    /\ \A by \in {"reader", "publish"}, s \in Sockets :
          <<m, by, s>> \in sends' => <<m, by, s>> \in sends

\* It keeps what holds of the message.
LEMMA StaysOK ==
    ASSUME NEW m \in Messages, MessageOK(m), Stays(m)
    PROVE  MessageOK(m)'
<1>1. \A s \in Sockets : WorkerOf[s] \in Workers
  BY SocketsHaveWorkers
<1>. QED BY <1>1 DEF MessageOK, Stays

\* Nothing is added to a stream that is emptied.
LEMMA QuietMessages ==
    ASSUME MessagesOK, UNCHANGED <<calls, received>>, sends' \subseteq sends,
           \A w \in Workers : stream'[w] = stream[w] \/ stream'[w] = <<>>
    PROVE  MessagesOK'
<1>1. ASSUME NEW m \in Messages
      PROVE  Stays(m)
  <2>1. \A w \in Workers : /\ Has(stream'[w], m) => Has(stream[w], m)
                           /\ HasOnce(stream[w], m) => HasOnce(stream'[w], m)
    BY EmptyHas
  <2>2. /\ pc' = pc /\ at' = at /\ lost' = lost /\ local' = local /\ received' = received
        /\ \A by \in {"reader", "publish"}, s \in Sockets :
              <<m, by, s>> \in sends' => <<m, by, s>> \in sends
    BY DEF calls
  <2>3. \A s \in Sockets : /\ Has(received'[s], m) => Has(received[s], m)
                           /\ HasOnce(received[s], m) => HasOnce(received'[s], m)
    BY <2>2
  <2>4. /\ pc'[m] = pc[m] /\ at'[m] = at[m]
        /\ m \in lost' <=> m \in lost
        /\ m \in local' <=> m \in local
    BY <2>2
  <2>. QED BY <2>1, <2>2, <2>3, <2>4 DEF Stays
<1>. QED BY <1>1, StaysOK DEF MessagesOK

\* A call that falls back to the local broadcast had left no trace.
LEMMA FallbackMessages ==
    ASSUME MessagesOK, TypeOK, NEW m \in Messages, pc[m] \in {"unsent", "publishing"},
           NEW w \in Workers, at' = [at EXCEPT ![m] = w], Fallback(m, w),
           UNCHANGED <<stream, lost, received>>
    PROVE  MessagesOK'
<1>1. /\ \A k \in Messages, by \in {"reader", "publish"}, s \in Sockets :
            <<k, by, s>> \in sends' => <<k, by, s>> \in sends \/ (k = m /\ by = "publish")
      /\ pc'[m] = "sending" /\ at'[m] = w /\ local' = local \cup {m}
      /\ \A k \in Messages \ {m} : pc'[k] = pc[k] /\ at'[k] = at[k]
  BY DEF Fallback, BroadcastLocal, TypeOK
<1>2. ASSUME NEW k \in Messages \ {m}
      PROVE  Stays(k)
  BY <1>1 DEF Stays
<1>3. MessageOK(m)'
  <2>1. /\ m \notin lost \cup local
        /\ \A u \in Workers : ~Has(stream[u], m)
        /\ \A s \in Sockets : ~Has(received[s], m)
        /\ \A by \in {"reader", "publish"}, s \in Sockets : <<m, by, s>> \notin sends
    BY DEF MessagesOK, MessageOK
  <2>2. (\A u \in Workers : HasOnce(stream[u], m)) /\ (\A s \in Sockets : HasOnce(received[s], m))
    BY <2>1 DEF Has, HasOnce
  <2>3. \A s \in Sockets : WorkerOf[s] \in Workers
    BY SocketsHaveWorkers
  <2>. QED BY <1>1, <2>1, <2>2, <2>3 DEF MessageOK
<1>. QED BY <1>2, <1>3, StaysOK DEF MessagesOK

\* What Redis takes is new in every stream, and the other messages stay.
LEMMA AcceptMessages ==
    ASSUME TypeOK, NEW m \in Messages, Accept(m)
    PROVE  \A k \in Messages, w \in Workers :
              /\ k # m => /\ Has(stream'[w], k) <=> Has(stream[w], k)
                          /\ HasOnce(stream[w], k) => HasOnce(stream'[w], k)
              /\ k = m /\ ~Has(stream[w], m) => HasOnce(stream'[w], m)
<1>. TAKE k \in Messages, w \in Workers
<1>1. stream'[w] = IF w \in subscribed THEN Append(stream[w], m) ELSE stream[w]
  BY AcceptType
<1>2. ~Has(stream[w], m) => HasOnce(stream[w], m)
  BY DEF Has, HasOnce
<1>3. stream[w] \in Seq(Messages)
  BY DEF TypeOK
<1>4. /\ Has(Append(stream[w], m), k) <=> Has(stream[w], k) \/ m = k
      /\ HasOnce(stream[w], k) /\ (m = k => ~Has(stream[w], k)) => HasOnce(Append(stream[w], m), k)
  BY <1>3, AppendHas
<1>. QED BY <1>1, <1>2, <1>4

\* A call of publish, its answer and its return keep the invariant.
LEMMA CallMessages ==
    ASSUME MessagesOK, TypeOK, NEW m \in Messages,
           (\E w \in Workers : Publish(m, w)) \/ Answer(m) \/ PublishReturn(m)
    PROVE  MessagesOK'
<1>0. pc[m] = "publishing" => at[m] \in Workers /\ at = [at EXCEPT ![m] = at[m]]
  BY DEF MessagesOK, MessageOK, TypeOK
<1>1. ASSUME NEW w \in Workers, Publish(m, w)
      PROVE  MessagesOK'
  <2>1. CASE Fallback(m, w)
    BY <1>1, <2>1, FallbackMessages DEF Publish, redis
  <2>2. CASE pc' = [pc EXCEPT ![m] = "publishing"] /\ UNCHANGED <<local, sends>>
    <3>1. \A k \in Messages \ {m} : Stays(k)
      BY <1>1, <2>2 DEF Publish, redis, Stays, TypeOK
    <3>2. MessageOK(m)'
      BY <1>1, <2>2 DEF Publish, redis, TypeOK, MessagesOK, MessageOK
    <3>. QED BY <3>1, <3>2, StaysOK DEF MessagesOK
  <2>. QED BY <1>1, <2>1, <2>2 DEF Publish
<1>2. ASSUME PublishOk(m)
      PROVE  MessagesOK'
  <2>1. \A k \in Messages \ {m} : Stays(k)
    BY <1>2, AcceptMessages DEF PublishOk, Stays, TypeOK
  <2>2. MessageOK(m)'
    <3>1. /\ at[m] \in Workers /\ m \notin lost \cup local
          /\ \A w \in Workers : ~Has(stream[w], m)
          /\ \A s \in Sockets : ~Has(received[s], m)
          /\ \A by \in {"reader", "publish"}, s \in Sockets : <<m, by, s>> \notin sends
      BY <1>2 DEF PublishOk, MessagesOK, MessageOK
    <3>2. \A w \in Workers : HasOnce(stream'[w], m)
      BY <1>2, <3>1, AcceptMessages DEF PublishOk
    <3>3. \A s \in Sockets : HasOnce(received[s], m)
      BY <3>1 DEF Has, HasOnce
    <3>4. /\ pc'[m] = "done" /\ at' = at /\ lost' = lost /\ local' = local
          /\ sends' = sends /\ received' = received
      BY <1>2 DEF PublishOk, TypeOK
    <3>. QED BY <3>1, <3>2, <3>3, <3>4 DEF MessageOK
  <2>. QED BY <2>1, <2>2, StaysOK DEF MessagesOK
<1>3. ASSUME PublishError(m)
      PROVE  MessagesOK'
  BY <1>0, <1>3, FallbackMessages DEF PublishError, redis
<1>4. ASSUME PublishLost(m)
      PROVE  MessagesOK'
  <2>1. /\ \A k \in Messages, by \in {"reader", "publish"}, s \in Sockets :
              <<k, by, s>> \in sends' => <<k, by, s>> \in sends \/ (k = m /\ by = "publish")
        /\ pc'[m] = "sending" /\ at' = at
        /\ local' = local \cup {m} /\ lost' = lost \cup {m}
        /\ \A k \in Messages \ {m} : pc'[k] = pc[k]
    BY <1>4 DEF PublishLost, Fallback, BroadcastLocal, TypeOK
  <2>2. \A k \in Messages \ {m} : Stays(k)
    BY <1>4, <2>1, AcceptMessages DEF PublishLost, Stays
  <2>3. MessageOK(m)'
    BY <1>0, <1>4, <2>1 DEF PublishLost, MessageOK, MessagesOK
  <2>. QED BY <2>2, <2>3, StaysOK DEF MessagesOK
<1>5. ASSUME PublishReturn(m)
      PROVE  MessagesOK'
  <2>1. \A k \in Messages \ {m} : Stays(k)
    BY <1>5 DEF PublishReturn, Stays, TypeOK, redis
  <2>2. MessageOK(m)'
    BY <1>5 DEF PublishReturn, TypeOK, redis, MessagesOK, MessageOK
  <2>. QED BY <2>1, <2>2, StaysOK DEF MessagesOK
<1>. QED BY <1>1, <1>2, <1>3, <1>4, <1>5 DEF Answer

\* The reader hands a message from its stream to the subscribers.
LEMMA ReaderMessages ==
    ASSUME MessagesOK, TypeOK, NEW w \in Workers, ReaderTakes(w)
    PROVE  MessagesOK'
<1>0. PICK m \in Messages : m = Head(stream[w])
  BY TailHas DEF ReaderTakes, TypeOK
<1>1. /\ stream[w] # <<>> /\ stream[w] \in Seq(Messages)
      /\ stream' = [stream EXCEPT ![w] = Tail(stream[w])]
      /\ BroadcastLocal(m, "reader", w)
  BY <1>0 DEF ReaderTakes, TypeOK
<1>2. /\ pc' = pc /\ at' = at /\ lost' = lost /\ local' = local /\ received' = received
  BY DEF ReaderTakes, calls
<1>3. /\ \A u \in Workers \ {w} : stream'[u] = stream[u]
      /\ stream'[w] = Tail(stream[w])
  BY <1>1 DEF TypeOK
<1>4. \A k : /\ Has(stream[w], k) <=> Has(Tail(stream[w]), k) \/ m = k
             /\ HasOnce(stream[w], k) =>
                   HasOnce(Tail(stream[w]), k) /\ ~(Has(Tail(stream[w]), k) /\ m = k)
  BY <1>0, <1>1, TailHas
<1>5. \A k \in Messages, by \in {"reader", "publish"}, s \in Sockets :
         <<k, by, s>> \in sends' =>
            <<k, by, s>> \in sends \/ (k = m /\ by = "reader" /\ WorkerOf[s] = w)
  BY <1>1 DEF BroadcastLocal, Subscribers
<1>6. \A k \in Messages \ {m} : Stays(k)
  <2>. SUFFICES ASSUME NEW k \in Messages \ {m} PROVE Stays(k)
    OBVIOUS
  <2>1. \A u \in Workers : /\ Has(stream'[u], k) => Has(stream[u], k)
                           /\ HasOnce(stream[u], k) => HasOnce(stream'[u], k)
    BY <1>3, <1>4
  <2>2. \A s \in Sockets : /\ Has(received'[s], k) => Has(received[s], k)
                           /\ HasOnce(received[s], k) => HasOnce(received'[s], k)
    BY <1>2
  <2>3. /\ pc'[k] = pc[k] /\ at'[k] = at[k]
        /\ k \in lost' <=> k \in lost
        /\ k \in local' <=> k \in local
    BY <1>2
  <2>4. \A by \in {"reader", "publish"}, s \in Sockets :
           <<k, by, s>> \in sends' => <<k, by, s>> \in sends
    BY <1>5
  <2>. QED BY <2>1, <2>2, <2>3, <2>4 DEF Stays
<1>7. MessageOK(m)'
  <2>1. Has(stream[w], m)
    BY <1>4
  <2>2. MessageOK(m)
    BY DEF MessagesOK
  <2>3. pc[m] \in {"sending", "done"}
    BY <2>1, <2>2 DEF MessageOK, TypeOK, CallStates
  <2>4. m \notin lost => m \notin local /\ ~Has(stream'[w], m)
    BY <1>3, <1>4, <2>1, <2>2 DEF MessageOK
  <2>5. \A u \in Workers : /\ Has(stream'[u], m) => Has(stream[u], m)
                           /\ HasOnce(stream[u], m) => HasOnce(stream'[u], m)
    BY <1>3, <1>4
  <2>6. \A s \in Sockets : WorkerOf[s] \in Workers
    BY SocketsHaveWorkers
  <2>7. \A s \in Sockets : <<m, "publish", s>> \in sends' => <<m, "publish", s>> \in sends
    BY <1>0, <1>5
  <2>8. \A s \in Sockets :
           /\ Has(received'[s], m) => Has(received[s], m)
           /\ m \notin lost => HasOnce(received'[s], m)
    BY <1>2, <2>2 DEF MessageOK
  <2>9. m \notin lost =>
           \A s \in Sockets :
              /\ ~Has(stream'[WorkerOf[s]], m) \/ WorkerOf[s] # w
              /\ Has(received[s], m) => WorkerOf[s] # w
    BY <2>1, <2>2, <2>4 DEF MessageOK
  <2>10. ASSUME m \notin lost, NEW s \in Sockets
         PROVE  /\ Has(stream'[WorkerOf[s]], m) =>
                      <<m, "reader", s>> \notin sends' /\ ~Has(received'[s], m)
                /\ Has(received'[s], m) =>
                      \A by \in {"reader", "publish"} : <<m, by, s>> \notin sends'
    BY <1>0, <1>5, <2>2, <2>5, <2>6, <2>8, <2>9, <2>10 DEF MessageOK
  <2>11. /\ pc'[m] \in {"sending", "done"} /\ at'[m] \in Workers
         /\ m \notin lost => m \notin local' /\ \A u \in Workers : HasOnce(stream'[u], m)
    BY <1>2, <2>2, <2>3, <2>4, <2>5 DEF MessageOK
  <2>12. \A by \in {"reader", "publish"}, s \in Sockets :
            <<m, by, s>> \in sends' /\ by = "publish" => m \in local'
    BY <1>2, <2>2, <2>7 DEF MessageOK
  <2>. QED BY <1>2, <2>8, <2>10, <2>11, <2>12 DEF MessageOK
<1>. QED BY <1>6, <1>7, StaysOK DEF MessagesOK

\* A message sent to a socket is on its way to it no more.
LEMMA SendMessages ==
    ASSUME MessagesOK, TypeOK, NEW m \in Messages, NEW by \in {"reader", "publish"},
           NEW s \in Sockets, Send(m, by, s)
    PROVE  MessagesOK'
<1>1. /\ stream' = stream /\ pc' = pc /\ at' = at /\ lost' = lost /\ local' = local
      /\ <<m, by, s>> \in sends /\ sends' = sends \ {<<m, by, s>>}
      /\ received'[s] = Append(received[s], m)
      /\ \A u \in Sockets \ {s} : received'[u] = received[u]
  BY DEF Send, redis, calls, TypeOK
<1>2. \A k \in Messages :
         /\ Has(received'[s], k) <=> Has(received[s], k) \/ m = k
         /\ HasOnce(received[s], k) /\ (m = k => ~Has(received[s], k)) => HasOnce(received'[s], k)
  BY <1>1, AppendHas DEF TypeOK
<1>3. \A k \in Messages \ {m} : Stays(k)
  BY <1>1, <1>2 DEF Stays
<1>4. MessageOK(m)'
  <2>1. MessageOK(m) /\ pc[m] \in {"sending", "done"}
    BY <1>1 DEF MessagesOK, MessageOK
  <2>2. ASSUME m \notin lost
        PROVE  /\ ~Has(received[s], m) /\ HasOnce(received'[s], m)
               /\ ~Has(stream[WorkerOf[s]], m)
               /\ \A from \in {"reader", "publish"} : <<m, from, s>> \notin sends'
    <3>1. ~Has(received[s], m)
      BY <1>1, <2>1, <2>2 DEF MessageOK
    <3>2. HasOnce(received'[s], m)
      BY <1>2, <2>1, <2>2, <3>1 DEF MessageOK
    <3>3. ~Has(stream[WorkerOf[s]], m)
      BY <1>1, <2>1, <2>2, SocketsHaveWorkers DEF MessageOK
    <3>4. \A from \in {"reader", "publish"} : <<m, from, s>> \notin sends'
      BY <1>1, <2>1, <2>2 DEF MessageOK
    <3>. QED BY <3>1, <3>2, <3>3, <3>4
  <2>. QED BY <1>1, <2>1, <2>2 DEF MessageOK
<1>. QED BY <1>3, <1>4, StaysOK DEF MessagesOK

(***************************************************************************)
(* 4. The invariant                                                        *)
(***************************************************************************)

\* The steps of workers and sockets keep what the bridge and the registry rely on.
LEMMA NextBridge ==
    ASSUME IInv, Next
    PROVE  ReadersHaveClients' /\ DeafWorkersStayLocal' /\ EndedSocketsAreForgotten'
<1>. TypeOK /\ ReadersHaveClients /\ DeafWorkersStayLocal /\ EndedSocketsAreForgotten
  BY DEF IInv
<1>1. ASSUME NEW w \in Workers, WorkerNext(w)
      PROVE  ReadersHaveClients' /\ DeafWorkersStayLocal' /\ EndedSocketsAreForgotten'
  <2>1. EndedSocketsAreForgotten'
    BY <1>1 DEF WorkerNext, StartOnline, StartOffline, StartHalf, Stop, Listen, ReaderTakes,
                ReaderFails, ReaderReconnects, Publish, EndedSocketsAreForgotten, sockets
  <2>2. ASSUME StartOnline(w) \/ StartOffline(w) \/ StartHalf(w) \/ Stop(w)
        PROVE  ReadersHaveClients' /\ DeafWorkersStayLocal'
    BY <2>2 DEF StartOnline, StartOffline, StartHalf, Stop, TypeOK, ReadersHaveClients,
                DeafWorkersStayLocal
  <2>3. ASSUME Listen(w)
        PROVE  ReadersHaveClients' /\ DeafWorkersStayLocal'
    BY <2>3 DEF Listen, ReaderTakes, ReaderFails, ReaderReconnects, bridges, TypeOK,
                ReadersHaveClients, DeafWorkersStayLocal
  <2>4. ASSUME NEW m \in Messages, Publish(m, w)
        PROVE  ReadersHaveClients' /\ DeafWorkersStayLocal'
    BY <2>4 DEF Publish, ReadersHaveClients, DeafWorkersStayLocal
  <2>. QED BY <1>1, <2>1, <2>2, <2>3, <2>4 DEF WorkerNext
<1>2. ASSUME NEW m \in Messages, Answer(m) \/ PublishReturn(m)
      PROVE  ReadersHaveClients' /\ DeafWorkersStayLocal' /\ EndedSocketsAreForgotten'
  BY <1>2 DEF Answer, PublishOk, PublishError, PublishLost, PublishReturn, bridges, sockets,
              ReadersHaveClients, DeafWorkersStayLocal, EndedSocketsAreForgotten
<1>3. ASSUME NEW s \in Sockets, SocketNext(s)
      PROVE  ReadersHaveClients' /\ DeafWorkersStayLocal' /\ EndedSocketsAreForgotten'
  <2>1. ReadersHaveClients' /\ DeafWorkersStayLocal'
    BY <1>3 DEF SocketNext, Connect, Drop, GatewayEnds, Transmits, Transmit, Send, SendFails,
                bridges, ReadersHaveClients, DeafWorkersStayLocal
  <2>2. EndedSocketsAreForgotten'
    BY <1>3 DEF SocketNext, Connect, Drop, GatewayEnds, Transmits, Transmit, Send, SendFails,
                sockets, TypeOK, EndedSocketsAreForgotten
  <2>. QED BY <2>1, <2>2
<1>4. ASSUME Outage \/ Recovery
      PROVE  ReadersHaveClients' /\ DeafWorkersStayLocal' /\ EndedSocketsAreForgotten'
  BY <1>4 DEF Outage, Recovery, bridges, sockets, ReadersHaveClients, DeafWorkersStayLocal,
              EndedSocketsAreForgotten
<1>. QED BY <1>1, <1>2, <1>3, <1>4 DEF Next

\* Every step keeps what holds of every message.
LEMMA NextMessages ==
    ASSUME IInv, Next
    PROVE  MessagesOK'
<1>. TypeOK /\ MessagesOK
  BY PerMessage DEF IInv
<1>1. ASSUME NEW w \in Workers, WorkerNext(w)
      PROVE  MessagesOK'
  <2>1. ASSUME StartOnline(w) \/ StartOffline(w) \/ StartHalf(w)
        PROVE  MessagesOK'
    BY <2>1, QuietMessages DEF StartOnline, StartOffline, StartHalf, redis
  <2>2. ASSUME Stop(w) \/ ReaderFails(w) \/ ReaderReconnects(w)
        PROVE  MessagesOK'
    <3>1. /\ UNCHANGED <<calls, received>> /\ sends' \subseteq sends
          /\ stream' = [stream EXCEPT ![w] = <<>>]
      BY <2>2 DEF Stop, ReaderFails, ReaderReconnects
    <3>2. \A u \in Workers : stream'[u] = stream[u] \/ stream'[u] = <<>>
      BY <3>1 DEF TypeOK
    <3>. QED BY <3>1, <3>2, QuietMessages
  <2>. QED BY <1>1, <2>1, <2>2, ReaderMessages, CallMessages DEF WorkerNext, Listen
<1>2. ASSUME NEW s \in Sockets, SocketNext(s)
      PROVE  MessagesOK'
  <2>1. ASSUME \/ \E channels \in SUBSET Channels \ {{}} : Connect(s, channels)
               \/ Drop(s) \/ GatewayEnds(s)
               \/ \E m \in Messages, by \in {"reader", "publish"} : SendFails(m, by, s)
        PROVE  MessagesOK'
    <3>1. UNCHANGED <<calls, received, stream>> /\ sends' \subseteq sends
      BY <2>1 DEF Connect, Drop, GatewayEnds, SendFails, redis
    <3>. QED BY <3>1, QuietMessages
  <2>. QED BY <1>2, <2>1, SendMessages DEF SocketNext, Transmits, Transmit
<1>3. ASSUME Outage \/ Recovery
      PROVE  MessagesOK'
  BY <1>3, QuietMessages DEF Outage, Recovery
<1>. QED BY <1>1, <1>2, <1>3, CallMessages DEF Next

\* Every step keeps the invariant.
LEMMA NextInvariant ==
    ASSUME IInv, [Next]_vars
    PROVE  IInv'
<1>1. CASE Next
  BY <1>1, NextType, NextBridge, NextMessages, PerMessageNext DEF IInv
<1>2. CASE UNCHANGED vars
  <2>1. TypeOK' /\ ReadersHaveClients' /\ DeafWorkersStayLocal' /\ EndedSocketsAreForgotten'
    BY <1>2 DEF vars, redis, bridges, calls, sockets, IInv, TypeOK, ReadersHaveClients,
                DeafWorkersStayLocal, EndedSocketsAreForgotten
  <2>2. MessagesOK'
    BY <1>2, QuietMessages, PerMessage DEF vars, redis, IInv
  <2>. QED BY <2>1, <2>2, PerMessageNext DEF IInv
<1>. QED BY <1>1, <1>2

\* The invariant holds initially.
LEMMA InitInvariant == Init => IInv
<1>. SUFFICES ASSUME Init PROVE IInv
  OBVIOUS
<1>1. TypeOK
  <2>1. <<>> \in Seq(Messages)
    OBVIOUS
  <2>. QED BY <2>1, FailuresAreBounded
           DEF Init, TypeOK, ReaderStates, CallStates, GatewayStates
<1>2. ReadersHaveClients /\ DeafWorkersStayLocal /\ EndedSocketsAreForgotten
  BY DEF Init, ReadersHaveClients, DeafWorkersStayLocal, EndedSocketsAreForgotten
<1>3. MessagesOK
  BY SocketsHaveWorkers, EmptyHas DEF Init, MessagesOK, MessageOK
<1>. QED BY <1>1, <1>2, <1>3, PerMessage DEF IInv

(***************************************************************************)
(* 5. The theorems                                                         *)
(***************************************************************************)

\* The invariant holds throughout: types, bridges, registry and events on their way.
THEOREM InvariantHolds == Spec => []IInv
BY InitInvariant, NextInvariant, PTL DEF Spec

\* publish and the reader loop never both send an event to a socket, except after a
\* lost answer of Redis.
THEOREM Once == Spec => []OnceUnlessLost
<1>1. IInv => OnceUnlessLost
  BY DEF IInv
<1>. QED BY <1>1, InvariantHolds, PTL

\* A worker whose reader loop has ended does not publish to Redis.
THEOREM DeafStayLocal == Spec => []DeafWorkersStayLocal
<1>1. IInv => DeafWorkersStayLocal
  BY DEF IInv
<1>. QED BY <1>1, InvariantHolds, PTL

\* The registry of a worker keeps no socket whose endpoint has ended.
THEOREM EndedForgotten == Spec => []EndedSocketsAreForgotten
<1>1. IInv => EndedSocketsAreForgotten
  BY DEF IInv
<1>. QED BY <1>1, InvariantHolds, PTL

(***************************************************************************)
(* 6. One order                                                            *)
(***************************************************************************)

\* The reader loop of a worker awaits the send of an event to a socket.
Passing(s, m) == <<m, "reader", s>> \in sends

\* Somewhere m1 has come further than m2, or stands before it.
Ahead(m1, m2) ==
    \/ \E w \in Workers : HasBefore(stream[w], m1, m2)
    \/ \E s \in Sockets :
          \/ HasBefore(received[s], m1, m2)
          \/ Has(received[s], m1) /\ (Passing(s, m2) \/ Has(stream[WorkerOf[s]], m2))
          \/ Passing(s, m1) /\ Has(stream[WorkerOf[s]], m2)

\* Of two events that went through Redis, one is ahead everywhere; and a reader
\* passes on one event at a time.
OrderOK ==
    /\ \A m1, m2 \in Messages \ local : m1 # m2 => ~(Ahead(m1, m2) /\ Ahead(m2, m1))
    /\ \A s \in Sockets, m1, m2 \in Messages : Passing(s, m1) /\ Passing(s, m2) => m1 = m2

\* A step that brings no event ahead of another and starts no send keeps the order.
LEMMA NoneOvertakes ==
    ASSUME OrderOK, local \subseteq local',
           \A m1, m2 \in Messages \ local' : m1 # m2 /\ Ahead(m1, m2)' => Ahead(m1, m2),
           \A s \in Sockets, m1, m2 \in Messages : Passing(s, m1)' /\ Passing(s, m2)' => m1 = m2
    PROVE  OrderOK'
BY DEF OrderOK

\* So does one that only empties streams, ends sends or broadcasts locally.
LEMMA QuietOrder ==
    ASSUME OrderOK, local \subseteq local', UNCHANGED received,
           \A s \in Sockets, m \in Messages : Passing(s, m)' => Passing(s, m),
           \A w \in Workers : stream'[w] = stream[w] \/ stream'[w] = <<>>
    PROVE  OrderOK'
<1>1. \A w \in Workers, m1, m2 \in Messages :
         /\ Has(stream'[w], m1) => Has(stream[w], m1)
         /\ HasBefore(stream'[w], m1, m2) => HasBefore(stream[w], m1, m2)
  BY DEF Has, HasBefore
<1>2. \A m1, m2 \in Messages : Ahead(m1, m2)' => Ahead(m1, m2)
  BY <1>1, SocketsHaveWorkers DEF Ahead
<1>. QED BY <1>2, NoneOvertakes DEF OrderOK

\* What Redis takes comes last in every stream.
LEMMA AcceptOrder ==
    ASSUME TypeOK, MessagesOK, NEW m \in Messages, pc[m] = "publishing", Accept(m),
           UNCHANGED received, \A s \in Sockets, k \in Messages : Passing(s, k)' => Passing(s, k)
    PROVE  \A k1, k2 \in Messages :
              Ahead(k1, k2)' /\ k1 # k2 => k1 # m /\ (Ahead(k1, k2) \/ k2 = m)
<1>1. /\ \A w \in Workers : ~Has(stream[w], m)
      /\ \A s \in Sockets : ~Has(received[s], m) /\ ~Passing(s, m)
  BY DEF MessagesOK, MessageOK, Passing
<1>2. ASSUME NEW w \in Workers, NEW k1 \in Messages, NEW k2 \in Messages
      PROVE  /\ Has(stream'[w], k2) => Has(stream[w], k2) \/ k2 = m
             /\ HasBefore(stream'[w], k1, k2) =>
                   HasBefore(stream[w], k1, k2) \/ (Has(stream[w], k1) /\ k2 = m)
  <2>1. stream'[w] = IF w \in subscribed THEN Append(stream[w], m) ELSE stream[w]
    BY AcceptType
  <2>2. stream[w] \in Seq(Messages)
    BY DEF TypeOK
  <2>3. Has(Append(stream[w], m), k2) => Has(stream[w], k2) \/ k2 = m
    BY <2>2, AppendHas
  <2>4. HasBefore(Append(stream[w], m), k1, k2) =>
           HasBefore(stream[w], k1, k2) \/ (Has(stream[w], k1) /\ k2 = m)
    BY <2>2, AppendOrder
  <2>. QED BY <2>1, <2>3, <2>4
<1>3. \A w \in Workers, k \in Messages : ~HasBefore(stream[w], m, k)
  BY <1>1 DEF Has, HasBefore
<1>4. \A s \in Sockets, k \in Messages : ~HasBefore(received[s], m, k)
  BY <1>1 DEF Has, HasBefore
<1>5. \A s \in Sockets : WorkerOf[s] \in Workers
  BY SocketsHaveWorkers
<1>. SUFFICES ASSUME NEW k1 \in Messages, NEW k2 \in Messages, Ahead(k1, k2)', k1 # k2
              PROVE  k1 # m /\ (Ahead(k1, k2) \/ k2 = m)
  OBVIOUS
<1>6. CASE \E w \in Workers : HasBefore(stream'[w], k1, k2)
  BY <1>1, <1>2, <1>3, <1>6 DEF Ahead
<1>7. ASSUME NEW s \in Sockets,
             \/ HasBefore(received'[s], k1, k2)
             \/ Has(received'[s], k1) /\ (Passing(s, k2)' \/ Has(stream'[WorkerOf[s]], k2))
             \/ Passing(s, k1)' /\ Has(stream'[WorkerOf[s]], k2)
      PROVE  k1 # m /\ (Ahead(k1, k2) \/ k2 = m)
  <2>1. k1 # m
    BY <1>1, <1>4, <1>7
  <2>2. ASSUME k2 # m
        PROVE  \/ HasBefore(received[s], k1, k2)
               \/ Has(received[s], k1) /\ (Passing(s, k2) \/ Has(stream[WorkerOf[s]], k2))
               \/ Passing(s, k1) /\ Has(stream[WorkerOf[s]], k2)
    BY <1>2, <1>5, <1>7, <2>2
  <2>. QED BY <2>1, <2>2 DEF Ahead
<1>. QED BY <1>6, <1>7 DEF Ahead

\* A call of publish, its answer and its return keep the order.
LEMMA CallOrder ==
    ASSUME OrderOK, MessagesOK, TypeOK, NEW m \in Messages,
           (\E w \in Workers : Publish(m, w)) \/ Answer(m) \/ PublishReturn(m)
    PROVE  OrderOK'
<1>1. ASSUME NEW w, Fallback(m, w)
      PROVE  /\ local' = local \cup {m}
             /\ \A s \in Sockets, k \in Messages : Passing(s, k)' => Passing(s, k)
  BY <1>1 DEF Fallback, BroadcastLocal, Passing
<1>2. ASSUME NEW w \in Workers, Publish(m, w)
      PROVE  OrderOK'
  <2>1. /\ local \subseteq local'
        /\ \A s \in Sockets, k \in Messages : Passing(s, k)' => Passing(s, k)
    BY <1>1, <1>2 DEF Publish, Passing
  <2>. QED BY <1>2, <2>1, QuietOrder DEF Publish, redis
<1>3. ASSUME PublishOk(m)
      PROVE  OrderOK'
  <2>1. /\ local' = local
        /\ \A s \in Sockets, k \in Messages : Passing(s, k)' <=> Passing(s, k)
    BY <1>3 DEF PublishOk, Passing
  <2>2. \A k1, k2 \in Messages :
           Ahead(k1, k2)' /\ k1 # k2 => k1 # m /\ (Ahead(k1, k2) \/ k2 = m)
    BY <1>3, <2>1, AcceptOrder DEF PublishOk
  <2>3. \A k1, k2 \in Messages \ local' : k1 # k2 => ~(Ahead(k1, k2)' /\ Ahead(k2, k1)')
    BY <2>1, <2>2 DEF OrderOK
  <2>. QED BY <2>1, <2>3 DEF OrderOK
<1>4. ASSUME PublishError(m)
      PROVE  OrderOK'
  BY <1>1, <1>4, QuietOrder DEF PublishError, redis
<1>5. ASSUME PublishLost(m)
      PROVE  OrderOK'
  <2>1. /\ local' = local \cup {m}
        /\ \A s \in Sockets, k \in Messages : Passing(s, k)' => Passing(s, k)
    BY <1>1, <1>5 DEF PublishLost
  <2>2. \A k1, k2 \in Messages :
           Ahead(k1, k2)' /\ k1 # k2 => k1 # m /\ (Ahead(k1, k2) \/ k2 = m)
    BY <1>5, <2>1, AcceptOrder DEF PublishLost
  <2>. QED BY <2>1, <2>2, NoneOvertakes DEF OrderOK
<1>6. ASSUME PublishReturn(m)
      PROVE  OrderOK'
  <2>1. \A s \in Sockets, k \in Messages : Passing(s, k)' => Passing(s, k)
    BY <1>6 DEF PublishReturn, Passing
  <2>. QED BY <1>6, <2>1, QuietOrder DEF PublishReturn, redis
<1>. QED BY <1>2, <1>3, <1>4, <1>5, <1>6 DEF Answer

\* The reader takes its events in the order of the stream.
LEMMA ReaderOrder ==
    ASSUME OrderOK, TypeOK, NEW w \in Workers, ReaderTakes(w)
    PROVE  OrderOK'
<1>0. PICK m \in Messages : m = Head(stream[w])
  BY TailHas DEF ReaderTakes, TypeOK
<1>1. /\ stream[w] # <<>> /\ stream[w] \in Seq(Messages)
      /\ stream'[w] = Tail(stream[w])
      /\ \A u \in Workers \ {w} : stream'[u] = stream[u]
      /\ local' = local /\ received' = received
  BY DEF ReaderTakes, TypeOK, calls
<1>2. \A s \in Sockets, k \in Messages :
         Passing(s, k)' => Passing(s, k) \/ (k = m /\ WorkerOf[s] = w)
  BY <1>0 DEF ReaderTakes, BroadcastLocal, Subscribers, Passing
<1>3. \A s \in Sockets, k \in Messages : WorkerOf[s] = w => ~Passing(s, k)
  BY DEF ReaderTakes, ReaderReady, Passing
<1>4. /\ Has(stream[w], m)
      /\ \A k1, k2 : /\ Has(Tail(stream[w]), k1) => Has(stream[w], k1)
                     /\ HasBefore(Tail(stream[w]), k1, k2) => HasBefore(stream[w], k1, k2)
                     /\ Has(Tail(stream[w]), k2) => HasBefore(stream[w], m, k2)
  BY <1>0, <1>1, TailHas, TailOrder
<1>5. \A u \in Workers, k1, k2 \in Messages :
         /\ Has(stream'[u], k1) => Has(stream[u], k1)
         /\ HasBefore(stream'[u], k1, k2) => HasBefore(stream[u], k1, k2)
  BY <1>1, <1>4
<1>6. ASSUME NEW k1 \in Messages, NEW k2 \in Messages, Ahead(k1, k2)'
      PROVE  Ahead(k1, k2)
  <2>1. CASE \E u \in Workers : HasBefore(stream'[u], k1, k2)
    BY <1>5, <2>1 DEF Ahead
  <2>2. ASSUME NEW s \in Sockets,
               \/ HasBefore(received'[s], k1, k2)
               \/ Has(received'[s], k1) /\ (Passing(s, k2)' \/ Has(stream'[WorkerOf[s]], k2))
               \/ Passing(s, k1)' /\ Has(stream'[WorkerOf[s]], k2)
        PROVE  Ahead(k1, k2)
    <3>1. WorkerOf[s] \in Workers
      BY SocketsHaveWorkers
    <3>2. CASE HasBefore(received'[s], k1, k2)
      BY <1>1, <3>2 DEF Ahead
    <3>3. CASE Has(received'[s], k1) /\ (Passing(s, k2)' \/ Has(stream'[WorkerOf[s]], k2))
      BY <1>1, <1>2, <1>4, <1>5, <3>1, <3>3 DEF Ahead
    <3>4. CASE Passing(s, k1)' /\ Has(stream'[WorkerOf[s]], k2)
      BY <1>1, <1>2, <1>4, <1>5, <3>1, <3>4 DEF Ahead
    <3>. QED BY <2>2, <3>2, <3>3, <3>4
  <2>. QED BY <1>6, <2>1, <2>2 DEF Ahead
<1>7. \A s \in Sockets, k1, k2 \in Messages : Passing(s, k1)' /\ Passing(s, k2)' => k1 = k2
  BY <1>2, <1>3 DEF OrderOK
<1>. QED BY <1>1, <1>6, <1>7, NoneOvertakes

\* What is sent to a socket was before all that is behind in its worker.
LEMMA SendOrder ==
    ASSUME OrderOK, MessagesOK, TypeOK, NEW m \in Messages, NEW by \in {"reader", "publish"},
           NEW s \in Sockets, Send(m, by, s)
    PROVE  OrderOK'
<1>1. /\ stream' = stream /\ local' = local
      /\ <<m, by, s>> \in sends /\ sends' = sends \ {<<m, by, s>>}
      /\ received[s] \in Seq(Messages) /\ received'[s] = Append(received[s], m)
      /\ \A u \in Sockets \ {s} : received'[u] = received[u]
  BY DEF Send, redis, calls, TypeOK
<1>2. \A u \in Sockets, k \in Messages : Passing(u, k)' => Passing(u, k)
  BY <1>1 DEF Passing
<1>3. m \notin local => Passing(s, m) /\ ~Passing(s, m)'
  BY <1>1 DEF MessagesOK, MessageOK, Passing
<1>4. \A k \in Messages : Has(received'[s], k) => Has(received[s], k) \/ k = m
  BY <1>1, AppendHas
<1>5. \A k1, k2 \in Messages : HasBefore(received'[s], k1, k2) =>
         HasBefore(received[s], k1, k2) \/ (Has(received[s], k1) /\ k2 = m)
  BY <1>1, AppendOrder
<1>6. ASSUME NEW k1 \in Messages \ local, NEW k2 \in Messages \ local, k1 # k2, Ahead(k1, k2)'
      PROVE  Ahead(k1, k2)
  <2>1. CASE \E w \in Workers : HasBefore(stream'[w], k1, k2)
    BY <1>1, <2>1 DEF Ahead
  <2>2. ASSUME NEW u \in Sockets,
               \/ HasBefore(received'[u], k1, k2)
               \/ Has(received'[u], k1) /\ (Passing(u, k2)' \/ Has(stream'[WorkerOf[u]], k2))
               \/ Passing(u, k1)' /\ Has(stream'[WorkerOf[u]], k2)
        PROVE  Ahead(k1, k2)
    <3>1. CASE u # s
      BY <1>1, <1>2, <2>2, <3>1 DEF Ahead
    <3>2. CASE u = s /\ HasBefore(received'[s], k1, k2)
      BY <1>3, <1>5, <3>2 DEF Ahead
    <3>3. CASE u = s /\ Has(received'[s], k1) /\ Passing(s, k2)'
      <4>1. ~(k1 = m)
        BY <1>2, <1>3, <1>6, <3>3 DEF OrderOK
      <4>. QED BY <1>2, <1>4, <3>3, <4>1 DEF Ahead
    <3>4. CASE u = s /\ Has(received'[s], k1) /\ Has(stream'[WorkerOf[s]], k2)
      BY <1>1, <1>3, <1>4, <3>4 DEF Ahead
    <3>5. CASE u = s /\ Passing(s, k1)' /\ Has(stream'[WorkerOf[s]], k2)
      BY <1>1, <1>2, <3>5 DEF Ahead
    <3>. QED BY <2>2, <3>1, <3>2, <3>3, <3>4, <3>5
  <2>. QED BY <1>6, <2>1, <2>2 DEF Ahead
<1>7. \A u \in Sockets, k1, k2 \in Messages : Passing(u, k1)' /\ Passing(u, k2)' => k1 = k2
  BY <1>2 DEF OrderOK
<1>. QED BY <1>1, <1>6, <1>7, NoneOvertakes

\* Every step keeps the order.
LEMMA NextOrder ==
    ASSUME OrderOK, IInv, [Next]_vars
    PROVE  OrderOK'
<1>. TypeOK /\ MessagesOK
  BY PerMessage DEF IInv
<1>1. ASSUME NEW w \in Workers, WorkerNext(w)
      PROVE  OrderOK'
  <2>1. ASSUME StartOnline(w) \/ StartOffline(w) \/ StartHalf(w)
        PROVE  OrderOK'
    <3>1. UNCHANGED <<stream, local, sends, received>>
      BY <2>1 DEF StartOnline, StartOffline, StartHalf, redis, calls
    <3>. QED BY <3>1, QuietOrder DEF Passing
  <2>2. ASSUME Stop(w) \/ ReaderFails(w) \/ ReaderReconnects(w)
        PROVE  OrderOK'
    <3>1. /\ UNCHANGED <<local, received>> /\ sends' \subseteq sends
          /\ stream' = [stream EXCEPT ![w] = <<>>]
      BY <2>2 DEF Stop, ReaderFails, ReaderReconnects, calls
    <3>2. \A u \in Workers : stream'[u] = stream[u] \/ stream'[u] = <<>>
      BY <3>1 DEF TypeOK
    <3>. QED BY <3>1, <3>2, QuietOrder DEF Passing
  <2>. QED BY <1>1, <2>1, <2>2, ReaderOrder, CallOrder DEF WorkerNext, Listen
<1>2. ASSUME NEW s \in Sockets, SocketNext(s)
      PROVE  OrderOK'
  <2>1. ASSUME \/ \E channels \in SUBSET Channels \ {{}} : Connect(s, channels)
               \/ Drop(s) \/ GatewayEnds(s)
               \/ \E m \in Messages, by \in {"reader", "publish"} : SendFails(m, by, s)
        PROVE  OrderOK'
    <3>1. UNCHANGED <<local, received, stream>> /\ sends' \subseteq sends
      BY <2>1 DEF Connect, Drop, GatewayEnds, SendFails, redis, calls
    <3>. QED BY <3>1, QuietOrder DEF Passing
  <2>. QED BY <1>2, <2>1, SendOrder DEF SocketNext, Transmits, Transmit
<1>3. ASSUME Outage \/ Recovery \/ UNCHANGED vars
      PROVE  OrderOK'
  <2>1. UNCHANGED <<stream, local, sends, received>>
    BY <1>3 DEF Outage, Recovery, vars, redis, calls
  <2>. QED BY <2>1, QuietOrder DEF Passing
<1>. QED BY <1>1, <1>2, <1>3, CallOrder DEF Next

\* All sockets, on all workers, see the events that went through Redis in one order.
THEOREM OneOrder == Spec => []SameOrder
<1>1. Init => OrderOK
  BY EmptyHas DEF Init, OrderOK, Ahead, Passing, Has, HasBefore
<1>2. OrderOK /\ IInv /\ [Next]_vars => OrderOK'
  BY NextOrder
<1>3. OrderOK => SameOrder
  BY DEF OrderOK, Ahead, SameOrder, Before, HasBefore
<1>. QED BY <1>1, <1>2, <1>3, InvariantHolds, PTL DEF Spec
=============================================================================
