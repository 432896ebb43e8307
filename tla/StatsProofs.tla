----------------------------- MODULE StatsProofs -----------------------------
(***************************************************************************)
(* Proofs about DiscoveryStats, for names of which none is a part of       *)
(* another or of the rest of a key.                                        *)
(***************************************************************************)
EXTENDS DiscoveryStats, SequenceTheorems, TLAPS

\* Of the keys of a pod that waits for an answer, the one written last is its own,
\* unless that one has been deleted.
OwnKeyIsLast ==
    \A p \in Pods : stream[p].pc = "response" /\ p \notin erased =>
        \A i \in DOMAIN nonces :
            nonces[i] # None /\ nonces[i].pod = p => \E j \in i..Len(nonces) : nonces[j] = OwnKey(p)

\* A pod's keys carry its nodeID, and only pods with a name have keys.
KeysOfNode ==
    \A i \in DOMAIN nonces :
        nonces[i] # None => nonces[i].node = NodeOf[nonces[i].pod] /\ nonces[i].pod \in Named

\* What a stream is about to do.
StreamInv ==
    \A p \in Pods :
        /\ stream[p].pc \in {"response", "count"} => stream[p].version \in Versions
        /\ stream[p].pc = "count" => <<p, stream[p].version>> \in rejecters \cup misled

CountInv == TypeOK /\ OwnKeyIsLast /\ KeysOfNode /\ StreamInv /\ CountedWereSent

USE StatsAssumption

-----------------------------------------------------------------------------
(***************************************************************************)
(* Types.                                                                  *)
(***************************************************************************)

\* A copy of keys for DeleteKeysByFilter.
KeySets == [requests: SUBSET (Nodes \X PodIDs), nonces: SUBSET NonceKey,
            nacks: SUBSET (Nodes \X Versions \X Pods)]

\* FilterKeys copies keys of the store.
LEMMA FilterKeysType ==
    ASSUME TypeOK, NEW filter
    PROVE  FilterKeys(filter) \in KeySets
<1> DEFINE R == {k \in requests : Matches(filter, RequestParts(k))}
           I == {j \in DOMAIN nonces : nonces[j] # None /\ Matches(filter, NonceParts(nonces[j]))}
           K == {k \in DOMAIN nacks : nacks[k] > 0 /\ Matches(filter, NackParts(k))}
           N == {nonces[i] : i \in I}
<1>1. R \subseteq Nodes \X PodIDs
  BY DEF TypeOK
<1>2. K \subseteq Nodes \X Versions \X Pods
  BY DEF TypeOK
<1>3. N \subseteq NonceKey
  <2>1. \A i \in DOMAIN nonces : nonces[i] \in NonceKey \cup {None}
    BY DEF TypeOK
  <2> QED BY <2>1
<1>4. FilterKeys(filter) = [requests |-> R, nonces |-> N, nacks |-> K]
  BY DEF FilterKeys
<1> HIDE DEF R, N, K
<1> QED BY <1>1, <1>2, <1>3, <1>4 DEF KeySets

\* The deletion of a nonce key leaves a sequence of keys, in the old order.
LEMMA DeleteNonceType ==
    ASSUME TypeOK, NEW d \in Deleters, NEW k, DeleteNonce(d, k)
    PROVE  /\ nonces' \in Seq(NonceKey \cup {None}) /\ Len(nonces') = Len(nonces)
           /\ Len(nonces) \in Nat /\ DOMAIN nonces = 1..Len(nonces) /\ DOMAIN nonces' = DOMAIN nonces
           /\ \A i \in DOMAIN nonces : nonces'[i] = IF nonces[i] = k THEN None ELSE nonces[i]
<1> DEFINE S == NonceKey \cup {None}
<1>1. nonces \in Seq(S) /\ DOMAIN nonces = 1..Len(nonces) /\ Len(nonces) \in Nat
  BY DEF TypeOK
<1>2. \A i \in 1..Len(nonces) : nonces[i] \in S
  BY <1>1
<1>3. nonces' = [i \in 1..Len(nonces) |-> IF nonces[i] = k THEN None ELSE nonces[i]]
  BY <1>1 DEF DeleteNonce
<1>4. \A i \in 1..Len(nonces) : nonces'[i] \in S
  BY <1>2, <1>3
<1> HIDE DEF S
<1>5. nonces' \in Seq(S) /\ Len(nonces') = Len(nonces)
  BY <1>1, <1>3, <1>4
<1> QED BY <1>1, <1>3, <1>5 DEF S

\* Writing a nonce keeps a sequence of keys, whose last element is the new key and
\* whose other elements are old ones, in the old order.
LEMMA WriteNonceType ==
    ASSUME TypeOK, NEW key \in NonceKey, WriteResponseNonce(key)
    PROVE  /\ nonces' \in Seq(NonceKey \cup {None})
           /\ Len(nonces') \in Nat \ {0}
           /\ nonces'[Len(nonces')] = key
           /\ \E d \in Nat : \A i \in 1..Len(nonces') - 1 :
                 /\ i + d \in 1..Len(nonces) /\ Len(nonces') - 1 + d = Len(nonces)
                 /\ nonces'[i] = IF nonces[i + d] = key THEN None ELSE nonces[i + d]
<1> DEFINE S == NonceKey \cup {None}
           others == [i \in 1..Len(nonces) |-> IF nonces[i] = key THEN None ELSE nonces[i]]
<1>1. nonces \in Seq(S) /\ DOMAIN nonces = 1..Len(nonces) /\ Len(nonces) \in Nat
  BY DEF TypeOK
<1>2. key \in S /\ \A i \in 1..Len(nonces) : others[i] \in S
  BY <1>1
<1>3. nonces' = Append(IF Len(nonces) < MaxWrites THEN others ELSE Tail(others), key)
  BY <1>1 DEF WriteResponseNonce
<1>4. MaxWrites \in Nat \ {0}
  OBVIOUS
<1> HIDE DEF S
<1>5. others \in Seq(S) /\ Len(others) = Len(nonces)
  BY <1>1, <1>2
<1>6. CASE Len(nonces) < MaxWrites
  <2>1. nonces' = Append(others, key)
    BY <1>3, <1>6
  <2>2. nonces' \in Seq(S) /\ Len(nonces') = Len(nonces) + 1 /\ nonces'[Len(nonces')] = key
    BY <2>1, <1>1, <1>2, <1>5
  <2>3. \A i \in 1..Len(nonces') - 1 :
           /\ i + 0 \in 1..Len(nonces) /\ Len(nonces') - 1 + 0 = Len(nonces)
           /\ nonces'[i] = others[i + 0]
    BY <2>1, <2>2, <1>1, <1>5
  <2>4. \A i \in 1..Len(nonces') - 1 :
           nonces'[i] = IF nonces[i + 0] = key THEN None ELSE nonces[i + 0]
    BY <2>3
  <2>5. Len(nonces') \in Nat \ {0}
    BY <2>2, <1>1
  <2> HIDE DEF others
  <2> QED BY <2>2, <2>3, <2>4, <2>5 DEF S
<1>7. CASE ~(Len(nonces) < MaxWrites)
  <2>1. nonces' = Append(Tail(others), key)
    BY <1>3, <1>7
  <2>2. Len(nonces) >= 1 /\ others # <<>>
    BY <1>1, <1>4, <1>5, <1>7
  <2>3. Tail(others) \in Seq(S) /\ Len(Tail(others)) = Len(nonces) - 1
        /\ \A i \in 1..Len(nonces) - 1 : Tail(others)[i] = others[i + 1]
    <3> HIDE DEF others
    <3> QED BY <2>2, <1>5, <1>1
  <2>4. nonces' \in Seq(S) /\ Len(nonces') = Len(nonces) /\ nonces'[Len(nonces')] = key
    BY <2>1, <2>3, <1>1, <1>2, <2>2
  <2>5. \A i \in 1..Len(nonces') - 1 :
           /\ i + 1 \in 1..Len(nonces) /\ Len(nonces') - 1 + 1 = Len(nonces)
           /\ nonces'[i] = others[i + 1]
    <3> DEFINE rest == Tail(others)
    <3> HIDE DEF others
    <3>1. rest \in Seq(S) /\ Len(rest) = Len(nonces) - 1 /\ nonces' = Append(rest, key)
          /\ \A i \in 1..Len(nonces) - 1 : rest[i] = others[i + 1]
      BY <2>1, <2>3
    <3> HIDE DEF rest
    <3>2. \A i \in 1..Len(nonces) - 1 : nonces'[i] = rest[i]
      BY <3>1, <1>1, <1>2
    <3> QED BY <3>1, <3>2, <2>4, <1>1
  <2>6. \A i \in 1..Len(nonces') - 1 :
           nonces'[i] = IF nonces[i + 1] = key THEN None ELSE nonces[i + 1]
    BY <2>5
  <2>7. Len(nonces') \in Nat \ {0}
    BY <2>2, <2>4, <1>1
  <2> HIDE DEF others
  <2> QED BY <2>4, <2>5, <2>6, <2>7 DEF S
<1> QED BY <1>6, <1>7

\* Expiry keeps a sequence of keys, without the oldest.
LEMMA ExpireType ==
    ASSUME TypeOK, ExpireNonce
    PROVE  /\ nonces' \in Seq(NonceKey \cup {None})
           /\ Len(nonces') = Len(nonces) - 1 /\ Len(nonces') \in Nat
           /\ \A i \in 1..Len(nonces') : nonces'[i] = nonces[i + 1]
<1> DEFINE S == NonceKey \cup {None}
<1>1. nonces \in Seq(S) /\ nonces # <<>> /\ nonces' = Tail(nonces)
  BY DEF TypeOK, ExpireNonce
<1> HIDE DEF S
<1>2. nonces' \in Seq(S) /\ Len(nonces') = Len(nonces) - 1 /\ Len(nonces') \in Nat
      /\ \A i \in 1..Len(nonces') : nonces'[i] = nonces[i + 1]
  BY <1>1
<1> QED BY <1>2 DEF S

\* Streams and counters are well-typed in the beginning.
LEMMA TypeInit == Init => TypeOK
<1> SUFFICES ASSUME Init PROVE TypeOK
  OBVIOUS
<1>1. stream \in [Pods -> Stream]
  BY DEF Init, NewStream, Stream
<1>2. nonces \in Seq(NonceKey \cup {None})
  BY DEF Init
<1>3. nacks \in [Nodes \X Versions \X Pods -> 0..Threshold]
  BY DEF Init
<1>4. doomed \in [Deleters -> KeySets]
  BY DEF Init, NoKeys, KeySets
<1> QED BY <1>1, <1>2, <1>3, <1>4 DEF Init, TypeOK, KeySets

\* Every step keeps the types.
LEMMA TypeStep == TypeOK /\ [Next]_vars => TypeOK'
<1> SUFFICES ASSUME TypeOK, [Next]_vars PROVE TypeOK'
  OBVIOUS
<1> USE DEF cluster, store, history, Spend
<1>0. NewStream \in Stream
  BY DEF NewStream, Stream
<1>W. ASSUME NEW p \in Pods, NEW a \in Versions \cup {None}, Watch(p, a)
      PROVE  stream' \in [Pods -> Stream]
  <2>1. stream[p].nonce \in Nat
    BY DEF TypeOK, Stream
  <2>2. [pc |-> "watch", nonce |-> stream[p].nonce, accepted |-> a, version |-> None, count |-> 0] \in Stream
    BY <2>1, <1>W DEF Stream
  <2> QED BY <2>2, <1>W DEF TypeOK, Watch
<1>1. ASSUME NEW p \in Pods, OpenStream(p) PROVE TypeOK'
  <2>1. stream[p].accepted \in Versions \cup {None}
    BY DEF TypeOK, Stream
  <2>2. stream' \in [Pods -> Stream]
    BY <2>1, <1>1, <1>W DEF OpenStream
  <2>3. requests' \subseteq Nodes \X PodIDs
    BY <1>1 DEF OpenStream, TypeOK, PodName, PodIDs
  <2> QED BY <2>2, <2>3, <1>1 DEF OpenStream, TypeOK
<1>2. ASSUME NEW p \in Pods, SendResponse(p) PROVE TypeOK'
  <2> DEFINE v == served[NodeOf[p]]  n == stream[p].nonce + 1
             key == [node |-> NodeOf[p], version |-> v, pod |-> p, nonce |-> n]
  <2>1. v \in Versions /\ n \in Nat /\ NodeOf[p] \in Nodes
    <3>1. NodeOf[p] \in Nodes
      OBVIOUS
    <3>2. v \in Versions
      BY <1>2, <3>1 DEF SendResponse, TypeOK
    <3>3. n \in Nat
      BY DEF TypeOK, Stream
    <3> QED BY <3>1, <3>2, <3>3
  <2>2. key \in NonceKey
    BY <2>1 DEF NonceKey
  <2>3. stream' \in [Pods -> Stream]
    <3>0. stream[p] \in Stream
      BY DEF TypeOK
    <3>1. [stream[p] EXCEPT !.pc = "response", !.version = v, !.nonce = n] \in Stream
      <4> HIDE DEF v, n
      <4> QED BY <3>0, <2>1 DEF Stream
    <3>2. stream' = [stream EXCEPT ![p] = [stream[p] EXCEPT !.pc = "response", !.version = v, !.nonce = n]]
      BY <1>2 DEF SendResponse, TypeOK, Stream
    <3> QED BY <3>1, <3>2 DEF TypeOK
  <2>4. nonces' \in Seq(NonceKey \cup {None})
    <3>1. CASE p \in Named
      <4>1. WriteResponseNonce(key)
        BY <3>1, <1>2 DEF SendResponse
      <4> HIDE DEF key
      <4> QED BY <4>1, <2>2, WriteNonceType
    <3>2. CASE p \notin Named
      BY <3>2, <1>2 DEF SendResponse, TypeOK
    <3> QED BY <3>1, <3>2
  <2> HIDE DEF v, n
  <2> QED BY <2>3, <2>4, <1>2 DEF SendResponse, TypeOK
<1>3. ASSUME NEW p \in Pods, Accept(p) PROVE TypeOK'
  <2>1. stream[p].version \in Versions \cup {None}
    BY DEF TypeOK, Stream
  <2>2. stream' \in [Pods -> Stream]
    BY <2>1, <1>3, <1>W DEF Accept
  <2> QED BY <2>2, <1>3 DEF Accept, TypeOK
<1>4. ASSUME NEW p \in Pods, Reject(p) PROVE TypeOK'
  <2>1. stream[p].accepted \in Versions \cup {None}
    BY DEF TypeOK, Stream
  <2>2. rejecters' \subseteq Pods \X Versions
    BY <1>4 DEF Reject, TypeOK
  <2> DEFINE keys == NonceKeys(NodeOf[p], PodName(p), stream[p].nonce)
  <2>3. CASE \E i \in keys :
                /\ keys = {i}
                /\ stream' = [stream EXCEPT ![p].pc = "count", ![p].version = nonces[i].version,
                                            ![p].count = NackCounter(NodeOf[p], nonces[i].version, p)]
                /\ misled' = IF p \in erased THEN misled \cup {<<p, nonces[i].version>>} ELSE misled
    <3>1. PICK i \in keys :
                /\ stream' = [stream EXCEPT ![p].pc = "count", ![p].version = nonces[i].version,
                                            ![p].count = NackCounter(NodeOf[p], nonces[i].version, p)]
                /\ misled' = IF p \in erased THEN misled \cup {<<p, nonces[i].version>>} ELSE misled
      BY <2>3
    <3> DEFINE w == nonces[i].version  c == NackCounter(NodeOf[p], nonces[i].version, p)
    <3>2. nonces[i] \in NonceKey
      BY DEF TypeOK, NonceKeys
    <3>3. w \in Versions /\ NodeOf[p] \in Nodes
      BY <3>2 DEF NonceKey
    <3>4. c \in 0..Threshold
      BY <3>3 DEF NackCounter, TypeOK
    <3>5. [stream[p] EXCEPT !.pc = "count", !.version = w, !.count = c] \in Stream
      <4>1. stream[p] \in Stream
        BY DEF TypeOK
      <4> HIDE DEF w, c
      <4> QED BY <4>1, <3>3, <3>4 DEF Stream
    <3>6. stream' = [stream EXCEPT ![p] = [stream[p] EXCEPT !.pc = "count", !.version = w, !.count = c]]
      BY <3>1 DEF TypeOK, Stream
    <3>7. stream' \in [Pods -> Stream]
      <4> HIDE DEF w, c
      <4> QED BY <3>5, <3>6 DEF TypeOK
    <3>8. misled' \subseteq Pods \X Versions
      <4>1. misled' = IF p \in erased THEN misled \cup {<<p, w>>} ELSE misled
        BY <3>1
      <4> HIDE DEF w
      <4> QED BY <4>1, <3>3 DEF TypeOK
    <3> QED BY <3>7, <3>8, <2>2, <1>4 DEF Reject, TypeOK
  <2>4. CASE Watch(p, stream[p].accepted) /\ UNCHANGED misled
    <3>1. stream' \in [Pods -> Stream]
      BY <2>1, <2>4, <1>W
    <3> QED BY <3>1, <2>2, <2>4, <1>4 DEF Reject, TypeOK
  <2> QED BY <2>3, <2>4, <1>4 DEF Reject
<1>5. ASSUME NEW p \in Pods, CountNack(p) PROVE TypeOK'
  <2>1. stream[p].accepted \in Versions \cup {None} /\ stream[p].count \in 0..Threshold
    BY DEF TypeOK, Stream
  <2>2. stream' \in [Pods -> Stream]
    BY <2>1, <1>5, <1>W DEF CountNack
  <2>3. (IF stream[p].count < Threshold THEN stream[p].count + 1 ELSE stream[p].count) \in 0..Threshold
    BY <2>1
  <2>4. nacks' \in [Nodes \X Versions \X Pods -> 0..Threshold]
    BY <2>3, <1>5 DEF CountNack, SetCounter, TypeOK
  <2> QED BY <2>2, <2>4, <1>5 DEF CountNack, TypeOK
<1>6. ASSUME NEW p \in Pods, CloseStream(p) PROVE TypeOK'
  <2>1. [NewStream EXCEPT !.accepted = stream[p].accepted] \in Stream
    <3>1. stream[p].accepted \in Versions \cup {None}
      BY DEF TypeOK, Stream
    <3> QED BY <3>1 DEF Stream, NewStream
  <2>2. stream' \in [Pods -> Stream]
    BY <2>1, <1>6 DEF CloseStream, TypeOK
  <2> QED BY <2>2, <1>6 DEF CloseStream, TypeOK
<1>7. ASSUME NEW p \in Pods, DeletePod(p) PROVE TypeOK'
  BY <1>7 DEF DeletePod, TypeOK
<1>8. ASSUME NEW p \in Pods, CollectStats(p) PROVE TypeOK'
  <2>1. doomed' \in [Deleters -> KeySets]
    <3>1. FilterKeys(p) \in KeySets
      BY FilterKeysType
    <3> QED BY <3>1, <1>8 DEF CollectStats, TypeOK, KeySets
  <2> QED BY <2>1, <1>8 DEF CollectStats, TypeOK, KeySets
<1>9. ASSUME NEW p \in Pods, MissDeletion(p) PROVE TypeOK'
  BY <1>9 DEF MissDeletion, TypeOK
<1>10. ASSUME NEW n \in Nodes, NEW v \in Versions, SetSnapshot(n, v) PROVE TypeOK'
  BY <1>10 DEF SetSnapshot, TypeOK
<1>11. ASSUME NEW n \in Nodes, CleanupStats(n) PROVE TypeOK'
  <2>1. doomed' \in [Deleters -> KeySets]
    <3>1. FilterKeys(n) \in KeySets
      BY FilterKeysType
    <3> QED BY <3>1, <1>11 DEF CleanupStats, TypeOK, KeySets
  <2>2. spent' \in [{"snapshots", "cleanups"} -> Nat]
    BY <1>11 DEF CleanupStats, TypeOK
  <2> QED BY <2>1, <2>2, <1>11 DEF CleanupStats, TypeOK, KeySets
<1>12. ASSUME NEW n \in Nodes, ClearSnapshot(n) PROVE TypeOK'
  <2>1. ASSUME NEW p \in Pods PROVE [stream[p] EXCEPT !.pc = "unwatched"] \in Stream
    <3>1. stream[p] \in Stream
      BY DEF TypeOK
    <3> QED BY <3>1 DEF Stream
  <2>2. stream' \in [Pods -> Stream]
    BY <2>1, <1>12 DEF ClearSnapshot, TypeOK
  <2> QED BY <2>2, <1>12 DEF ClearSnapshot, TypeOK
<1>13. ASSUME ExpireNonce PROVE TypeOK'
  <2>1. nonces' \in Seq(NonceKey \cup {None})
    BY <1>13, ExpireType
  <2> QED BY <2>1, <1>13 DEF ExpireNonce, TypeOK
<1>14. CASE UNCHANGED vars
  BY <1>14 DEF vars, TypeOK
<1>15. ASSUME NEW d \in Deleters, NEW k \in doomed[d].requests, DeleteRequest(d, k) PROVE TypeOK'
  <2>1. doomed[d] \in KeySets
    BY DEF TypeOK, KeySets
  <2>2. [doomed[d] EXCEPT !.requests = @ \ {k}] \in KeySets
    BY <2>1 DEF KeySets
  <2>3. doomed' = [doomed EXCEPT ![d] = [doomed[d] EXCEPT !.requests = @ \ {k}]]
    BY <2>1, <1>15 DEF DeleteRequest, TypeOK, KeySets
  <2>4. doomed' \in [Deleters -> KeySets]
    BY <2>2, <2>3 DEF TypeOK, KeySets
  <2> QED BY <2>4, <1>15 DEF DeleteRequest, TypeOK, KeySets
<1>16. ASSUME NEW d \in Deleters, NEW k \in doomed[d].nonces, DeleteNonce(d, k) PROVE TypeOK'
  <2>1. doomed[d] \in KeySets
    BY DEF TypeOK, KeySets
  <2>2. [doomed[d] EXCEPT !.nonces = @ \ {k}] \in KeySets
    BY <2>1 DEF KeySets
  <2>3. doomed' = [doomed EXCEPT ![d] = [doomed[d] EXCEPT !.nonces = @ \ {k}]]
    BY <2>1, <1>16 DEF DeleteNonce, TypeOK, KeySets
  <2>4. doomed' \in [Deleters -> KeySets]
    BY <2>2, <2>3 DEF TypeOK, KeySets
  <2>5. nonces' \in Seq(NonceKey \cup {None})
    BY <1>16, DeleteNonceType
  <2> QED BY <2>4, <2>5, <1>16 DEF DeleteNonce, TypeOK, KeySets
<1>17. ASSUME NEW d \in Deleters, NEW k \in doomed[d].nacks, DeleteNack(d, k) PROVE TypeOK'
  <2>1. doomed[d] \in KeySets
    BY DEF TypeOK, KeySets
  <2>2. [doomed[d] EXCEPT !.nacks = @ \ {k}] \in KeySets
    BY <2>1 DEF KeySets
  <2>3. doomed' = [doomed EXCEPT ![d] = [doomed[d] EXCEPT !.nacks = @ \ {k}]]
    BY <2>1, <1>17 DEF DeleteNack, TypeOK, KeySets
  <2>4. doomed' \in [Deleters -> KeySets]
    BY <2>2, <2>3 DEF TypeOK, KeySets
  <2>5. nacks' \in [Nodes \X Versions \X Pods -> 0..Threshold]
    BY <1>17 DEF DeleteNack, TypeOK
  <2> QED BY <2>4, <2>5, <1>17 DEF DeleteNack, TypeOK, KeySets
<1> QED BY <1>1, <1>2, <1>3, <1>4, <1>5, <1>6, <1>7, <1>8, <1>9, <1>10, <1>11, <1>12, <1>13, <1>14,
           <1>15, <1>16, <1>17
        DEF Next, Callback, DeleteKey

-----------------------------------------------------------------------------
(***************************************************************************)
(* What is counted has been sent.                                          *)
(***************************************************************************)

\* A step that leaves the nonces alone and makes no stream wait for an answer keeps
\* what is known of the keys.
LEMMA KeysFrame ==
    ASSUME OwnKeyIsLast, KeysOfNode, UNCHANGED nonces, erased \subseteq erased',
           \A p \in Pods : stream'[p].pc = "response" => stream'[p] = stream[p]
    PROVE  OwnKeyIsLast' /\ KeysOfNode'
<1>1. KeysOfNode'
  BY DEF KeysOfNode
<1>2. OwnKeyIsLast'
  <2> SUFFICES ASSUME NEW p \in Pods, stream'[p].pc = "response", p \notin erased',
                      NEW i \in DOMAIN nonces', nonces'[i] # None, nonces'[i].pod = p
               PROVE  \E j \in i..Len(nonces') : nonces'[j] = OwnKey(p)'
    BY DEF OwnKeyIsLast
  <2>1. stream'[p] = stream[p]
    OBVIOUS
  <2>2. OwnKey(p)' = OwnKey(p)
    BY <2>1 DEF OwnKey
  <2> QED BY <2>1, <2>2 DEF OwnKeyIsLast
<1> QED BY <1>1, <1>2

\* A pod whose own key is not deleted still has it as the last one.
LEMMA DeleteNonceKeeps ==
    ASSUME TypeOK, OwnKeyIsLast, KeysOfNode, NEW d \in Deleters, NEW k, DeleteNonce(d, k)
    PROVE  OwnKeyIsLast' /\ KeysOfNode'
<1>1. /\ Len(nonces') = Len(nonces) /\ Len(nonces) \in Nat
      /\ DOMAIN nonces = 1..Len(nonces) /\ DOMAIN nonces' = DOMAIN nonces
      /\ \A i \in DOMAIN nonces : nonces'[i] = IF nonces[i] = k THEN None ELSE nonces[i]
  BY DeleteNonceType
<1>2. KeysOfNode'
  BY <1>1 DEF KeysOfNode
<1>3. UNCHANGED stream /\ erased' = erased \cup {p \in Pods : stream[p].pc = "response" /\ OwnKey(p) = k}
  BY DEF DeleteNonce
<1>4. OwnKeyIsLast'
  <2> SUFFICES ASSUME NEW p \in Pods, stream[p].pc = "response", p \notin erased',
                      NEW i \in DOMAIN nonces, nonces'[i] # None, nonces'[i].pod = p
               PROVE  \E j \in i..Len(nonces) : nonces'[j] = OwnKey(p)
    BY <1>1, <1>3 DEF OwnKeyIsLast, OwnKey
  <2>1. p \notin erased /\ OwnKey(p) # k
    BY <1>3
  <2>2. nonces'[i] = nonces[i]
    BY <1>1
  <2>3. PICK j \in i..Len(nonces) : nonces[j] = OwnKey(p)
    BY <2>1, <2>2 DEF OwnKeyIsLast
  <2>4. nonces'[j] = nonces[j]
    BY <2>1, <2>3, <1>1
  <2> QED BY <2>3, <2>4
<1> QED BY <1>2, <1>4

\* ReportNACK finds the version of the response that is answered, if it finds one and
\* the key of the response has not been deleted.
LEMMA NackFindsItsVersion ==
    ASSUME DistinctNames, TypeOK, OwnKeyIsLast, StreamInv, NEW p \in Pods, stream[p].pc = "response",
           p \notin erased, NEW i \in DOMAIN nonces, NonceKeys(NodeOf[p], PodName(p), stream[p].nonce) = {i}
    PROVE  nonces[i].version = stream[p].version
<1>1. /\ nonces[i] # None /\ nonces[i] \in NonceKey
      /\ Matches(PodName(p), NonceParts(nonces[i]))
  <2>1. i \in NonceKeys(NodeOf[p], PodName(p), stream[p].nonce)
    OBVIOUS
  <2> QED BY <2>1 DEF NonceKeys, TypeOK
<1>2. nonces[i].node \in Nodes /\ nonces[i].pod \in Pods /\ nonces[i].version \in Versions /\ NodeOf[p] \in Nodes
  BY <1>1 DEF NonceKey
<1>3. PodName(p) = nonces[i].node \/ PodName(p) = nonces[i].pod
  <2>1. PICK part \in NonceParts(nonces[i]) : <<PodName(p), part>> \in Within
    BY <1>1 DEF Matches
  <2>2. part \in {nonces[i].node, nonces[i].pod} \/ part \in Versions \cup Texts
    BY <1>2 DEF NonceParts, Texts
  <2>3. PodName(p) \in Names /\ part \in Names \cup Versions \cup Texts
    BY <1>2, <2>2 DEF Names, PodIDs, PodName
  <2>4. PodName(p) = part
    BY <2>1, <2>3 DEF DistinctNames
  <2> QED BY <2>2, <2>3, <2>4 DEF DistinctNames
<1>4. PodName(p) = p /\ nonces[i].pod = p
  BY <1>2, <1>3 DEF DistinctNames, PodIDs, PodName
<1>5. PICK j \in i..Len(nonces) : nonces[j] = OwnKey(p)
  BY <1>1, <1>4 DEF OwnKeyIsLast
<1>6. j \in DOMAIN nonces /\ OwnKey(p) \in NonceKey
  <2>1. DOMAIN nonces = 1..Len(nonces) /\ Len(nonces) \in Nat
    BY DEF TypeOK
  <2>2. stream[p].version \in Versions /\ stream[p].nonce \in Nat
    BY DEF TypeOK, StreamInv, Stream
  <2> QED BY <2>1, <2>2, <1>2, <1>5 DEF OwnKey, NonceKey
<1>7. nonces[j] # None
  BY <1>5, <1>6
<1>8. j \in NonceKeys(NodeOf[p], PodName(p), stream[p].nonce)
  <2>1. nonces[j].node = NodeOf[p] /\ nonces[j].pod = p /\ nonces[j].nonce = stream[p].nonce
    <3>1. OwnKey(p).node = NodeOf[p] /\ OwnKey(p).pod = p /\ OwnKey(p).nonce = stream[p].nonce
      BY DEF OwnKey
    <3> QED BY <3>1, <1>5
  <2>2. <<NodeOf[p], NodeOf[p]>> \in Within /\ <<p, p>> \in Within
    BY <1>2 DEF Names, PodIDs
  <2>3. Matches(NodeOf[p], NonceParts(nonces[j])) /\ Matches(p, NonceParts(nonces[j]))
    BY <2>1, <2>2 DEF Matches, NonceParts
  <2>4. NonceMatches(stream[p].nonce, stream[p].nonce)
    BY DEF NonceMatches
  <2> QED BY <2>1, <2>3, <2>4, <1>4, <1>6, <1>7 DEF NonceKeys
<1> QED BY <1>5, <1>8 DEF OwnKey

\* Every step keeps CountInv.
LEMMA CountStep ==
    ASSUME DistinctNames, CountInv, [Next]_vars
    PROVE  CountInv'
<1> USE DEF cluster, store, history
<1>0. TypeOK /\ TypeOK' /\ OwnKeyIsLast /\ KeysOfNode /\ StreamInv /\ CountedWereSent
  BY TypeStep DEF CountInv
<1>1. ASSUME NEW p \in Pods, OpenStream(p) \/ Accept(p) \/ CloseStream(p) PROVE CountInv'
  <2>1. /\ UNCHANGED <<nonces, nacks, rejecters, misled, erased>>
        /\ \A q \in Pods : q # p => stream'[q] = stream[q]
        /\ stream'[p].pc \in {"watch", "closed"}
    BY <1>0, <1>1 DEF OpenStream, Accept, CloseStream, Watch, NewStream, TypeOK
  <2>2. OwnKeyIsLast' /\ KeysOfNode'
    BY <2>1, <1>0, KeysFrame
  <2>3. StreamInv' /\ CountedWereSent'
    BY <2>1, <1>0 DEF StreamInv, CountedWereSent
  <2> QED BY <2>2, <2>3, <1>0 DEF CountInv
<1>2. ASSUME NEW p \in Pods, SendResponse(p) PROVE CountInv'
  <2> DEFINE v == served[NodeOf[p]]  n == stream[p].nonce + 1
             key == [node |-> NodeOf[p], version |-> v, pod |-> p, nonce |-> n]
  <2>1. v \in Versions /\ n \in Nat /\ NodeOf[p] \in Nodes
    BY <1>0, <1>2 DEF SendResponse, TypeOK, Stream
  <2>2. key \in NonceKey /\ key.pod = p /\ key.node = NodeOf[p]
    BY <2>1 DEF NonceKey
  <2>3. /\ UNCHANGED <<nacks, rejecters, misled>> /\ erased' = erased \ {p}
        /\ \A q \in Pods : q # p => stream'[q] = stream[q]
        /\ stream'[p].pc = "response" /\ stream'[p].version = v /\ stream'[p].nonce = n
    BY <1>0, <1>2 DEF SendResponse, TypeOK, Stream
  <2>4. OwnKey(p)' = key
    BY <2>3 DEF OwnKey
  <2>5. StreamInv' /\ CountedWereSent'
    <3> HIDE DEF v, n
    <3> QED BY <2>1, <2>3, <1>0 DEF StreamInv, CountedWereSent
  <2> HIDE DEF key, v, n
  <2>6. CASE p \notin Named
    <3>1. UNCHANGED nonces
      BY <1>2, <2>6 DEF SendResponse
    <3>2. KeysOfNode'
      BY <3>1, <1>0 DEF KeysOfNode
    <3>3. OwnKeyIsLast'
      <4> SUFFICES ASSUME NEW q \in Pods, stream'[q].pc = "response", q \notin erased',
                          NEW i \in DOMAIN nonces, nonces[i] # None, nonces[i].pod = q
                   PROVE  \E j \in i..Len(nonces) : nonces[j] = OwnKey(q)'
        BY <3>1 DEF OwnKeyIsLast
      <4>1. q # p
        BY <2>6, <1>0 DEF KeysOfNode
      <4>2. stream'[q] = stream[q] /\ OwnKey(q)' = OwnKey(q)
        BY <4>1, <2>3 DEF OwnKey
      <4>3. q \notin erased
        BY <4>1, <2>3
      <4> QED BY <4>2, <4>3, <1>0 DEF OwnKeyIsLast
    <3> QED BY <3>2, <3>3, <2>5, <1>0 DEF CountInv
  <2>7. CASE p \in Named
    <3>1. WriteResponseNonce(key)
      BY <1>2, <2>7 DEF SendResponse, key, v, n
    <3> DEFINE m == Len(nonces')
    <3>2. m \in Nat \ {0} /\ nonces'[m] = key /\ DOMAIN nonces' = 1..m
          /\ nonces' \in Seq(NonceKey \cup {None})
      BY <3>1, <2>2, <1>0, WriteNonceType
    <3>3. PICK d \in Nat : \A i \in 1..m - 1 :
                 /\ i + d \in 1..Len(nonces) /\ m - 1 + d = Len(nonces)
                 /\ nonces'[i] = IF nonces[i + d] = key THEN None ELSE nonces[i + d]
      BY <3>1, <2>2, <1>0, WriteNonceType
    <3>4. DOMAIN nonces = 1..Len(nonces) /\ Len(nonces) \in Nat
      BY <1>0 DEF TypeOK
    <3> HIDE DEF m
    <3>5. KeysOfNode'
      <4> SUFFICES ASSUME NEW i \in 1..m, nonces'[i] # None
                   PROVE  nonces'[i].node = NodeOf[nonces'[i].pod] /\ nonces'[i].pod \in Named
        BY <3>2 DEF KeysOfNode
      <4>1. CASE i = m
        BY <4>1, <3>2, <2>2, <2>7
      <4>2. CASE i \in 1..m - 1
        BY <4>2, <3>3, <3>4, <1>0 DEF KeysOfNode
      <4> QED BY <4>1, <4>2, <3>2
    <3>6. OwnKeyIsLast'
      <4> SUFFICES ASSUME NEW q \in Pods, stream'[q].pc = "response", q \notin erased',
                          NEW i \in 1..m, nonces'[i] # None, nonces'[i].pod = q
                   PROVE  \E j \in i..m : nonces'[j] = OwnKey(q)'
        BY <3>2 DEF OwnKeyIsLast, m
      <4>1. CASE q = p
        BY <4>1, <3>2, <2>4
      <4>2. CASE q # p
        <5>1. i \in 1..m - 1 /\ stream'[q] = stream[q] /\ OwnKey(q)' = OwnKey(q)
          BY <4>2, <3>2, <2>2, <2>3 DEF OwnKey
        <5>2. i + d \in 1..Len(nonces) /\ nonces'[i] = nonces[i + d] /\ m - 1 + d = Len(nonces)
          BY <5>1, <3>3
        <5>0. q \notin erased
          BY <4>2, <2>3
        <5>3. PICK j \in (i + d)..Len(nonces) : nonces[j] = OwnKey(q)
          BY <5>0, <5>1, <5>2, <3>4, <1>0 DEF OwnKeyIsLast
        <5>4. j - d \in i..m - 1 /\ j - d \in 1..m - 1 /\ (j - d) + d = j
          BY <5>2, <5>3, <3>4, <3>2
        <5>5. nonces[j] # key
          BY <5>3, <4>2, <2>2 DEF OwnKey
        <5>6. nonces'[j - d] = OwnKey(q)
          BY <5>3, <5>4, <5>5, <3>3
        <5> QED BY <5>1, <5>4, <5>6, <3>2
      <4> QED BY <4>1, <4>2
    <3> QED BY <3>5, <3>6, <2>5, <1>0 DEF CountInv
  <2> QED BY <2>6, <2>7
<1>3. ASSUME NEW p \in Pods, Reject(p) PROVE CountInv'
  <2> DEFINE keys == NonceKeys(NodeOf[p], PodName(p), stream[p].nonce)
  <2>1. /\ UNCHANGED <<nonces, nacks>> /\ rejecters' = rejecters \cup {<<p, stream[p].version>>}
        /\ stream[p].pc = "response" /\ UNCHANGED erased /\ misled \subseteq misled'
    BY <1>3 DEF Reject
  <2>2. CountedWereSent'
    BY <2>1, <1>0 DEF CountedWereSent
  <2>3. CASE Watch(p, stream[p].accepted) /\ UNCHANGED misled
    <3>1. \A q \in Pods : q # p => stream'[q] = stream[q]
      BY <2>3, <1>0 DEF Watch, TypeOK
    <3>2. stream'[p].pc = "watch"
      BY <2>3, <1>0 DEF Watch, TypeOK
    <3>3. OwnKeyIsLast' /\ KeysOfNode' /\ StreamInv'
      BY <3>1, <3>2, <2>1, <1>0, KeysFrame DEF StreamInv
    <3> QED BY <3>3, <2>2, <1>0 DEF CountInv
  <2>4. CASE \E i \in keys :
                /\ keys = {i}
                /\ stream' = [stream EXCEPT ![p].pc = "count", ![p].version = nonces[i].version,
                                            ![p].count = NackCounter(NodeOf[p], nonces[i].version, p)]
                /\ misled' = IF p \in erased THEN misled \cup {<<p, nonces[i].version>>} ELSE misled
    <3>1. PICK i \in keys :
                /\ keys = {i}
                /\ stream' = [stream EXCEPT ![p].pc = "count", ![p].version = nonces[i].version,
                                            ![p].count = NackCounter(NodeOf[p], nonces[i].version, p)]
                /\ misled' = IF p \in erased THEN misled \cup {<<p, nonces[i].version>>} ELSE misled
      BY <2>4
    <3>2. i \in DOMAIN nonces /\ nonces[i].version \in Versions
      <4>1. i \in DOMAIN nonces /\ nonces[i] # None
        BY DEF NonceKeys
      <4>2. nonces[i] \in NonceKey
        BY <4>1, <1>0 DEF TypeOK
      <4> QED BY <4>1, <4>2 DEF NonceKey
    <3>3. <<p, nonces[i].version>> \in rejecters' \cup misled'
      <4>1. CASE p \in erased
        BY <4>1, <3>1
      <4>2. CASE p \notin erased
        <5>1. nonces[i].version = stream[p].version
          BY <4>2, <3>1, <3>2, <2>1, <1>0, NackFindsItsVersion
        <5> QED BY <5>1, <2>1
      <4> QED BY <4>1, <4>2
    <3>4. /\ \A q \in Pods : q # p => stream'[q] = stream[q]
          /\ stream'[p].pc = "count" /\ stream'[p].version = nonces[i].version
      BY <3>1, <1>0 DEF TypeOK, Stream
    <3>5. OwnKeyIsLast' /\ KeysOfNode'
      BY <3>4, <2>1, <1>0, KeysFrame
    <3>6. StreamInv'
      BY <3>2, <3>3, <3>4, <2>1, <1>0 DEF StreamInv
    <3> QED BY <3>5, <3>6, <2>2, <1>0 DEF CountInv
  <2> QED BY <2>3, <2>4, <1>3 DEF Reject
<1>4. ASSUME NEW p \in Pods, CountNack(p) PROVE CountInv'
  <2>1. /\ UNCHANGED <<nonces, rejecters, misled, erased>> /\ stream[p].pc = "count"
        /\ \A q \in Pods : q # p => stream'[q] = stream[q]
        /\ stream'[p].pc = "watch"
    BY <1>0, <1>4 DEF CountNack, Watch, TypeOK
  <2>2. OwnKeyIsLast' /\ KeysOfNode' /\ StreamInv'
    BY <2>1, <1>0, KeysFrame DEF StreamInv
  <2>3. <<p, stream[p].version>> \in rejecters \cup misled
    BY <2>1, <1>0 DEF StreamInv
  <2>4. \A k \in Nodes \X Versions \X Pods :
           k # <<NodeOf[p], stream[p].version, p>> => nacks'[k] = nacks[k]
    BY <1>0, <1>4 DEF CountNack, SetCounter, TypeOK
  <2>5. CountedWereSent'
    <3> SUFFICES ASSUME NEW n \in Nodes, NEW v \in Versions, NEW q \in Pods,
                        nacks'[<<n, v, q>>] > 0
                 PROVE  NodeOf[q] = n /\ <<q, v>> \in rejecters \cup misled
      BY <2>1 DEF CountedWereSent
    <3>1. CASE <<n, v, q>> = <<NodeOf[p], stream[p].version, p>>
      BY <3>1, <2>3
    <3>2. CASE <<n, v, q>> # <<NodeOf[p], stream[p].version, p>>
      <4>1. nacks[<<n, v, q>>] > 0
        BY <3>2, <2>4
      <4> QED BY <4>1, <1>0 DEF CountedWereSent
    <3> QED BY <3>1, <3>2
  <2> QED BY <2>2, <2>5, <1>0 DEF CountInv
<1>5. ASSUME UNCHANGED <<nonces, nacks, rejecters, misled, erased, stream>> PROVE CountInv'
  <2>1. OwnKeyIsLast' /\ KeysOfNode' /\ StreamInv' /\ CountedWereSent'
    BY <1>5, <1>0, KeysFrame DEF StreamInv, CountedWereSent
  <2> QED BY <2>1, <1>0 DEF CountInv
<1>6. ASSUME NEW d \in Deleters, NEW k, DeleteNonce(d, k) PROVE CountInv'
  <2>1. UNCHANGED <<nacks, rejecters, misled, stream>>
    BY <1>6 DEF DeleteNonce
  <2>2. OwnKeyIsLast' /\ KeysOfNode'
    BY <1>6, <1>0, DeleteNonceKeeps
  <2>3. StreamInv' /\ CountedWereSent'
    BY <2>1, <1>0 DEF StreamInv, CountedWereSent
  <2> QED BY <2>2, <2>3, <1>0 DEF CountInv
<1>7. ASSUME NEW d \in Deleters, NEW k \in doomed[d].nacks, DeleteNack(d, k) PROVE CountInv'
  <2>1. UNCHANGED <<nonces, rejecters, misled, erased, stream>>
    BY <1>7 DEF DeleteNack
  <2>2. OwnKeyIsLast' /\ KeysOfNode' /\ StreamInv'
    BY <2>1, <1>0, KeysFrame DEF StreamInv
  <2>3. \A c \in Nodes \X Versions \X Pods : nacks'[c] > 0 => nacks[c] > 0
    BY <1>0, <1>7 DEF DeleteNack, TypeOK
  <2>4. CountedWereSent'
    BY <2>1, <2>3, <1>0 DEF CountedWereSent
  <2> QED BY <2>2, <2>4, <1>0 DEF CountInv
<1>8. ASSUME NEW n \in Nodes, ClearSnapshot(n) PROVE CountInv'
  <2>1. UNCHANGED <<nonces, nacks, rejecters, misled, erased>>
    BY <1>8 DEF ClearSnapshot
  <2>2. \A p \in Pods : stream'[p].pc \in {"response", "count"} => stream'[p] = stream[p]
    BY <1>8, <1>0 DEF ClearSnapshot, TypeOK, Stream
  <2>3. OwnKeyIsLast' /\ KeysOfNode'
    BY <2>1, <2>2, <1>0, KeysFrame
  <2>4. StreamInv' /\ CountedWereSent'
    BY <2>1, <2>2, <1>0 DEF StreamInv, CountedWereSent
  <2> QED BY <2>3, <2>4, <1>0 DEF CountInv
<1>9. ASSUME ExpireNonce PROVE CountInv'
  <2>1. UNCHANGED <<nacks, rejecters, misled, erased, stream>>
    BY <1>9 DEF ExpireNonce
  <2>2. Len(nonces') = Len(nonces) - 1 /\ Len(nonces') \in Nat /\ DOMAIN nonces' = 1..Len(nonces')
        /\ \A i \in 1..Len(nonces') : nonces'[i] = nonces[i + 1]
    BY <1>9, <1>0, ExpireType
  <2>3. DOMAIN nonces = 1..Len(nonces) /\ Len(nonces) \in Nat
    BY <1>0 DEF TypeOK
  <2>0. \A i \in 1..Len(nonces') : i + 1 \in DOMAIN nonces
    <3> SUFFICES ASSUME NEW i \in 1..Len(nonces') PROVE i + 1 \in 1..Len(nonces)
      BY <2>3
    <3>1. Len(nonces') = Len(nonces) - 1
      BY <2>2
    <3> QED BY <3>1, <2>3
  <2>4. KeysOfNode'
    <3> SUFFICES ASSUME NEW i \in 1..Len(nonces'), nonces'[i] # None
                 PROVE  nonces'[i].node = NodeOf[nonces'[i].pod] /\ nonces'[i].pod \in Named
      BY <2>2 DEF KeysOfNode
    <3>1. nonces'[i] = nonces[i + 1]
      BY <2>2
    <3> QED BY <3>1, <2>0, <1>0 DEF KeysOfNode
  <2>5. OwnKeyIsLast'
    <3> SUFFICES ASSUME NEW p \in Pods, stream[p].pc = "response", p \notin erased,
                        NEW i \in 1..Len(nonces'), nonces'[i] # None, nonces'[i].pod = p
                 PROVE  \E j \in i..Len(nonces') : nonces'[j] = OwnKey(p)
      BY <2>1, <2>2 DEF OwnKeyIsLast, OwnKey
    <3>1. nonces[i + 1] # None /\ nonces[i + 1].pod = p /\ i + 1 \in 1..Len(nonces)
      <4>1. nonces'[i] = nonces[i + 1]
        BY <2>2
      <4> QED BY <4>1, <2>0, <2>3
    <3>2. PICK j \in (i + 1)..Len(nonces) : nonces[j] = OwnKey(p)
      BY <3>1, <2>3, <1>0 DEF OwnKeyIsLast
    <3>3. j - 1 \in i..Len(nonces') /\ j - 1 \in 1..Len(nonces') /\ (j - 1) + 1 = j
      <4>1. i \in Nat /\ j \in Int /\ i + 1 <= j /\ j <= Len(nonces) /\ 1 <= i
        BY <3>2, <2>2, <2>3
      <4>2. Len(nonces') = Len(nonces) - 1 /\ Len(nonces) \in Nat
        BY <2>2, <2>3
      <4> QED BY <4>1, <4>2
    <3>4. nonces'[j - 1] = OwnKey(p)
      BY <3>2, <3>3, <2>2
    <3> QED BY <3>3, <3>4
  <2>6. StreamInv' /\ CountedWereSent'
    BY <2>1, <1>0 DEF StreamInv, CountedWereSent
  <2> QED BY <2>4, <2>5, <2>6, <1>0 DEF CountInv
<1>10. CASE UNCHANGED vars
  BY <1>5, <1>10 DEF vars
<1>11. ASSUME NEW p \in Pods, DeletePod(p) \/ MissDeletion(p) \/ CollectStats(p) PROVE CountInv'
  BY <1>5, <1>11 DEF DeletePod, MissDeletion, CollectStats
<1>12. ASSUME NEW n \in Nodes, CleanupStats(n) PROVE CountInv'
  BY <1>5, <1>12 DEF CleanupStats
<1>13. ASSUME NEW n \in Nodes, NEW v \in Versions, SetSnapshot(n, v) PROVE CountInv'
  BY <1>5, <1>13 DEF SetSnapshot
<1>14. ASSUME NEW d \in Deleters, NEW k, DeleteRequest(d, k) PROVE CountInv'
  BY <1>5, <1>14 DEF DeleteRequest
<1> QED BY <1>1, <1>2, <1>3, <1>4, <1>6, <1>7, <1>8, <1>9, <1>10, <1>11, <1>12, <1>13, <1>14
        DEF Next, Callback, DeleteKey

\* Names being distinct, a NACK is counted for the version it rejects and the pod
\* that sent it (ReportNACK), however nonces repeat and expire, unless it arrives when
\* DeleteKeysByFilter has deleted the key of its response but not yet an older one.
THEOREM NacksAreAttributed ==
    ASSUME DistinctNames
    PROVE  Spec => []CountedWereSent
<1>1. Init => CountInv
  <2> SUFFICES ASSUME Init PROVE CountInv
    OBVIOUS
  <2>1. OwnKeyIsLast /\ KeysOfNode
    BY DEF Init, OwnKeyIsLast, KeysOfNode
  <2>2. StreamInv /\ CountedWereSent
    BY DEF Init, StreamInv, CountedWereSent, NewStream
  <2> QED BY <2>1, <2>2, TypeInit DEF CountInv
<1>2. CountInv /\ [Next]_vars => CountInv'
  BY CountStep
<1>3. CountInv => CountedWereSent
  BY DEF CountInv
<1> QED BY <1>1, <1>2, <1>3, PTL DEF Spec

-----------------------------------------------------------------------------
(***************************************************************************)
(* Failing is unanimous.                                                   *)
(***************************************************************************)

\* Pods with a stream are subscribed, if that was not forgotten.
SubscribedInv ==
    \A p \in Pods \ forgotten : stream[p].pc # "closed" => <<NodeOf[p], PodName(p)>> \in requests

\* Every step keeps SubscribedInv.
LEMMA SubscribedStep ==
    ASSUME TypeOK, SubscribedInv, [Next]_vars
    PROVE  SubscribedInv'
<1> USE DEF cluster, store, history
<1>1. ASSUME NEW p \in Pods, OpenStream(p) \/ Callback(p) \/ CloseStream(p) PROVE SubscribedInv'
  <2>1. requests \subseteq requests'
    BY <1>1 DEF OpenStream, Callback, SendResponse, Accept, Reject, CountNack, CloseStream
  <2>2. \A q \in Pods : q # p => stream'[q] = stream[q] /\ (q \in forgotten' <=> q \in forgotten)
    BY <1>1 DEF OpenStream, Callback, SendResponse, Accept, Reject, CountNack, CloseStream, Watch, TypeOK
  <2>3. p \notin forgotten' /\ stream'[p].pc # "closed" => <<NodeOf[p], PodName(p)>> \in requests'
    <3>1. CASE OpenStream(p)
      BY <3>1 DEF OpenStream
    <3>2. CASE Callback(p)
      BY <3>2 DEF Callback, SendResponse, Accept, Reject, CountNack, SubscribedInv
    <3>3. CASE CloseStream(p)
      BY <3>3 DEF CloseStream, NewStream, TypeOK
    <3> QED BY <3>1, <3>2, <3>3, <1>1
  <2> QED BY <2>1, <2>2, <2>3 DEF SubscribedInv
<1>2. ASSUME UNCHANGED <<requests, stream, forgotten>> PROVE SubscribedInv'
  BY <1>2 DEF SubscribedInv
<1>3. ASSUME NEW p \in Pods, DeletePod(p) \/ CollectStats(p) \/ MissDeletion(p) PROVE SubscribedInv'
  BY <1>2, <1>3 DEF DeletePod, CollectStats, MissDeletion
<1>4. ASSUME NEW n \in Nodes, NEW v \in Versions, SetSnapshot(n, v) PROVE SubscribedInv'
  BY <1>2, <1>4 DEF SetSnapshot
<1>5. ASSUME NEW n \in Nodes, CleanupStats(n) PROVE SubscribedInv'
  BY <1>2, <1>5 DEF CleanupStats
<1>6. ASSUME NEW d \in Deleters, NEW k, DeleteRequest(d, k) PROVE SubscribedInv'
  BY <1>6 DEF DeleteRequest, SubscribedInv
<1>7. ASSUME NEW d \in Deleters, NEW k, DeleteNonce(d, k) \/ DeleteNack(d, k) PROVE SubscribedInv'
  BY <1>2, <1>7 DEF DeleteNonce, DeleteNack
<1>8. ASSUME NEW n \in Nodes, ClearSnapshot(n) PROVE SubscribedInv'
  <2>1. UNCHANGED <<requests, forgotten>>
    BY <1>8 DEF ClearSnapshot
  <2>2. \A p \in Pods : stream'[p].pc # "closed" => stream[p].pc # "closed"
    BY <1>8 DEF ClearSnapshot, TypeOK, Stream
  <2> QED BY <2>1, <2>2 DEF SubscribedInv
<1>9. CASE ExpireNonce
  BY <1>2, <1>9 DEF ExpireNonce
<1>10. CASE UNCHANGED vars
  BY <1>2, <1>10 DEF vars
<1> QED BY <1>1, <1>3, <1>4, <1>5, <1>6, <1>7, <1>8, <1>9, <1>10 DEF Next, DeleteKey

\* The invariants imply that failing is unanimous.
LEMMA UnanimityFollows == CountInv /\ SubscribedInv => FailingIsUnanimous
<1> SUFFICES ASSUME CountInv, SubscribedInv, NEW n \in Nodes, NEW v \in Versions, AllFailing(n, v),
                    NEW p \in Pods \ forgotten, NodeOf[p] = n, stream[p].pc # "closed"
             PROVE  p \in Named /\ <<p, v>> \in rejecters \cup misled
  BY DEF FailingIsUnanimous
<1>1. <<n, PodName(p)>> \in requests
  BY DEF SubscribedInv
<1>2. PodName(p) \in GetSubscribedPods(n)
  <2>1. <<n, n>> \in Within
    BY DEF Names
  <2>2. Matches(n, RequestParts(<<n, PodName(p)>>))
    BY <2>1 DEF Matches, RequestParts
  <2> QED BY <2>2, <1>1 DEF GetSubscribedPods
<1>3. NackCounter(n, v, PodName(p)) >= Threshold
  BY <1>2 DEF AllFailing
<1>4. PodName(p) \in Pods /\ nacks[<<n, v, PodName(p)>>] >= Threshold
  BY <1>3 DEF NackCounter
<1>5. p \in Named /\ PodName(p) = p
  BY <1>4 DEF PodName
<1>6. nacks[<<n, v, p>>] > 0
  <2>1. nacks[<<n, v, p>>] \in Nat
    BY DEF CountInv, TypeOK
  <2> QED BY <2>1, <1>4, <1>5
<1> QED BY <1>5, <1>6 DEF CountInv, CountedWereSent

\* Names being distinct, a version is found to fail (GetPercentageFailing) only if
\* every pod that is connected rejected it, but for those whose subscription or whose
\* response's nonce was deleted under their stream.
THEOREM NoPodIsOverruled ==
    ASSUME DistinctNames
    PROVE  Spec => []FailingIsUnanimous
<1>1. Init => CountInv /\ SubscribedInv
  <2> SUFFICES ASSUME Init PROVE CountInv /\ SubscribedInv
    OBVIOUS
  <2>1. OwnKeyIsLast /\ KeysOfNode /\ SubscribedInv
    <3>1. nonces = <<>> /\ \A p \in Pods : stream[p].pc = "closed"
      BY DEF Init, NewStream
    <3>2. DOMAIN nonces = {}
      BY <3>1
    <3> QED BY <3>1, <3>2 DEF OwnKeyIsLast, KeysOfNode, SubscribedInv
  <2>2. StreamInv /\ CountedWereSent
    BY DEF Init, StreamInv, CountedWereSent, NewStream
  <2> QED BY <2>1, <2>2, TypeInit DEF CountInv
<1>2. CountInv /\ SubscribedInv /\ [Next]_vars => CountInv' /\ SubscribedInv'
  BY CountStep, SubscribedStep DEF CountInv
<1> QED BY <1>1, <1>2, UnanimityFollows, PTL DEF Spec
=============================================================================
