--------------------------- MODULE DiscoveryStats ---------------------------
(***************************************************************************)
(* The statistics of the xDS server, from which a revision is tainted: who *)
(* is subscribed to a nodeID, and how often each pod has rejected each     *)
(* version.  They are kept by the callbacks of the pods' ADS streams, by   *)
(* the handler of pod deletions and by CleanupLogic, which run             *)
(* concurrently on one key-value store.                                    *)
(*                                                                         *)
(* One resource type is modelled: every operation selects the keys of one  *)
(* type, or of all types alike.  The aggregated counters, the ack counters *)
(* and the info timestamps only feed metrics and are left out.             *)
(***************************************************************************)
EXTENDS Integers, Sequences, FiniteSets

CONSTANTS
    Nodes,      \* nodeIDs
    Pods,       \* pods, by name
    NodeOf,     \* the nodeID that each pod's Envoy is configured with
    Named,      \* the pods whose Envoy sends its pod_name
    Unknown,    \* the name the callbacks give to the others
    Versions,   \* versions of the resources
    None,       \* no version, no nodeID, no key
    Rejects,    \* which pod rejects which version
    Within,     \* which name is a substring of which part of a key
    Base,       \* of the notation of nonces: 10
    Threshold,  \* NACKs that make a pod fail: 5
    Mortal,       \* bound: the pods that may be deleted
    MaxNonce,     \* bound: responses on one stream of each pod
    MaxWrites,    \* bound: nonces written in ten seconds
    MaxSnapshots, \* bound: snapshots written
    MaxCleanups   \* bound: revisions cleaned up

PodIDs == Pods \cup {Unknown}
Names  == Nodes \cup PodIDs

\* The rest of a key, which only depends on its kind: type URL and stat name.
Texts == {"request_counter", "nonce", "nack_counter"}

\* A key of the store with the stat name nonce:<nonce>.
NonceKey == [node: Nodes, version: Versions, pod: Pods, nonce: Nat]

ASSUME StatsAssumption ==
    /\ NodeOf \in [Pods -> Nodes]
    /\ Named \subseteq Pods
    /\ Unknown \notin Pods
    /\ None \notin Versions \cup Nodes /\ None \notin NonceKey
    /\ Rejects \subseteq Pods \X Versions
    /\ Within \subseteq Names \X (Names \cup Versions \cup Texts)
    /\ \A x \in Names : <<x, x>> \in Within
    /\ Base \in Nat /\ Base >= 2
    /\ Threshold \in Nat \ {0}
    /\ MaxWrites \in Nat \ {0}
    /\ MaxNonce \in [Pods -> Nat]
    /\ {MaxSnapshots, MaxCleanups} \subseteq Nat

\* No name is a part of another one, of a version or of the rest of a key.
DistinctNames ==
    /\ Nodes \cap PodIDs = {}
    /\ Names \cap (Versions \cup Texts) = {}
    /\ \A x \in Names, y \in Names \cup Versions \cup Texts : <<x, y>> \in Within => x = y

VARIABLES
    served,    \* the version in the snapshot of each nodeID
    cleaning,  \* the nodeID that CleanupLogic is working on
    alive,     \* the pods that exist
    deletions, \* the pods whose deletion is on its way to the handler
    stream,    \* the ADS stream of each pod
    requests,  \* the keys request_counter: nodeID and pod
    nonces,    \* the keys nonce:<nonce> written in the last ten seconds, in order
    nacks,     \* the counters nack_counter, up to Threshold
    doomed,    \* the keys that each caller of DeleteKeysByFilter has yet to delete
    rejecters, \* history: which pods have rejected which versions
    forgotten, \* history: the pods with a stream whose subscription has been deleted
    erased,    \* history: the pods whose last response has had its nonce deleted
    misled,    \* history: the versions that NACKs of erased responses were counted for
    spent      \* how much of each bound has been used

cluster == <<alive, deletions>>
store   == <<requests, nonces, nacks>>
history == <<rejecters, forgotten, erased, misled>>
vars    == <<served, cleaning, cluster, stream, store, doomed, history, spent>>

Deleters == {"cleanup", "collect"}  \* CleanupLogic and the handler of pod deletions
NoKeys   == [requests |-> {}, nonces |-> {}, nacks |-> {}]

(***************************************************************************)
(* A stream, as its goroutine in the server sees it:                       *)
(*   watch      waits for a version other than the one Envoy has           *)
(*   response   `version` has been sent with `nonce`                       *)
(*   count      ReportNACK has read `count` for `version`                  *)
(*   unwatched  the cache has dropped its watch                            *)
(* `accepted` is what Envoy has; it outlives the stream.                   *)
(***************************************************************************)
Stream == [pc: {"closed", "watch", "response", "count", "unwatched"}, nonce: Nat,
           accepted: Versions \cup {None}, version: Versions \cup {None}, count: 0..Threshold]

TypeOK ==
    /\ served \in [Nodes -> Versions \cup {None}]
    /\ cleaning \in Nodes \cup {None}
    /\ alive \subseteq Pods /\ deletions \subseteq Pods
    /\ stream \in [Pods -> Stream]
    /\ requests \subseteq Nodes \X PodIDs
    /\ nonces \in Seq(NonceKey \cup {None})
    /\ nacks \in [Nodes \X Versions \X Pods -> 0..Threshold]
    /\ doomed \in [Deleters -> [requests: SUBSET (Nodes \X PodIDs), nonces: SUBSET NonceKey,
                                nacks: SUBSET (Nodes \X Versions \X Pods)]]
    /\ rejecters \subseteq Pods \X Versions /\ misled \subseteq Pods \X Versions
    /\ forgotten \subseteq Pods /\ erased \subseteq Pods
    /\ spent \in [{"snapshots", "cleanups"} -> Nat]

NewStream == [pc |-> "closed", nonce |-> 0, accepted |-> None, version |-> None, count |-> 0]

Init ==
    /\ served = [n \in Nodes |-> None]
    /\ cleaning = None
    /\ alive = Pods /\ deletions = {}
    /\ stream = [p \in Pods |-> NewStream]
    /\ requests = {} /\ nonces = <<>> /\ nacks = [k \in Nodes \X Versions \X Pods |-> 0]
    /\ doomed = [d \in Deleters |-> NoKeys]
    /\ rejecters = {} /\ forgotten = {} /\ erased = {} /\ misled = {}
    /\ spent = [b \in {"snapshots", "cleanups"} |-> 0]

Spend(b) == spent' = [spent EXCEPT ![b] = @ + 1]

-----------------------------------------------------------------------------
(***************************************************************************)
(* The store.                                                              *)
(***************************************************************************)

PodName(p) == IF p \in Named THEN p ELSE Unknown

\* FilterKeys: the filter is looked for in the whole key, so it may be found in any
\* of its parts.
Matches(filter, parts) == \E part \in parts : <<filter, part>> \in Within

RequestParts(k) == {k[1], k[2], "request_counter"}
NonceParts(k)   == {k.node, k.version, k.pod, "nonce"}
NackParts(k)    == {k[1], k[2], k[3], "nack_counter"}

\* "nonce:1" is a substring of "nonce:1" and of "nonce:10".
NonceMatches(filter, nonce) ==
    nonce = filter \/ \E k \in 1..nonce : nonce \div (Base ^ k) = filter

\* Mutant: the filter for the pod is left out.
NonceKeysOfNode(node, pod, nonce) ==
    {i \in DOMAIN nonces : /\ nonces[i] # None
                           /\ Matches(node, NonceParts(nonces[i]))
                           /\ NonceMatches(nonce, nonces[i].nonce)}

NonceKeys(node, pod, nonce) ==
    {i \in DOMAIN nonces : /\ nonces[i] # None
                           /\ Matches(node, NonceParts(nonces[i]))
                           /\ Matches(pod, NonceParts(nonces[i]))
                           /\ NonceMatches(nonce, nonces[i].nonce)}

\* DeleteKeysByFilter takes a copy of the keys that match,
FilterKeys(filter) ==
    [requests |-> {k \in requests : Matches(filter, RequestParts(k))},
     nonces   |-> {nonces[i] : i \in {j \in DOMAIN nonces : /\ nonces[j] # None
                                                           /\ Matches(filter, NonceParts(nonces[j]))}},
     nacks    |-> {k \in DOMAIN nacks : nacks[k] > 0 /\ Matches(filter, NackParts(k))}]

\* The key that the last response to p was written with.
OwnKey(p) == [node |-> NodeOf[p], version |-> stream[p].version, pod |-> p, nonce |-> stream[p].nonce]

\* and deletes them one by one, in the order of a Go map: any.
DeleteRequest(d, k) ==
    /\ k \in doomed[d].requests
    /\ doomed' = [doomed EXCEPT ![d].requests = @ \ {k}]
    /\ requests' = requests \ {k}
    /\ forgotten' = forgotten \cup {p \in Pods : <<NodeOf[p], PodName(p)>> = k /\ stream[p].pc # "closed"}
    /\ UNCHANGED <<served, cleaning, cluster, stream, nonces, nacks, rejecters, erased, misled, spent>>

DeleteNonce(d, k) ==
    /\ k \in doomed[d].nonces
    /\ doomed' = [doomed EXCEPT ![d].nonces = @ \ {k}]
    /\ nonces' = [i \in DOMAIN nonces |-> IF nonces[i] = k THEN None ELSE nonces[i]]
    /\ erased' = erased \cup {p \in Pods : stream[p].pc = "response" /\ OwnKey(p) = k}
    /\ UNCHANGED <<served, cleaning, cluster, stream, requests, nacks, rejecters, forgotten, misled, spent>>

DeleteNack(d, k) ==
    /\ k \in doomed[d].nacks
    /\ doomed' = [doomed EXCEPT ![d].nacks = @ \ {k}]
    /\ nacks' = [nacks EXCEPT ![k] = 0]
    /\ UNCHANGED <<served, cleaning, cluster, stream, requests, nonces, history, spent>>

DeleteKey(d) ==
    \/ \E k \in doomed[d].requests : DeleteRequest(d, k)
    \/ \E k \in doomed[d].nonces : DeleteNonce(d, k)
    \/ \E k \in doomed[d].nacks : DeleteNack(d, k)

GetSubscribedPods(node) == {k[2] : k \in {r \in requests : Matches(node, RequestParts(r))}}

\* GetCounter of a nack_counter: an absent key is as good as zero.
NackCounter(node, version, pod) == IF pod \in Pods THEN nacks[<<node, version, pod>>] ELSE 0

\* IncrementCounter, second half.  What lies beyond Threshold is never told apart.
SetCounter(p, version, count) ==
    nacks' = [nacks EXCEPT ![<<NodeOf[p], version, p>>] = IF count < Threshold THEN count + 1 ELSE count]

\* Mutant: the pods that have not answered yet are left out.
AnsweringFail(node, version) ==
    LET pods == {pod \in GetSubscribedPods(node) : NackCounter(node, version, pod) > 0}
    IN  pods # {} /\ \A pod \in pods : NackCounter(node, version, pod) >= Threshold

\* GetPercentageFailing(node, version) = 1
AllFailing(node, version) ==
    /\ GetSubscribedPods(node) # {}
    /\ \A pod \in GetSubscribedPods(node) : NackCounter(node, version, pod) >= Threshold

-----------------------------------------------------------------------------
(***************************************************************************)
(* The ADS streams.                                                        *)
(***************************************************************************)

\* A request has been handled: the stream waits for another version than Envoy's.
Watch(p, accepted) ==
    stream' = [stream EXCEPT ![p] = [pc |-> "watch", nonce |-> stream[p].nonce, accepted |-> accepted,
                                     version |-> None, count |-> 0]]

\* OnStreamOpen and OnStreamRequest of the first request, which has no nonce:
\* ReportRequest.
OpenStream(p) ==
    /\ p \in alive
    /\ stream[p].pc = "closed"
    /\ Watch(p, stream[p].accepted)
    /\ requests' = requests \cup {<<NodeOf[p], PodName(p)>>}
    /\ forgotten' = forgotten \ {p}
    /\ UNCHANGED <<served, cleaning, cluster, nonces, nacks, doomed, rejecters, erased, misled, spent>>

\* WriteResponseNonce: a key for ten seconds.  A write renews the same key.
WriteResponseNonce(key) ==
    LET others == [i \in DOMAIN nonces |-> IF nonces[i] = key THEN None ELSE nonces[i]]
    IN  nonces' = Append(IF Len(nonces) < MaxWrites THEN others ELSE Tail(others), key)

\* OnStreamResponse.  The nonce is only written if the pod has a name.
SendResponse(p) ==
    LET v == served[NodeOf[p]]
        n == stream[p].nonce + 1
    IN  /\ stream[p].pc = "watch"
        /\ v \notin {None, stream[p].accepted}
        /\ n <= MaxNonce[p]
        /\ stream' = [stream EXCEPT ![p].pc = "response", ![p].version = v, ![p].nonce = n]
        /\ IF p \in Named
           THEN WriteResponseNonce([node |-> NodeOf[p], version |-> v, pod |-> p, nonce |-> n])
           ELSE UNCHANGED nonces
        /\ erased' = erased \ {p}
        /\ UNCHANGED <<served, cleaning, cluster, requests, nacks, doomed, rejecters, forgotten, misled, spent>>

\* OnStreamRequest with a nonce and no error: ReportACK.
Accept(p) ==
    /\ stream[p].pc = "response"
    /\ <<p, stream[p].version>> \notin Rejects
    /\ Watch(p, stream[p].version)
    /\ UNCHANGED <<served, cleaning, cluster, store, doomed, history, spent>>

\* OnStreamRequest with a nonce and an error: ReportNACK up to the read of the counter.
Reject(p) ==
    LET keys == NonceKeys(NodeOf[p], PodName(p), stream[p].nonce)
    IN  /\ stream[p].pc = "response"
        /\ <<p, stream[p].version>> \in Rejects
        /\ rejecters' = rejecters \cup {<<p, stream[p].version>>}
        /\ \/ \E i \in keys :
                /\ keys = {i}
                /\ stream' = [stream EXCEPT ![p].pc = "count", ![p].version = nonces[i].version,
                                            ![p].count = NackCounter(NodeOf[p], nonces[i].version, p)]
                /\ misled' = IF p \in erased THEN misled \cup {<<p, nonces[i].version>>} ELSE misled
           \/ /\ \A i \in keys : keys # {i}
              /\ Watch(p, stream[p].accepted)
              /\ UNCHANGED misled
        /\ UNCHANGED <<served, cleaning, cluster, store, doomed, forgotten, erased, spent>>

\* Mutant: the write of the aggregated counter alone.
CountNackInTotal(p) ==
    /\ stream[p].pc = "count"
    /\ Watch(p, stream[p].accepted)
    /\ UNCHANGED <<served, cleaning, cluster, store, doomed, history, spent>>

\* ReportNACK, the write of the counter; then the backoff.
CountNack(p) ==
    /\ stream[p].pc = "count"
    /\ SetCounter(p, stream[p].version, stream[p].count)
    /\ Watch(p, stream[p].accepted)
    /\ UNCHANGED <<served, cleaning, cluster, requests, nonces, doomed, history, spent>>

\* The connection is lost, or reaches its maximum age.  The callback of the last
\* request runs to its end first.
CloseStream(p) ==
    /\ stream[p].pc \notin {"closed", "count"}
    /\ stream' = [stream EXCEPT ![p] = [NewStream EXCEPT !.accepted = stream[p].accepted]]
    /\ forgotten' = forgotten \ {p}
    /\ UNCHANGED <<served, cleaning, cluster, store, doomed, rejecters, erased, misled, spent>>

\* Ten seconds have passed since the oldest nonce was written.
ExpireNonce ==
    /\ nonces # <<>>
    /\ nonces' = Tail(nonces)
    /\ UNCHANGED <<served, cleaning, cluster, stream, requests, nacks, doomed, history, spent>>

-----------------------------------------------------------------------------
(***************************************************************************)
(* The pods and the revision controller.                                   *)
(***************************************************************************)

\* The server may notice the end of the connection later, and have a NACK left to count.
DeletePod(p) ==
    /\ p \in alive \cap Mortal
    /\ alive' = alive \ {p}
    /\ deletions' = deletions \cup {p}
    /\ UNCHANGED <<served, cleaning, stream, store, doomed, history, spent>>

\* deleteStatsForDeletedPodsFn is given the pod, after it is done with the one before.
CollectStats(p) ==
    /\ p \in deletions
    /\ doomed["collect"] = NoKeys
    /\ deletions' = deletions \ {p}
    /\ doomed' = [doomed EXCEPT !["collect"] = FilterKeys(p)]
    /\ UNCHANGED <<served, cleaning, alive, stream, store, history, spent>>

\* deleteStatsForDeletedPodsFn is given a tombstone: the deletion was missed, and
\* noticed later.
MissDeletion(p) ==
    /\ p \in deletions
    /\ deletions' = deletions \ {p}
    /\ UNCHANGED <<served, cleaning, alive, stream, store, doomed, history, spent>>

\* The revision controller, which has one worker, writes a snapshot.
SetSnapshot(n, v) ==
    /\ cleaning = None
    /\ served[n] # v
    /\ served' = [served EXCEPT ![n] = v]
    /\ spent.snapshots < MaxSnapshots /\ Spend("snapshots")
    /\ UNCHANGED <<cleaning, cluster, stream, store, doomed, history>>

\* CleanupLogic of a published revision: first the statistics of the nodeID,
CleanupStats(n) ==
    /\ cleaning = None
    /\ served[n] # None
    /\ cleaning' = n
    /\ doomed' = [doomed EXCEPT !["cleanup"] = FilterKeys(n)]
    /\ spent.cleanups < MaxCleanups /\ Spend("cleanups")
    /\ UNCHANGED <<served, cluster, stream, store, history>>

\* then its snapshot, and with it the watches the cache holds for the nodeID.
ClearSnapshot(n) ==
    /\ cleaning = n
    /\ doomed["cleanup"] = NoKeys
    /\ cleaning' = None
    /\ served' = [served EXCEPT ![n] = None]
    /\ stream' = [p \in Pods |->
                    IF NodeOf[p] = n /\ stream[p].pc = "watch"
                    THEN [stream[p] EXCEPT !.pc = "unwatched"] ELSE stream[p]]
    /\ UNCHANGED <<cluster, store, doomed, history, spent>>

-----------------------------------------------------------------------------
Callback(p) == SendResponse(p) \/ Accept(p) \/ Reject(p) \/ CountNack(p)

Next ==
    \/ \E p \in Pods : \/ OpenStream(p)
                       \/ Callback(p)
                       \/ CloseStream(p)
                       \/ DeletePod(p)
                       \/ CollectStats(p)
                       \/ MissDeletion(p)
    \/ \E n \in Nodes : \/ \E v \in Versions : SetSnapshot(n, v)
                        \/ CleanupStats(n)
                        \/ ClearSnapshot(n)
    \/ \E d \in Deleters : DeleteKey(d)
    \/ ExpireNonce

Spec == Init /\ [][Next]_vars

\* Envoy reconnects and answers; again and again a connection lasts until a response
\* is sent on it, and a NACK arrives within the ten seconds that its nonce is kept.
\* No connection outlives its maximum age (xds_server.go: 12 hours).  What the server
\* has begun it ends.
Fairness ==
    /\ \A p \in Pods : /\ WF_vars(OpenStream(p))
                       /\ WF_vars(Callback(p))
                       /\ SF_vars(SendResponse(p))
                       /\ SF_vars(Reject(p) /\ stream'[p].pc = "count")
                       /\ WF_vars(CloseStream(p))
    /\ \A n \in Nodes : WF_vars(ClearSnapshot(n))
    /\ \A d \in Deleters : WF_vars(DeleteKey(d))

FairSpec == Spec /\ Fairness

-----------------------------------------------------------------------------
(***************************************************************************)
(* The properties.                                                         *)
(***************************************************************************)

\* A NACK is counted for the version it rejects and the pod that sent it, however
\* nonces repeat on later streams and expire: ReportNACK finds the version through a
\* key that need not be the one of the response (stats.go:39).  The exception is a
\* NACK that arrives between two deletions of DeleteKeysByFilter, when the key of the
\* response is gone and that of an older one is still there.
CountedWereSent ==
    \A n \in Nodes, v \in Versions, p \in Pods :
        nacks[<<n, v, p>>] > 0 => NodeOf[p] = n /\ <<p, v>> \in rejecters \cup misled

\* Every pod subscribed to a nodeID has rejected a version before that version is
\* found to fail, unless its subscription has been deleted under its open stream, or
\* its NACK was counted for the wrong version as above.  A pod that never told its
\* name cannot be overruled.
FailingIsUnanimous ==
    \A n \in Nodes, v \in Versions :
        AllFailing(n, v) =>
            \A p \in Pods \ forgotten :
                NodeOf[p] = n /\ stream[p].pc # "closed" =>
                    p \in Named /\ <<p, v>> \in rejecters \cup misled

\* A version stays in the snapshot of a nodeID, whose pods all reject it and tell
\* their names.
Refused(n, v) ==
    LET pods == {p \in Pods : NodeOf[p] = n}
    IN  /\ served[n] = v /\ cleaning = None
        /\ GetSubscribedPods(n) \subseteq alive
        /\ \E p \in pods : p \in alive
        /\ \A p \in pods : p \in alive => p \in Named /\ <<p, v>> \in Rejects

\* A version that every live pod of a nodeID rejects, and that stays published, is
\* in the end found to fail, whatever was lost before: connections, nonces that
\* expired, streams that CleanupLogic had deleted from the subscribers.  The pods
\* whose deletion was missed must not be counted among the subscribers.
RejectionNoticed ==
    \A n \in Nodes, v \in {r[2] : r \in Rejects} : <>[]Refused(n, v) => <>[]AllFailing(n, v)
=============================================================================
