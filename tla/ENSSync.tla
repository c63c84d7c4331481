------------------------------ MODULE ENSSync ------------------------------
(***************************************************************************)
(* Streams under an ENS name: StreamRegistryV5.createStreamWithENS, the    *)
(* ENSCacheV2Streamr contract, and the script that looks up the owner of   *)
(* the name on the ENS chain and calls back.  All Streams are paths under  *)
(* one ENS name.                                                           *)
(*                                                                         *)
(* The script is one event listener that appends every event to a chain of *)
(* promises (the mutex), so that chain is a queue whose head is handled.   *)
(* An exception that handleEvent throws is an unhandled rejection, which   *)
(* ends the process (node 18); the container is started again.  Events     *)
(* emitted meanwhile, and those on the chain, are lost.                    *)
(***************************************************************************)
EXTENDS StreamRegistry, FiniteSets

CONSTANTS NoOwner,
          MaxRequests, MaxCrashes, MaxTransfers   \* bounds

ASSUME ENSAssumption ==
    NoOwner \notin Users /\ {MaxRequests, MaxCrashes, MaxTransfers} \subseteq Nat

VARIABLES ensOwner,   \* the owner of the name on the ENS chain
          owner,      \* ENSCacheV2Streamr.owners[name]
          events,     \* requests emitted and not delivered to the script yet
          script,     \* what the script does: see Script
          everOwners, \* history: all owners of the name
          requests, crashes  \* history: how many of each

ensVars == <<ensOwner, owner, events, script, everOwners, requests, crashes>>
vars == <<registryVars, ensVars>>

Requests == [stream : Streams, metadata : Metadata, requestor : Users]

Phases == {"check", "exists", "send", "wait"}

\* chain is not empty while an event is handled.  retry: the second attempt is
\* still to come.
Script == [up : BOOLEAN, chain : Seq(Requests), phase : Phases, retry : BOOLEAN]

Started == [up |-> TRUE, chain |-> <<>>, phase |-> "check", retry |-> TRUE]

\* ENSCacheV1 may know an owner already, whom createStreamWithENS does not trust.
Init ==
    /\ RegistryInit
    /\ ensOwner \in Users
    /\ owner = NoOwner
    /\ events = <<>>
    /\ script = Started
    /\ everOwners = {ensOwner}
    /\ requests = 0 /\ crashes = 0

-----------------------------------------------------------------------------
(* The contracts *)

\* createStreamWithENS by the cached owner
CreateAsCachedOwner(s, sender, m) ==
    /\ owner = sender
    /\ CreateStreamAndPermission(s, sender, m)
    /\ UNCHANGED ensVars

\* createStreamWithENS by anyone else: requestENSOwnerAndCreateStream emits an event.
RequestENSOwnerAndCreateStream(s, sender, m) ==
    /\ owner # sender
    /\ requests < MaxRequests
    /\ requests' = requests + 1
    /\ events' = IF script.up
                 THEN Append(events, [stream |-> s, metadata |-> m, requestor |-> sender])
                 ELSE events
    /\ UNCHANGED <<registryVars, ensOwner, owner, script, everOwners, crashes>>

\* fulfillENSOwner and ENScreateStreamCallback, called by the script
FulfillENSOwner(request) ==
    /\ owner' = request.requestor
    /\ CreateStreamAndPermission(request.stream, request.requestor, request.metadata)

-----------------------------------------------------------------------------
(* The script *)

Current == Head(script.chain)

Busy(phase) == script.up /\ script.chain # <<>> /\ script.phase = phase

GoTo(phase) == script' = [script EXCEPT !.phase = phase]

ReleasedNever == [script EXCEPT !.phase = "check", !.retry = TRUE]

\* resolve(true): the next event's turn
Released == [script EXCEPT !.chain = Tail(script.chain), !.phase = "check", !.retry = TRUE]

Release == script' = Released

\* The listener: the mutex is taken in the order of delivery, as every event
\* sleeps for the same time.
Deliver ==
    /\ script.up /\ events # <<>>
    /\ events' = Tail(events)
    /\ script' = [script EXCEPT !.chain = Append(@, Head(events))]
    /\ UNCHANGED <<registryVars, ensOwner, owner, everOwners, requests, crashes>>

CheckNobody ==
    /\ Busy("check")
    /\ GoTo("exists")
    /\ UNCHANGED <<registryVars, ensOwner, owner, events, everOwners, requests, crashes>>

\* handleEvent: only the owner's requests are served, the others are ignored.
CheckOwner ==
    /\ Busy("check")
    /\ IF Current.requestor = ensOwner THEN GoTo("exists") ELSE Release
    /\ UNCHANGED <<registryVars, ensOwner, owner, events, everOwners, requests, crashes>>

\* createStream: not if the stream exists already.
CheckExists ==
    /\ Busy("exists")
    /\ IF Exists(Current.stream) THEN Release ELSE GoTo("send")
    /\ UNCHANGED <<registryVars, ensOwner, owner, events, everOwners, requests, crashes>>

\* The attempt has failed: try once more, or give up.
Failed == IF script.retry THEN [script EXCEPT !.phase = "exists", !.retry = FALSE] ELSE Released

\* sendTransaction, and the transaction is included.
SendSucceeds ==
    /\ Busy("send")
    /\ FulfillENSOwner(Current)
    /\ GoTo("wait")
    /\ UNCHANGED <<ensOwner, events, everOwners, requests, crashes>>

\* sendTransaction fails, or the transaction is included and reverts, as it does
\* when the stream has come to exist; caught either way.
SendFails ==
    /\ Busy("send")
    /\ script' = Failed
    /\ UNCHANGED <<registryVars, ensOwner, owner, events, everOwners, requests, crashes>>

\* tx.wait() returns, or it fails although the transaction was included.
WaitForReceipt ==
    /\ Busy("wait")
    /\ script' \in {Released, Failed}
    /\ UNCHANGED <<registryVars, ensOwner, owner, events, everOwners, requests, crashes>>

\* An exception outside the try, or any other end of the process.
Crash ==
    /\ script.up /\ crashes < MaxCrashes
    /\ crashes' = crashes + 1
    /\ script' = [Started EXCEPT !.up = FALSE]
    /\ events' = <<>>
    /\ UNCHANGED <<registryVars, ensOwner, owner, everOwners, requests>>

Restart ==
    /\ ~script.up
    /\ script' = Started
    /\ UNCHANGED <<registryVars, ensOwner, owner, events, everOwners, requests, crashes>>

ScriptStep == Deliver \/ CheckOwner \/ CheckExists \/ SendSucceeds \/ SendFails \/ WaitForReceipt

\* The name changes hands on the ENS chain.
TransferName(user) ==
    /\ user \notin everOwners /\ Cardinality(everOwners) <= MaxTransfers
    /\ ensOwner' = user
    /\ everOwners' = everOwners \cup {user}
    /\ UNCHANGED <<registryVars, owner, events, script, requests, crashes>>

Next ==
    \/ RegistryNext /\ UNCHANGED ensVars
    \/ \E s \in Streams, user \in Users, m \in Metadata : CreateAsCachedOwner(s, user, m)
    \/ \E s \in Streams, user \in Users, m \in Metadata : RequestENSOwnerAndCreateStream(s, user, m)
    \/ Deliver \/ CheckOwner \/ CheckExists \/ SendSucceeds \/ SendFails \/ WaitForReceipt
    \/ Crash \/ Restart
    \/ \E user \in Users : TransferName(user)

\* The process keeps running its event loop, and the container is restarted.
Spec == Init /\ [][Next]_vars /\ WF_vars(ScriptStep) /\ WF_vars(Restart)

-----------------------------------------------------------------------------
(* Properties *)

\* The cache and the creators of streams: whoever creates a stream under the name
\* has been the name's owner, though perhaps it is not any more.
CreatorsOwnTheName ==
    [][\A s \in Streams : version'[s] > version[s]
         => /\ owner' \in everOwners
            /\ granted'[s] = {owner'}]_vars

\* Every request is done with in the end, whatever happens to the ones before it:
\* the mutex is always released.
RequestsAreHandled == []<>(events = <<>> /\ script.chain = <<>>)

=============================================================================
