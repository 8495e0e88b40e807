------------------------ MODULE LabConnection_proofs ------------------------
(***************************************************************************)
(* Proofs about LabConnection for any number of clients: its types, the    *)
(* turnstile in front of the connection, and the lifetime of what          *)
(* m5stickc_lab_run acquires.                                              *)
(***************************************************************************)
EXTENDS LabConnection, TLAPS

(* The values the layer starts with.                                       *)
LEMMA ConnTypeInit == ConnInit => ConnTypeOK
  BY DEF ConnInit, ConnTypeOK, Semaphores, SemStates, ThreadStates,
         CallStates, Libraries, ShadowCallbacks

(* A step of anybody stores only values of these types.                    *)
LEMMA ConnTypeStep ==
    ASSUME ConnTypeOK, [ConnNext]_connVars
    PROVE  ConnTypeOK'
<1> USE DEF ConnTypeOK, resourceVars, ShadowCallbacks, Semaphores,
            SemStates, ThreadStates, CallStates, Libraries, Goto
<1>1. CASE \E given \in SUBSET ShadowCallbacks : ConnectionInit(given)
  BY <1>1 DEF ConnectionInit
<1>2. CASE NetworkUp
  BY <1>2 DEF NetworkUp
<1>3. CASE ThreadStep
  <2>1. CASE CheckIdentifier
    BY <2>1 DEF CheckIdentifier
  <2>2. CASE Initialize
    BY <2>2 DEF Initialize, InitializedLibs
  <2>3. CASE EstablishMqttConnection
    BY <2>3 DEF EstablishMqttConnection
  <2>4. CASE SetShadowCallbacks
    BY <2>4 DEF SetShadowCallbacks, RegisteredCallbacks
  <2>5. CASE PostReady \/ PostDelta
    BY <2>5 DEF PostReady, PostDelta, Post
  <2>6. CASE WaitCleanUp
    BY <2>6 DEF WaitCleanUp, Take
  <2>7. CASE DestroyCleanUp \/ DestroyDelta
    BY <2>7 DEF DestroyCleanUp, DestroyDelta, Destroy
  <2>8. CASE Disconnect \/ CleanUpLibraries
    BY <2>8 DEF Disconnect, CleanUpLibraries
  <2> QED
    BY <1>3, <2>1, <2>2, <2>3, <2>4, <2>5, <2>6, <2>7, <2>8 DEF ThreadStep
<1>4. CASE ConnectionDrops
  BY <1>4 DEF ConnectionDrops
<1>5. ASSUME NEW c \in Publishers, PublisherStep(c) PROVE ConnTypeOK'
  <2> c \in Clients
    BY DEF Clients
  <2>1. CASE CallReadyWait(c)
    BY <2>1 DEF CallReadyWait, At, threadVars, resourceVars
  <2>2. CASE ReadyTake(c)
    BY <2>2 DEF ReadyTake, At, Take, threadVars, resourceVars
  <2>3. CASE ReadyPost(c)
    BY <2>3 DEF ReadyPost, At, Post, threadVars, resourceVars
  <2>4. CASE PublishCheck(c) \/ Publish(c)
    BY <2>4 DEF PublishCheck, Publish, At, threadVars, resourceVars
  <2> QED
    BY <1>5, <2>1, <2>2, <2>3, <2>4 DEF PublisherStep
<1>6. ASSUME NEW c \in Updaters, UpdaterStep(c) PROVE ConnTypeOK'
  <2> c \in Clients
    BY DEF Clients
  <2>1. CASE CallUpdateShadow(c)
    BY <2>1 DEF CallUpdateShadow, At, threadVars, resourceVars
  <2>2. CASE DeltaTake(c)
    BY <2>2 DEF DeltaTake, At, Take, threadVars, resourceVars
  <2>3. CASE UpdateReturns(c)
    BY <2>3 DEF UpdateReturns, At, Post, threadVars, resourceVars
  <2> QED
    BY <1>6, <2>1, <2>2, <2>3 DEF UpdaterStep
<1>7. CASE RequestCleanup
  BY <1>7 DEF RequestCleanup, Post, threadVars, resourceVars
<1>8. CASE UNCHANGED connVars
  BY <1>8 DEF connVars, resourceVars
<1> QED
  BY <1>1, <1>2, <1>3, <1>4, <1>5, <1>6, <1>7, <1>8 DEF ConnNext

(* Every variable keeps the values the code can give it.                   *)
THEOREM ConnTypeCorrect == ConnSpec => []ConnTypeOK
  BY ConnTypeInit, ConnTypeStep, PTL DEF ConnSpec

-----------------------------------------------------------------------------
(* The turnstile                                                           *)

(* Turnstile and ReadyMeansSettled hold together: nobody takes the token   *)
(* before it was posted, so nobody is inside before the attempt is over.   *)
(* Neither is inductive without the fact that the semaphore exists once    *)
(* the thread runs and is never destroyed: a post on anything else would   *)
(* lose the token.                                                         *)
TurnstileInv ==
    /\ Turnstile
    /\ ReadyMeansSettled
    /\ sem["connectionReady"] # "destroyed"
    /\ thread \notin {"absent", "failed"} =>
         sem["connectionReady"] \in {"empty", "full"}

(* Before the thread runs the semaphores carry no token.                   *)
LEMMA TurnstileInit == ConnInit => TurnstileInv
  BY DEF ConnInit, TurnstileInv, Turnstile, ReadyMeansSettled, Semaphores,
         Clients, Settled

(* One step of anybody keeps the turnstile.                                *)
LEMMA TurnstileStep ==
    ASSUME ConnTypeOK, TurnstileInv, [ConnNext]_connVars
    PROVE  TurnstileInv'
<1> USE DEF ConnTypeOK, TurnstileInv, Turnstile, ReadyMeansSettled, Settled,
            Semaphores, Goto, resourceVars
<1>1. CASE \E given \in SUBSET ShadowCallbacks : ConnectionInit(given)
  BY <1>1 DEF ConnectionInit, CreationOrder
<1>2. CASE NetworkUp \/ ConnectionDrops
  BY <1>2 DEF NetworkUp, ConnectionDrops
<1>3. CASE ThreadStep
  <2>1. CASE CheckIdentifier \/ Initialize
    BY <2>1 DEF CheckIdentifier, Initialize
  <2>2. CASE EstablishMqttConnection \/ SetShadowCallbacks
    BY <2>2 DEF EstablishMqttConnection, SetShadowCallbacks
  <2>3. CASE PostReady
    BY <2>3 DEF PostReady, Post
  <2>4. CASE PostDelta \/ WaitCleanUp
    BY <2>4 DEF PostDelta, WaitCleanUp, Post, Take
  <2>5. CASE DestroyCleanUp \/ DestroyDelta
    BY <2>5 DEF DestroyCleanUp, DestroyDelta, Destroy
  <2>6. CASE Disconnect \/ CleanUpLibraries
    BY <2>6 DEF Disconnect, CleanUpLibraries
  <2> QED
    BY <1>3, <2>1, <2>2, <2>3, <2>4, <2>5, <2>6 DEF ThreadStep
<1>4. ASSUME NEW c \in Publishers, PublisherStep(c) PROVE TurnstileInv'
  <2> c \in Clients
    BY DEF Clients
  <2>1. CASE CallReadyWait(c)
    BY <2>1 DEF CallReadyWait, At, threadVars, resourceVars, Clients
  <2>2. CASE ReadyTake(c)
    BY <2>2 DEF ReadyTake, At, CanTake, Take, threadVars, resourceVars, Clients
  <2>3. CASE ReadyPost(c)
    BY <2>3 DEF ReadyPost, At, Post, threadVars, resourceVars, Clients
  <2>4. CASE PublishCheck(c) \/ Publish(c)
    BY <2>4 DEF PublishCheck, Publish, At, threadVars, resourceVars, Clients
  <2> QED
    BY <1>4, <2>1, <2>2, <2>3, <2>4 DEF PublisherStep
<1>5. ASSUME NEW c \in Updaters, UpdaterStep(c) PROVE TurnstileInv'
  <2> c \in Clients
    BY DEF Clients
  <2>1. CASE CallUpdateShadow(c)
    BY <2>1 DEF CallUpdateShadow, At, threadVars, resourceVars, Clients
  <2>2. CASE DeltaTake(c)
    BY <2>2 DEF DeltaTake, At, Take, threadVars, resourceVars, Clients
  <2>3. CASE UpdateReturns(c)
    BY <2>3 DEF UpdateReturns, At, Post, threadVars, resourceVars, Clients
  <2> QED
    BY <1>5, <2>1, <2>2, <2>3 DEF UpdaterStep
<1>6. CASE RequestCleanup
  BY <1>6 DEF RequestCleanup, Post, threadVars, resourceVars
<1>7. CASE UNCHANGED connVars
  BY <1>7 DEF connVars, resourceVars
<1> QED
  BY <1>1, <1>2, <1>3, <1>4, <1>5, <1>6, <1>7 DEF ConnNext

(* Any number of clients share one token, and it is never lost.            *)
THEOREM TurnstileHolds == ConnSpec => []Turnstile
<1>1. TurnstileInv => Turnstile
  BY DEF TurnstileInv
<1> QED
  BY ConnTypeCorrect, TurnstileInit, TurnstileStep, <1>1, PTL DEF ConnSpec

(* Nobody publishes before the connection attempt is over.                 *)
THEOREM ReadyIsSettled == ConnSpec => []ReadyMeansSettled
<1>1. TurnstileInv => ReadyMeansSettled
  BY DEF TurnstileInv
<1> QED
  BY ConnTypeCorrect, TurnstileInit, TurnstileStep, <1>1, PTL DEF ConnSpec

-----------------------------------------------------------------------------
(* The lifetime of the libraries and of the connection                     *)

Live == {"open", "dropped"}

(* What m5stickc_lab_run holds at each of its steps.  The libraries come   *)
(* both or not at all and librariesInitialized says which; a connection    *)
(* is recorded in connectionEstablished by the very next step of the       *)
(* thread; and behind Disconnect there is none.                            *)
LifetimeInv ==
    /\ libs \in {{}, Libraries}
    /\ thread \in {"absent", "failed", "network", "start", "initialize"} =>
         libs = {}
    /\ thread \in {"connect", "callbacks"} => libs = Libraries
    /\ thread # "ended" => (libsInit <=> libs = Libraries)
    /\ thread = "ended" => libs = {}
    /\ conn \in Live => established \/ thread = "callbacks"
    /\ thread = "callbacks" => conn \in Live
    /\ conn \in Live => libs = Libraries
    /\ established => conn \in Live
    /\ thread \in {"absent", "failed", "network", "start", "initialize",
                   "connect"} => conn = "none" /\ ~established
    /\ thread \in {"cleanup", "ended"} => conn \notin Live

(* Before the thread runs there is nothing to tear down.                   *)
LEMMA LifetimeInit == ConnInit => LifetimeInv
  BY DEF ConnInit, LifetimeInv, Live, Libraries

(* Only the thread itself and the network move anything of it.             *)
LEMMA LifetimeStep ==
    ASSUME ConnTypeOK, LifetimeInv, [ConnNext]_connVars
    PROVE  LifetimeInv'
<1>0. /\ conn \in {"none"} \cup Live \cup {"freed"}
      /\ established \in BOOLEAN
      /\ libsInit \in BOOLEAN
      /\ Libraries # {}
  BY DEF ConnTypeOK, Live, Libraries
<1> USE <1>0 DEF LifetimeInv, Live, Goto, resourceVars
<1>1. CASE \E given \in SUBSET ShadowCallbacks : ConnectionInit(given)
  BY <1>1 DEF ConnectionInit
<1>2. CASE NetworkUp \/ ConnectionDrops
  BY <1>2 DEF NetworkUp, ConnectionDrops
<1>3. CASE ThreadStep
  <2>1. CASE CheckIdentifier
    BY <2>1 DEF CheckIdentifier
  <2>2. CASE Initialize
    BY <2>2 DEF Initialize, InitializedLibs
  <2>3. CASE EstablishMqttConnection
    BY <2>3 DEF EstablishMqttConnection
  <2>4. CASE SetShadowCallbacks
    BY <2>4 DEF SetShadowCallbacks
  <2>5. CASE PostReady \/ PostDelta
    BY <2>5 DEF PostReady, PostDelta
  <2>6. CASE WaitCleanUp \/ DestroyCleanUp \/ DestroyDelta
    BY <2>6 DEF WaitCleanUp, DestroyCleanUp, DestroyDelta
  <2>7. CASE Disconnect
    BY <2>7 DEF Disconnect
  <2>8. CASE CleanUpLibraries
    BY <2>8 DEF CleanUpLibraries
  <2> QED
    BY <1>3, <2>1, <2>2, <2>3, <2>4, <2>5, <2>6, <2>7, <2>8 DEF ThreadStep
<1>4. ASSUME NEW c \in Publishers, PublisherStep(c) PROVE LifetimeInv'
  <2>1. UNCHANGED threadVars
    BY <1>4 DEF PublisherStep, CallReadyWait, ReadyTake, ReadyPost,
                PublishCheck, Publish
  <2> QED
    BY <2>1 DEF threadVars, resourceVars
<1>5. ASSUME NEW c \in Updaters, UpdaterStep(c) PROVE LifetimeInv'
  <2>1. UNCHANGED threadVars
    BY <1>5 DEF UpdaterStep, CallUpdateShadow, DeltaTake, UpdateReturns
  <2> QED
    BY <2>1 DEF threadVars, resourceVars
<1>6. CASE RequestCleanup
  BY <1>6 DEF RequestCleanup, threadVars, resourceVars
<1>7. CASE UNCHANGED connVars
  BY <1>7 DEF connVars, resourceVars
<1> QED
  BY <1>1, <1>2, <1>3, <1>4, <1>5, <1>6, <1>7 DEF ConnNext

(* A connection never outlives the libraries it needs.                     *)
THEOREM ConnectionHasLibraries == ConnSpec => []ConnectionWithinLibraries
<1>1. LifetimeInv => ConnectionWithinLibraries
  BY DEF LifetimeInv, ConnectionWithinLibraries, Live
<1> QED
  BY ConnTypeCorrect, LifetimeInit, LifetimeStep, <1>1, PTL DEF ConnSpec

(* Every path through m5stickc_lab_run ends with everything given back.    *)
THEOREM EndsTornDown == ConnSpec => []TornDownAtEnd
<1>1. ConnTypeOK /\ LifetimeInv => TornDownAtEnd
  BY DEF ConnTypeOK, LifetimeInv, TornDownAtEnd, Live
<1> QED
  BY ConnTypeCorrect, LifetimeInit, LifetimeStep, <1>1, PTL DEF ConnSpec

-----------------------------------------------------------------------------
(* Shadow updates                                                          *)

(* One token of shadowDelta, in the semaphore or with the task inside the  *)
(* update, from its post until the semaphore is destroyed; none before.    *)
UpdateInv ==
    /\ UpdatesExclusive
    /\ sem["shadowDelta"] # "destroyed" =>
         \A c \in Updaters :
             call[c] = "update" => sem["shadowDelta"] = "empty"
    /\ thread \notin Settled \ {"postDelta"} =>
         /\ sem["shadowDelta"] \in {"none", "empty"}
         /\ \A c \in Updaters : call[c] # "update"

(* Before the thread runs no update is under way.                          *)
LEMMA UpdateInit == ConnInit => UpdateInv
  BY DEF ConnInit, UpdateInv, UpdatesExclusive, Semaphores, Clients, Settled

(* One step of anybody keeps the token of shadowDelta.                     *)
LEMMA UpdateStep ==
    ASSUME ConnTypeOK, UpdateInv, [ConnNext]_connVars
    PROVE  UpdateInv'
<1> USE DEF ConnTypeOK, UpdateInv, UpdatesExclusive, Settled, Semaphores,
            Goto, resourceVars
<1>1. CASE \E given \in SUBSET ShadowCallbacks : ConnectionInit(given)
  BY <1>1 DEF ConnectionInit, CreationOrder
<1>2. CASE NetworkUp \/ ConnectionDrops
  BY <1>2 DEF NetworkUp, ConnectionDrops
<1>3. CASE ThreadStep
  <2>1. CASE CheckIdentifier \/ Initialize
    BY <2>1 DEF CheckIdentifier, Initialize
  <2>2. CASE EstablishMqttConnection \/ SetShadowCallbacks
    BY <2>2 DEF EstablishMqttConnection, SetShadowCallbacks
  <2>3. CASE PostReady
    BY <2>3 DEF PostReady, Post
  <2>4. CASE PostDelta
    BY <2>4 DEF PostDelta, Post
  <2>5. CASE WaitCleanUp
    BY <2>5 DEF WaitCleanUp, Take
  <2>6. CASE DestroyCleanUp \/ DestroyDelta
    BY <2>6 DEF DestroyCleanUp, DestroyDelta, Destroy
  <2>7. CASE Disconnect \/ CleanUpLibraries
    BY <2>7 DEF Disconnect, CleanUpLibraries
  <2> QED
    BY <1>3, <2>1, <2>2, <2>3, <2>4, <2>5, <2>6, <2>7 DEF ThreadStep
<1>4. ASSUME NEW c \in Publishers, PublisherStep(c) PROVE UpdateInv'
  <2> c \in Clients
    BY DEF Clients
  <2>1. CASE CallReadyWait(c)
    BY <2>1 DEF CallReadyWait, At, threadVars, resourceVars, Clients
  <2>2. CASE ReadyTake(c)
    BY <2>2 DEF ReadyTake, At, Take, threadVars, resourceVars, Clients
  <2>3. CASE ReadyPost(c)
    BY <2>3 DEF ReadyPost, At, Post, threadVars, resourceVars, Clients
  <2>4. CASE PublishCheck(c) \/ Publish(c)
    BY <2>4 DEF PublishCheck, Publish, At, threadVars, resourceVars, Clients
  <2> QED
    BY <1>4, <2>1, <2>2, <2>3, <2>4 DEF PublisherStep
<1>5. ASSUME NEW c \in Updaters, UpdaterStep(c) PROVE UpdateInv'
  <2> c \in Clients
    BY DEF Clients
  <2>1. CASE CallUpdateShadow(c)
    BY <2>1 DEF CallUpdateShadow, At, threadVars, resourceVars, Clients
  <2>2. CASE DeltaTake(c)
    BY <2>2 DEF DeltaTake, At, CanTake, Take, threadVars, resourceVars, Clients
  <2>3. CASE UpdateReturns(c)
    BY <2>3 DEF UpdateReturns, At, Post, threadVars, resourceVars, Clients
  <2> QED
    BY <1>5, <2>1, <2>2, <2>3 DEF UpdaterStep
<1>6. CASE RequestCleanup
  BY <1>6 DEF RequestCleanup, Post, threadVars, resourceVars
<1>7. CASE UNCHANGED connVars
  BY <1>7 DEF connVars, resourceVars
<1> QED
  BY <1>1, <1>2, <1>3, <1>4, <1>5, <1>6, <1>7 DEF ConnNext

(* Two Shadow updates never overlap while their semaphore exists.          *)
THEOREM UpdatesAreExclusive == ConnSpec => []UpdatesExclusive
<1>1. UpdateInv => UpdatesExclusive
  BY DEF UpdateInv
<1> QED
  BY ConnTypeCorrect, UpdateInit, UpdateStep, <1>1, PTL DEF ConnSpec

-----------------------------------------------------------------------------
(* The refinement of ConnectionLifecycle                                   *)

Inside == {c \in Publishers : call[c] \in {"readyPost", "ready", "publish"}}

LifecycleStep == [Lifecycle!LifecycleNext]_(Lifecycle!lifecycleVars)

(* The three functions of the state the lifecycle sees are what changes or *)
(* does not change in a step of it.                                        *)
LEMMA LifecycleStutter ==
    ASSUME Phase' = Phase, Resources' = Resources, Inside' = Inside
    PROVE  LifecycleStep
  BY DEF LifecycleStep, Lifecycle!lifecycleVars, Inside

(* The layer starts where its lifecycle starts.                            *)
LEMMA LifecycleInitial == ConnInit => Lifecycle!LifecycleInit
  BY DEF ConnInit, Lifecycle!LifecycleInit, Phase, Resources, Settled, Clients

(* Every step of the layer is a step of the lifecycle or leaves it alone.  *)
LEMMA LifecycleSimulated ==
    ASSUME ConnTypeOK, TurnstileInv, LifetimeInv, [ConnNext]_connVars
    PROVE  LifecycleStep
<1>0. /\ conn \in {"none"} \cup Live \cup {"freed"}
      /\ established \in BOOLEAN
      /\ libsInit \in BOOLEAN
      /\ Libraries # {}
  BY DEF ConnTypeOK, Live, Libraries
<1>1. ASSUME UNCHANGED call PROVE Inside' = Inside
  BY <1>1 DEF Inside
<1>2. ASSUME UNCHANGED <<conn, libs>> PROVE Resources' = Resources
  BY <1>2 DEF Resources
<1>3. CASE \/ \E given \in SUBSET ShadowCallbacks : ConnectionInit(given)
           \/ NetworkUp \/ CheckIdentifier
  <2>1. Phase' = Phase /\ UNCHANGED <<conn, libs, call>>
    BY <1>3 DEF ConnectionInit, NetworkUp, CheckIdentifier, Phase, Settled,
                Goto, resourceVars
  <2> QED
    BY <2>1, <1>1, <1>2, LifecycleStutter
<1>4. CASE Initialize
  <2>1. Phase = "attempting" /\ Phase' = "attempting" /\ UNCHANGED call
    BY <1>4 DEF Initialize, Phase, Settled, Goto
  <2>2. Resources = "nothing"
    BY <1>0, <1>4 DEF Initialize, Resources, LifetimeInv, Live
  <2>3. Resources' \in {"nothing", "libraries"}
    BY <1>4, <1>0 DEF Initialize, InitializedLibs, Resources, LifetimeInv, Live
  <2> QED
    BY <2>1, <2>2, <2>3, <1>1
       DEF LifecycleStep, Lifecycle!LifecycleNext, Lifecycle!Acquire,
           Lifecycle!lifecycleVars, Inside
<1>5. CASE EstablishMqttConnection
  <2>1. Phase = "attempting" /\ Phase' = "attempting" /\ UNCHANGED call
    BY <1>5 DEF EstablishMqttConnection, Phase, Settled, Goto
  <2>2. Resources = "libraries" /\ Resources' \in {"libraries", "connection"}
    BY <1>0, <1>5
       DEF EstablishMqttConnection, Resources, LifetimeInv, Live, Goto
  <2> QED
    BY <2>1, <2>2, <1>1
       DEF LifecycleStep, Lifecycle!LifecycleNext, Lifecycle!Acquire,
           Lifecycle!lifecycleVars, Inside
<1>6. CASE SetShadowCallbacks
  <2>1. Phase' = Phase /\ UNCHANGED <<conn, libs, call>>
    BY <1>6 DEF SetShadowCallbacks, Phase, Settled, Goto
  <2> QED
    BY <2>1, <1>1, <1>2, LifecycleStutter
<1>7. CASE PostReady
  <2>1. /\ Phase = "attempting" /\ Phase' = "settled"
        /\ UNCHANGED <<conn, libs, call>>
    BY <1>7 DEF PostReady, Phase, Settled, Goto, resourceVars
  <2> QED
    BY <2>1, <1>1, <1>2
       DEF LifecycleStep, Lifecycle!LifecycleNext, Lifecycle!Settle, Inside
<1>8. CASE PostDelta \/ WaitCleanUp \/ DestroyCleanUp \/ DestroyDelta
  <2>1. Phase' = Phase /\ UNCHANGED <<conn, libs, call>>
    BY <1>8 DEF PostDelta, WaitCleanUp, DestroyCleanUp, DestroyDelta, Phase,
                Settled, Goto, resourceVars
  <2> QED
    BY <2>1, <1>1, <1>2, LifecycleStutter
<1>9. CASE Disconnect
  <2>1. Phase = "settled" /\ Phase' = "settled" /\ UNCHANGED call
    BY <1>9 DEF Disconnect, Phase, Settled, Goto
  <2>2. CASE established
    <3>1. Resources = "connection" /\ Resources' = "libraries"
      BY <1>0, <1>9, <2>2 DEF Disconnect, Resources, LifetimeInv, Live
    <3> QED
      BY <2>1, <3>1, <1>1
         DEF LifecycleStep, Lifecycle!LifecycleNext, Lifecycle!Release, Inside
  <2>3. CASE ~established
    BY <1>9, <2>1, <2>3, <1>1, <1>2, LifecycleStutter DEF Disconnect
  <2> QED
    BY <2>2, <2>3
<1>10. CASE CleanUpLibraries
  <2>1. Phase = "settled" /\ Phase' = "ended" /\ UNCHANGED call
    BY <1>10 DEF CleanUpLibraries, Phase, Settled, Goto
  <2>2. Resources # "connection" /\ Resources' = "nothing"
    BY <1>0, <1>10 DEF CleanUpLibraries, Resources, LifetimeInv, Live
  <2> QED
    BY <2>1, <2>2, <1>1
       DEF LifecycleStep, Lifecycle!LifecycleNext, Lifecycle!End, Inside
<1>11. CASE ConnectionDrops
  <2>1. Phase' = Phase /\ Resources' = Resources /\ UNCHANGED call
    BY <1>11 DEF ConnectionDrops, Phase, Resources, Settled
  <2> QED
    BY <2>1, <1>1, LifecycleStutter
<1>12. ASSUME NEW c \in Publishers, PublisherStep(c) PROVE LifecycleStep
  <2>1. UNCHANGED threadVars
    BY <1>12 DEF PublisherStep, CallReadyWait, ReadyTake, ReadyPost,
                 PublishCheck, Publish
  <2>2. Phase' = Phase /\ Resources' = Resources
    BY <2>1 DEF threadVars, resourceVars, Phase, Resources
  <2>3. call \in [Clients -> CallStates] /\ c \in Clients
    BY DEF ConnTypeOK, Clients
  <2>4. CASE CallReadyWait(c) \/ ReadyPost(c)
    <3>1. Inside' = Inside
      BY <2>3, <2>4 DEF CallReadyWait, ReadyPost, At, Inside, Clients
    <3> QED
      BY <2>2, <3>1, LifecycleStutter
  <2>5. CASE ReadyTake(c)
    <3>1. Inside' = Inside \cup {c}
      BY <2>3, <2>5 DEF ReadyTake, At, Inside, Clients
    <3>2. thread \in Settled
      BY <2>5 DEF ReadyTake, CanTake, TurnstileInv, Turnstile
    <3>3. Phase # "attempting"
      BY <3>2 DEF Phase, Settled
    <3> QED
      BY <2>2, <3>1, <3>3
         DEF LifecycleStep, Lifecycle!LifecycleNext, Lifecycle!Enter, Inside
  <2>6. CASE PublishCheck(c) \/ Publish(c)
    <3>1. Inside' = Inside \/ Inside' = Inside \ {c}
      BY <2>3, <2>6 DEF PublishCheck, Publish, At, Inside, Clients
    <3> QED
      BY <2>2, <3>1, LifecycleStutter
         DEF LifecycleStep, Lifecycle!LifecycleNext, Lifecycle!Leave, Inside
  <2> QED
    BY <1>12, <2>4, <2>5, <2>6 DEF PublisherStep
<1>13. ASSUME NEW c \in Updaters, UpdaterStep(c) PROVE LifecycleStep
  <2>1. UNCHANGED threadVars
    BY <1>13 DEF UpdaterStep, CallUpdateShadow, DeltaTake, UpdateReturns
  <2>2. Phase' = Phase /\ Resources' = Resources
    BY <2>1 DEF threadVars, resourceVars, Phase, Resources
  <2>3. Inside' = Inside
    BY <1>13 DEF UpdaterStep, CallUpdateShadow, DeltaTake, UpdateReturns, At,
                 Inside, Clients, ConnTypeOK
  <2> QED
    BY <2>2, <2>3, LifecycleStutter
<1>14. CASE RequestCleanup \/ UNCHANGED connVars
  <2>1. UNCHANGED threadVars /\ UNCHANGED call
    BY <1>14 DEF RequestCleanup, connVars, threadVars
  <2>2. Phase' = Phase /\ Resources' = Resources
    BY <2>1 DEF threadVars, resourceVars, Phase, Resources
  <2> QED
    BY <2>1, <2>2, <1>1, LifecycleStutter
<1> QED
  BY <1>3, <1>4, <1>5, <1>6, <1>7, <1>8, <1>9, <1>10, <1>11, <1>12, <1>13,
     <1>14 DEF ConnNext, ThreadStep

(* The layer with its thread, semaphores and callers implements the        *)
(* lifecycle it promises to the labs.                                      *)
THEOREM LayerImplementsLifecycle == ConnSpec => ImplementsLifecycle
<1>1. ConnTypeOK /\ TurnstileInv /\ LifetimeInv /\ [ConnNext]_connVars
        => LifecycleStep
  BY LifecycleSimulated
<1> QED
  BY ConnTypeCorrect, TurnstileInit, TurnstileStep, LifetimeInit,
     LifetimeStep, LifecycleInitial, <1>1, PTL
     DEF ConnSpec, ImplementsLifecycle, Lifecycle!LifecycleSpec,
         LifecycleStep
=============================================================================
