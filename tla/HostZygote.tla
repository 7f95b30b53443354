----------------------------- MODULE HostZygote -----------------------------
(***************************************************************************)
(* The zygote, the store its children load apps from, and the dependencies *)
(* they load with them.  The three share no state: part says which one a   *)
(* behaviour is about, and the others stay as they start.                  *)
(***************************************************************************)
EXTENDS Zygote, Naturals

CONSTANTS
    Builds, Versions, Engines, Loaders, NoFile, Torn,  \* AppStore and AppDeps
    StoreSettings, MaxInstalls,                        \* AppStore
    DepSettings                                        \* AppDeps

VARIABLES
    part,                                                     \* which one runs
    env, disk, dep, engine, reg, inst, load, fresh, count,    \* AppStore
    setting, package, depEngine, depReg, writer, key, child, depCount \* AppDeps

storeVars == <<env, disk, dep, engine, reg, inst, load, fresh, count>>
depVars == <<setting, package, depEngine, depReg, writer, key, child, depCount>>

Store == INSTANCE AppStore WITH Settings <- StoreSettings
Deps == INSTANCE AppDeps WITH Children <- Loaders, Settings <- DepSettings,
    engine <- depEngine, registry <- depReg, count <- depCount

ASSUME Constants == Store!ConstantsOK /\ Deps!ConstantsOK

HostInit ==
    /\ part \in {"zygote", "store", "deps"}
    /\ Init /\ Store!Init /\ Deps!Init

OfZygote(A) == part = "zygote" /\ A /\ UNCHANGED <<part, storeVars, depVars>>
OfStore(A) == part = "store" /\ A /\ UNCHANGED <<part, vars, depVars>>
OfDeps(A) == part = "deps" /\ A /\ UNCHANGED <<part, vars, storeVars>>

HostNext == OfZygote(Next) \/ OfStore(Store!Next) \/ OfDeps(Deps!Next)

hostVars == <<part, vars, storeVars, depVars>>

\* Nothing is assumed of any thread.
HostSpec == HostInit /\ [][HostNext]_hostVars

\* The fairness is that of Zygote!FairSpec.
Fair ==
    /\ WF_hostVars(OfZygote(ReaperRemove \/ ReaperBroadcast))
    /\ \A p \in Pids : SF_hostVars(OfZygote(ReaperWait(p)))
    /\ WF_hostVars(OfZygote(Insert \/ \E listens \in BOOLEAN : Ack(listens)))

-----------------------------------------------------------------------------
(* The properties, under the names they have in their modules; those of    *)
(* Zygote are inherited.                                                   *)
LoadedIsInstalled == Store!LoadedIsInstalled
LoadLeavesCacheFresh == Store!LoadLeavesCacheFresh
DepsSelfHeal == Deps!DepsSelfHeal

\* An app starts with the dependencies its install resolved and in the
\* directories its manifest lists.
AppsStartAsInstalled == Deps!DepsAreAsResolved /\ Deps!MountsAreFirstThatExist
=============================================================================
