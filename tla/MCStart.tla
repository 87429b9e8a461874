------------------------------- MODULE MCStart -------------------------------
(***************************************************************************)
(* What an application starts with, each part alone (`part` says which):   *)
(*   start      the applications of MCRuntime, from their module graph to  *)
(*              the callbacks of their blueprint                           *)
(*   namespace  two readers of a configuration namespace, two overlapping  *)
(*              fetches, a store that changes twice                        *)
(*   container  overlapping calls of resolve for the services of a         *)
(*              container as bootstrap leaves it                           *)
(* The application and the container of another part stay as they are at   *)
(* first, and its readers wait, so that fairness asks nothing of them.     *)
(***************************************************************************)
EXTENDS MCRuntime, NamespaceConstants

VARIABLES part,
    version, values, readAge, fetchedAge, fetch, reader,           \* ConfigNamespace
    providers, instances, held, edges, closeStack, tracked, heap,  \* Container
    frames, calls, stack, closing, late, closes

namespace == <<version, values, readAge, fetchedAge, fetch, reader>>
objects == <<providers, instances, held, edges, closeStack, tracked, heap,
             frames, calls, stack, closing, late, closes>>
all == <<part, vars, namespace, objects>>

-----------------------------------------------------------------------------
Namespace == INSTANCE ConfigNamespace

\* A registered service and its repository, which share a factory; the factory
\* needs a value that a layer registers.  Two more classes depend on each other.
ServiceTokens == {"App", "Repo", "pool", "cfg", "X", "Y"}
ServiceClasses == {"App", "Repo", "X", "Y"}
ServiceDeps ==
    [c \in ServiceClasses |->
        CASE c = "App"  -> <<"Repo", "pool">>
          [] c = "Repo" -> <<"pool">>
          [] c = "X"    -> <<"Y">>
          [] c = "Y"    -> <<"X">>]
NoProvider == [kind |-> "none", useClass |-> "none", inject |-> <<>>, onClose |-> FALSE, value |-> 0]
ServiceWiring ==
    [t \in ServiceTokens |->
        CASE t \in ServiceClasses -> [NoProvider EXCEPT !.kind = "class", !.useClass = t]
          [] t = "pool" -> [NoProvider EXCEPT !.kind = "factory", !.inject = <<"cfg">>, !.onClose = TRUE]
          [] t = "cfg" -> NoProvider]

Service == INSTANCE Container WITH
    Token <- ServiceTokens, ClassToken <- ServiceClasses, Dependencies <- ServiceDeps,
    Injectable <- ServiceClasses, HasClose <- {"App", "Repo", "cfg"}, Fallible <- {"pool"},
    Wiring <- ServiceWiring, Late <- {}, LateValue <- {"cfg"}, Direct <- {},
    MaxFrames <- 13, MaxCalls <- 2, MaxLate <- 1, MaxClose <- 1, resolving <- held

-----------------------------------------------------------------------------
(* One part at a time.                                                     *)

AnyApp == CHOOSE a \in Apps : TRUE
Waiting ==
    /\ version = 0 /\ values = Namespace!Unloaded /\ readAge = 0 /\ fetchedAge = 0
    /\ fetch = [f \in Fetch |-> Namespace!NoFetch]
    /\ reader = [c \in Reader |-> [pc |-> "waiting", got |-> Namespace!Unloaded]]

PartInit ==
    /\ part \in {"start", "namespace", "container"}
    /\ RuntimeInit /\ (part # "start" => app = AnyApp)
    /\ IF part = "namespace" THEN Namespace!Init ELSE Waiting
    /\ Service!Init

PartNext ==
    /\ UNCHANGED part
    /\ \/ part = "start" /\ Next /\ UNCHANGED <<namespace, objects>>
       \/ part = "namespace" /\ Namespace!Next /\ UNCHANGED <<vars, objects>>
       \/ part = "container" /\ Service!Next /\ UNCHANGED <<vars, namespace>>

PartSpec ==
    /\ PartInit /\ [][PartNext]_all
    /\ WF_vars(part = "start" /\ Next) /\ Namespace!Fairness
    /\ WF_objects(part = "container" /\ Service!System)

-----------------------------------------------------------------------------
(* The properties of the other parts, named as in their modules.           *)

\* Runtime: starting up ends, cyclic imports and mutual adoption included.
ApplicationStarts == <>(part # "start" \/ phase \in {"circular", "invalid", "running"})

\* ConfigNamespace.
FreshnessBound == Namespace!FreshnessBound
NeverUnloads == Namespace!NeverUnloads
Converges == <>[](part = "namespace" => values = version)
GetSettles ==
    \A c \in Reader : part = "namespace" /\ reader[c].pc = "waiting" ~> reader[c].pc = "idle"

\* Container.
DependentsCloseFirst == Service!DependentsCloseFirst
CyclesDetected == Service!CyclesDetected
ImplementsStore == Service!ImplementsStore
EveryCallSettles == Service!EveryCallSettles
=============================================================================
