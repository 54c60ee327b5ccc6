-------------------------------- MODULE MCHost ---------------------------------
(* Small instances of EngineProcess, SettingsWrite and ClientConfig.  They *)
(* meet only where a process that serves dies with a request in flight,    *)
(* which each module has as an action of its own, so an instance follows   *)
(* one of them: part says which.                                           *)
EXTENDS EngineProcess, SettingsWrite, ClientConfig

VARIABLE part

HostInit ==
    /\ StartInit /\ PutInit /\ ClientInit
    /\ part \in {"start", "save", "client"}
    /\ IF part = "start" THEN version # Schema   \* later processes meet it
       ELSE mutexes /\ version = Schema /\ lock = NoPid
    /\ part # "save" => app = NoRow
    /\ part # "client" => tier = "cli" /\ target = Absent

HostNext == \/ part = "start" /\ StartNext /\ UNCHANGED <<part, putVars, clientVars>>
            \/ part = "save" /\ PutNext /\ UNCHANGED <<part, startVars, clientVars>>
            \/ part = "client" /\ ClientNext /\ UNCHANGED <<part, startVars, putVars>>

HostSpec == /\ HostInit /\ [][HostNext]_<<part, startVars, putVars, clientVars>>
            /\ StartFairness

(* Type invariant of the three parts.                                      *)
HostTypeOK == StartTypeOK /\ SettingsTypeOK /\ ClientTypeOK

(* Two URLs of one origin and one of another.                              *)
TwoSites == [u \in {"a1", "a2", "b"} |-> IF u = "b" THEN "B" ELSE "A"]

Bodies == [provider : {"keep", "q"}, base : {"keep", "a2", "b"},
           key : {"keep", "typed", "cleared"}, dir : {"keep", "d", None},
           done : {"keep", "yes", "no"}]

(* The first setup, and bodies with one field, or the key and another.     *)
SmallBodies ==
    {[provider |-> "p", base |-> "a1", key |-> "typed", dir |-> "d", done |-> "yes"]}
    \cup {p \in Bodies : Cardinality({f \in DOMAIN p \ {"key"} : p[f] # "keep"}) = 1}
    \cup {p \in Bodies : \A f \in DOMAIN p : (f = "key") = (p[f] # "keep")}

(* What a client's file may become by another hand.                        *)
SomeFiles == {Absent} \cup {[entry |-> e, rest |-> 1] : e \in {"extra", "odd", "broken"}}
================================================================================
