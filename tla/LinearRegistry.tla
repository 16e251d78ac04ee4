--------------------------- MODULE LinearRegistry ---------------------------
(***************************************************************************)
(* What the registry promises its callers (control/src/lib.rs:102-123 and  *)
(* 195-218, as registry.rs and spawn.rs keep it): a set of registered ids  *)
(* on which every command takes effect at one instant between the moment   *)
(* it is made and the moment it returns.                                   *)
(***************************************************************************)
CONSTANTS Callers, Ids, Requests, None

VARIABLES
    registered,  \* the ids of the instances there are
    calling,     \* the callers with a command under way
    command,     \* what each of them asked for
    result       \* what it was answered

absVars == <<registered, calling, command, result>>

Result(tag, ids) == [tag |-> tag, ids |-> ids]
Pending  == Result("none", {})
Failed   == Result("error", {})
Nothing  == CHOOSE r \in Requests : TRUE

AbsInit ==
    /\ registered = {}
    /\ calling = {}
    /\ command = [c \in Callers |-> Nothing]
    /\ result = [c \in Callers |-> Pending]

Invoke(c, r) ==
    /\ c \notin calling
    /\ calling' = calling \cup {c}
    /\ command' = [command EXCEPT ![c] = r]
    /\ UNCHANGED <<registered, result>>

\* The command of c takes effect and its answer says so.
Effect(c, after, answer) ==
    /\ c \in calling
    /\ result[c] = Pending
    /\ registered' = after
    /\ result' = [result EXCEPT ![c] = answer]
    /\ UNCHANGED <<calling, command>>

\* A start registers one instance and says which, or changes nothing.
Start(c) ==
    /\ command[c].op = "start"
    /\ \/ \E i \in Ids : Effect(c, registered \cup {i}, Result("started", {i}))
       \/ Effect(c, registered, Failed)

\* A stop leaves its instance unregistered.  Of one that is not there the
\* documents disagree: "unknown ids return Ok" (lib.rs:112, docs/cli.md:93),
\* or INSTANCE_NOT_FOUND (lib.rs:335, docs/cli.md:203).  Either is allowed.
Stop(c) ==
    /\ command[c].op = "stop"
    /\ \/ Effect(c, registered \ {command[c].id}, Result("stopped", {}))
       \/ command[c].id \notin registered /\ Effect(c, registered, Failed)

Shutdown(c) ==
    /\ command[c].op = "shutdown"
    /\ Effect(c, {}, Result("shutting_down", {}))

\* A query answers from the set as it is at that instant.
Query(c) ==
    LET op == command[c].op
        i  == command[c].id
    IN /\ op \in {"status", "logs", "bridge_stats"}
       /\ Effect(c, registered,
                 IF op = "status" /\ i = None THEN Result(op, registered)
                 ELSE IF i \in registered THEN Result(op, {i})
                 ELSE Failed)

Respond(c) ==
    /\ c \in calling
    /\ result[c] # Pending
    /\ calling' = calling \ {c}
    /\ command' = [command EXCEPT ![c] = Nothing]
    /\ result' = [result EXCEPT ![c] = Pending]
    /\ UNCHANGED registered

AbsNext ==
    \E c \in Callers :
        \/ \E r \in Requests : Invoke(c, r)
        \/ Start(c) \/ Stop(c) \/ Shutdown(c) \/ Query(c)
        \/ Respond(c)

AbsSpec == AbsInit /\ [][AbsNext]_absVars

=============================================================================
