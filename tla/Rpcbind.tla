------------------------------ MODULE Rpcbind ------------------------------
(***************************************************************************)
(* Registration with rpcbind (rpcbind.cc): programs that register their    *)
(* listening sockets, stop, exit and crash, the clean-up that runs at      *)
(* exit, and a program that looks a service up and connects to it, while   *)
(* the others go on.                                                       *)
(*                                                                         *)
(* rpcbind itself is the table that its procedures act on: SET enters what *)
(* is not there yet, UNSET removes an entry whoever made it (the programs  *)
(* run under one user), GETADDR tells an entry.  A call may fail, before   *)
(* rpcbind has acted on it or after.  A key stands for a program, version  *)
(* and netid; a service is found under one key per address of its host.    *)
(***************************************************************************)
EXTENDS Integers, Sequences, FiniteSets, SequencesExt

CONSTANTS
  Process, Key,
  Addresses,  \* the keys in the order of the host's addresses
  Nobody,
  MaxRounds,  \* bound: registrations
  MaxFaults   \* bound: calls that fail, crashes

ASSUME RpcbindAssumption ==
  /\ Addresses \in Seq(Key) \ {<< >>} /\ Nobody \notin Process \cup Key
  /\ MaxRounds \in Nat /\ MaxFaults \in Nat

VARIABLES
  entry,                \* rpcbind: per key, whose socket it names
  state,                \* per process: "up", "registering", "exiting", "gone"
  registering,          \* the key that is being registered
  registered_services,  \* what its clean-up has to remove
  listening,            \* the keys it accepts connections for
  search, at, port,     \* tcp_connect_rpc: its state, its address, what rpcbind said
  rounds, faults,
  careless,             \* processes that crashed or saw a call fail
  users,                \* per key, the processes that ever registered it
  raced,                \* processes whose key was set after they unset it
  steady,               \* keys under which there was a server all through the search
  unreached             \* keys at whose address the search saw a call fail

processes == <<state, registering, registered_services, listening>>
searching == <<search, at, port, unreached>>
witnesses == <<careless, users, raced>>
bindvars == <<entry, processes, searching, rounds, faults, witnesses, steady>>

BindInit ==
  /\ entry = [k \in Key |-> Nobody]
  /\ state = [p \in Process |-> "up"] /\ registering = [p \in Process |-> Nobody]
  /\ registered_services = [p \in Process |-> << >>]
  /\ listening = [p \in Process |-> {}]
  /\ search = "none" /\ at = 1 /\ port = Nobody
  /\ rounds = 0 /\ faults = 0
  /\ careless = {} /\ users = [k \in Key |-> {}] /\ raced = {}
  /\ steady = {} /\ unreached = {}

----------------------------------------------------------------------------
(***************************************************************************)
(* rpcbind, and calls to it that fail.                                     *)
(***************************************************************************)
Enter(k, p) == entry' = [entry EXCEPT ![k] = p]
Unset(k) == Enter(k, Nobody)

Fault == faults < MaxFaults /\ faults' = faults + 1
Careless(p) == Fault /\ careless' = careless \cup {p}

Becomes(p, s) == state' = [state EXCEPT ![p] = s]

----------------------------------------------------------------------------
(***************************************************************************)
(* rpcbind_register: UNSET, SET, and a note for the clean-up.              *)
(***************************************************************************)
\* Variant: no UNSET; entries are left to those who made them.
TrustsTable(p, k) ==
  /\ Becomes(p, "registering") /\ registering' = [registering EXCEPT ![p] = k]
  /\ UNCHANGED <<entry, faults, careless>>

BeginSet(p, k) ==
  \/ /\ Unset(k) /\ Becomes(p, "registering")
     /\ registering' = [registering EXCEPT ![p] = k]
     /\ UNCHANGED <<faults, careless>>
  \/ /\ Careless(p) /\ (Unset(k) \/ UNCHANGED entry)
     /\ UNCHANGED <<state, registering>>

Register(p, k) ==
  /\ state[p] = "up" /\ rounds < MaxRounds /\ rounds' = rounds + 1
  /\ listening' = [listening EXCEPT ![p] = @ \cup {k}]
  /\ users' = [users EXCEPT ![k] = @ \cup {p}]
  /\ raced' = raced \ {p}
  /\ BeginSet(p, k)
  /\ UNCHANGED <<registered_services, searching>>

Races(p, k) == raced' = raced \cup {q \in Process \ {p} : registering[q] = k}

\* Variant: no note for the clean-up.
RegisteredUnnoted(p, k) ==
  /\ entry[k] = Nobody /\ Enter(k, p) /\ Races(p, k)
  /\ UNCHANGED <<registered_services, faults, careless>>

\* SET succeeds.
Registered(p, k) ==
  /\ entry[k] = Nobody /\ Enter(k, p) /\ Races(p, k)
  /\ registered_services' = [registered_services EXCEPT ![p] = Append(@, k)]
  /\ UNCHANGED <<faults, careless>>

\* SET is refused: address_in_use.
InUse(p, k) ==
  /\ entry[k] # Nobody
  /\ UNCHANGED <<entry, raced, registered_services, faults, careless>>

\* SET fails.
SetFails(p, k) ==
  /\ Careless(p)
  /\ \/ entry[k] = Nobody /\ Enter(k, p) /\ Races(p, k)
     \/ UNCHANGED <<entry, raced>>
  /\ UNCHANGED registered_services

Set(p) ==
  /\ state[p] = "registering" /\ Becomes(p, "up")
  /\ registering' = [registering EXCEPT ![p] = Nobody]
  /\ \E k \in {registering[p]} : Registered(p, k) \/ InUse(p, k) \/ SetFails(p, k)
  /\ UNCHANGED <<listening, searching, rounds, users>>

----------------------------------------------------------------------------
(***************************************************************************)
(* A listener goes, its registration does not; a program ends.             *)
(***************************************************************************)
Close(p, k) ==
  /\ state[p] = "up" /\ k \in listening[p]
  /\ listening' = [listening EXCEPT ![p] = @ \ {k}]
  /\ UNCHANGED <<entry, state, registering, registered_services, searching, rounds, faults, witnesses>>

Ends(p) ==
  /\ Becomes(p, "gone") /\ listening' = [listening EXCEPT ![p] = {}]
  /\ registering' = [registering EXCEPT ![p] = Nobody]
  /\ registered_services' = [registered_services EXCEPT ![p] = << >>]
  /\ UNCHANGED <<searching, rounds, users, raced>>

Exit(p) ==
  /\ state[p] = "up" /\ Becomes(p, "exiting")
  /\ UNCHANGED <<entry, registering, registered_services, listening, searching, rounds, faults, witnesses>>

\* run_cleanup; the first call that fails ends it.
CleanUp(p) ==
  /\ state[p] = "exiting" /\ registered_services[p] # << >>
  /\ Unset(Head(registered_services[p]))
  /\ registered_services' = [registered_services EXCEPT ![p] = Tail(@)]
  /\ UNCHANGED <<state, registering, listening, searching, rounds, faults, witnesses>>
CleanUpFails(p) ==
  /\ state[p] = "exiting" /\ registered_services[p] # << >> /\ Careless(p)
  /\ Unset(Head(registered_services[p])) \/ UNCHANGED entry
  /\ Ends(p)
CleanUpDone(p) ==
  /\ state[p] = "exiting" /\ registered_services[p] = << >> /\ Ends(p)
  /\ UNCHANGED <<entry, faults, careless>>

Crash(p) ==
  /\ state[p] # "gone" /\ Careless(p) /\ Ends(p) /\ UNCHANGED entry

----------------------------------------------------------------------------
(***************************************************************************)
(* tcp_connect_rpc (and, but for the second connection, lookup_rpc).       *)
(***************************************************************************)
Here == Addresses[at]
Serves(k) == entry[k] # Nobody /\ k \in listening[entry[k]]

Look(what) == search = what /\ UNCHANGED <<entry, processes, rounds, witnesses>>

Search == /\ Look("none") /\ search' = "ask" /\ UNCHANGED <<at, port, faults, unreached>>

NextAddress ==
  /\ port' = Nobody
  /\ IF at < Len(Addresses) THEN at' = at + 1 /\ search' = "ask"
     ELSE at' = at /\ search' = "refused"

\* Variant: an address under which nothing is registered ends the search.
AskOnce ==
  /\ IF entry[Here] = Nobody THEN search' = "refused" /\ UNCHANGED <<at, port>>
     ELSE search' = "connect" /\ port' = entry[Here] /\ UNCHANGED at
  /\ UNCHANGED <<faults, unreached>>

\* GETADDR; an empty address has no port.
GetAddr ==
  /\ IF entry[Here] = Nobody THEN NextAddress
     ELSE search' = "connect" /\ port' = entry[Here] /\ UNCHANGED at
  /\ UNCHANGED <<faults, unreached>>

\* rpcbind cannot be connected to (a system_error), or the call to it fails (an
\* xdr_runtime_error, which nobody catches).
AskFails ==
  /\ Fault /\ unreached' = unreached \cup {Here}
  /\ NextAddress \/ (search' = "threw" /\ UNCHANGED <<at, port>>)

Ask == Look("ask") /\ (GetAddr \/ AskFails)

\* The second connection, to the port rpcbind named.
Connect ==
  /\ Look("connect")
  /\ \/ /\ IF Here \in listening[port] THEN search' = "connected" /\ UNCHANGED <<at, port>>
           ELSE NextAddress
        /\ UNCHANGED <<faults, unreached>>
     \/ Fault /\ NextAddress /\ unreached' = unreached \cup {Here}

----------------------------------------------------------------------------
Step ==
  \/ \E p \in Process :
       \/ \E k \in Key : Register(p, k) \/ Close(p, k)
       \/ Set(p) \/ Exit(p) \/ CleanUp(p) \/ CleanUpFails(p) \/ CleanUpDone(p) \/ Crash(p)
  \/ Search \/ Ask \/ Connect

BindNext ==
  /\ Step
  /\ steady' = {k \in (IF search = "none" THEN ToSet(Addresses) ELSE steady) :
                  search' # "none" /\ Serves(k)'}

BindSpec == BindInit /\ [][BindNext]_bindvars

----------------------------------------------------------------------------
BindTypeOK ==
  /\ entry \in [Key -> Process \cup {Nobody}]
  /\ state \in [Process -> {"up", "registering", "exiting", "gone"}]
  /\ registering \in [Process -> Key \cup {Nobody}]
  /\ registered_services \in [Process -> Seq(Key)] /\ listening \in [Process -> SUBSET Key]
  /\ search \in {"none", "ask", "connect", "connected", "refused", "threw"}
  /\ at \in 1..Len(Addresses) /\ port \in Process \cup {Nobody}
  /\ rounds \in 0..MaxRounds /\ faults \in 0..MaxFaults
  /\ careless \subseteq Process /\ raced \subseteq Process
  /\ users \in [Key -> SUBSET Process] /\ steady \subseteq Key /\ unreached \subseteq Key

(***************************************************************************)
(* rpcbind and the programs' notes agree.  An entry is noted by the        *)
(* program it names, which will remove it at exit, so none is left behind  *)
(* by programs that end by exit; and a program that has a key for itself   *)
(* stays registered as long as it runs, whatever others do (rpcbind.cc:15, *)
(* 195), as long as no call fails.  (With it, the state has its type.)      *)
(***************************************************************************)
NotesAgree ==
  /\ BindTypeOK
  /\ \A p \in Process \ careless, k \in Key :
       /\ entry[k] = p => k \in ToSet(registered_services[p])
       /\ k \in ToSet(registered_services[p]) /\ users[k] = {p} /\ state[p] # "exiting" =>
            entry[k] = p \/ registering[p] = k

(***************************************************************************)
(* A registration is refused (address_in_use) only if somebody registered  *)
(* the same since it began: what a crashed program left behind never bars  *)
(* its successor (rpcbind.cc:190, UNSET before SET).                       *)
(***************************************************************************)
OnlyRacesRefuse ==
  \A p \in Process :
    state[p] = "registering" => entry[registering[p]] = Nobody \/ p \in raced

(***************************************************************************)
(* The search for a server ends with connection_refused only if at every   *)
(* address the service was missing at some time since it began, or could   *)
(* not be reached (rpcbind.cc:81).                                         *)
(***************************************************************************)
SearchFinds == search = "refused" => steady \subseteq unreached
=============================================================================
