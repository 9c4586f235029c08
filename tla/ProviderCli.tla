----------------------------- MODULE ProviderCli -----------------------------
(***************************************************************************)
(* The provider's command line, node-agent/src/infer_cli.rs: infer connect *)
(* opens a tunnel with a bore process, registers the node, saves           *)
(* ~/.infer/state.json and sends heartbeats until it is interrupted;       *)
(* infer disconnect works from the file alone, in a process of its own.    *)
(*                                                                         *)
(* A bore process is named after the connect process that spawned it, and  *)
(* so are what the file says and the public address of its tunnel.  All    *)
(* connects of a machine share the file, and the name provider-HOSTNAME    *)
(* under which the coordinator keeps one address.                          *)
(***************************************************************************)
EXTENDS Integers, FiniteSets

CONSTANTS
    Connect,      \* the runs of infer connect
    Disconnect,   \* the runs of infer disconnect
    NoFile        \* there is no state file

ASSUME FileAssumption == NoFile \notin Connect /\ Connect \cap Disconnect = {}

VARIABLES
    at,          \* per run of either: what it does next, or how it ended
    bore,        \* bore processes that are alive
    file,        \* the state file
    read,        \* per infer disconnect: what it found in the file
    sent,        \* connects with a heartbeat under way
    published    \* the connect whose address the coordinator has for the node

cliVars == <<at, bore, file, read, sent, published>>

Running == {"start", "spawned", "tunnelled", "registered", "beating", "stopping"}
Ended == {"failed", "interrupted", "terminated", "done"}

-----------------------------------------------------------------------------
CliInit ==
    /\ at = [p \in Connect \cup Disconnect |-> "start"]
    /\ bore = {}
    /\ file = NoFile
    /\ read = [d \in Disconnect |-> NoFile]
    /\ sent = {}
    /\ published = NoFile

GoTo(p, where) == at' = [at EXCEPT ![p] = where]

\* infer connect: Ollama answers, bore is installed, and it is spawned.
SpawnBore(c) ==
    /\ at[c] = "start"
    /\ bore' = bore \cup {c}
    /\ GoTo(c, "spawned")
    /\ UNCHANGED <<file, read, sent, published>>

\* The public port is read from what bore has printed; bore may be gone by then.
TunnelOpens(c) ==
    /\ at[c] = "spawned"
    /\ GoTo(c, "tunnelled")
    /\ UNCHANGED <<bore, file, read, sent, published>>

\* The first registration; the coordinator's answer is a success.
Register(c) ==
    /\ at[c] = "tunnelled"
    /\ published' = c
    /\ GoTo(c, "registered")
    /\ UNCHANGED <<bore, file, read, sent>>

Save(c) ==
    /\ at[c] = "registered"
    /\ file' = c
    /\ GoTo(c, "beating")
    /\ UNCHANGED <<bore, read, sent, published>>

\* The heartbeat task, every 30 seconds; it awaits an answer before the next.
Beat(c) ==
    /\ at[c] = "beating" /\ c \notin sent
    /\ sent' = sent \cup {c}
    /\ UNCHANGED <<at, bore, file, read, published>>

\* Mutant of Arrive: the upsert leaves the address of a node it knows alone.
ArriveKnown(c) ==
    /\ c \in sent
    /\ sent' = sent \ {c}
    /\ published' = IF published = NoFile THEN c ELSE published
    /\ UNCHANGED <<at, bore, file, read>>

\* It reaches the coordinator, perhaps after the end of the connect that sent it.
Arrive(c) ==
    /\ c \in sent
    /\ sent' = sent \ {c}
    /\ published' = c
    /\ UNCHANGED <<at, bore, file, read>>

\* It is lost or refused.  The task says so and goes on.
Lose(c) ==
    /\ c \in sent
    /\ sent' = sent \ {c}
    /\ UNCHANGED <<at, bore, file, read, published>>

\* Ollama or bore is missing, bore ends or prints no port, the coordinator
\* refuses or its answer is lost, the file cannot be written: infer connect ends
\* with an error.  It does not stop what it has started.
Bail(c, reached) ==
    /\ at[c] \in {"start", "spawned", "tunnelled", "registered"}
    /\ published' = IF reached /\ at[c] = "tunnelled" THEN c ELSE published
    /\ GoTo(c, "failed")
    /\ UNCHANGED <<bore, file, read, sent>>

\* Mutant of Interrupt: the file is removed, the tunnel left open.
InterruptFileOnly(c) ==
    /\ at[c] = "beating"
    /\ file' = NoFile
    /\ GoTo(c, "interrupted")
    /\ UNCHANGED <<bore, read, sent, published>>

\* Ctrl-C in the heartbeat loop: the tunnel is closed and the file removed.
Interrupt(c) ==
    /\ at[c] = "beating"
    /\ bore' = bore \ {c}
    /\ file' = NoFile
    /\ GoTo(c, "interrupted")
    /\ UNCHANGED <<read, sent, published>>

\* SIGTERM, for which there is no handler, or Ctrl-C before the loop.
Terminate(c) ==
    /\ at[c] \in Running
    /\ GoTo(c, IF at[c] = "beating" THEN "terminated" ELSE "failed")
    /\ UNCHANGED <<bore, file, read, sent, published>>

\* bore ends by itself; infer connect does not notice.
BoreEnds(c) ==
    /\ c \in bore
    /\ bore' = bore \ {c}
    /\ UNCHANGED <<at, file, read, sent, published>>

\* Mutant of KillTunnel: the file is taken to be there.
KillUnchecked(d) ==
    /\ at[d] = "start"
    /\ read' = [read EXCEPT ![d] = file]
    /\ bore' = bore \ {file}
    /\ GoTo(d, "stopping")
    /\ UNCHANGED <<file, sent, published>>

\* infer disconnect: the file is read, the process it names is killed.
KillTunnel(d) ==
    /\ at[d] = "start" /\ file # NoFile
    /\ read' = [read EXCEPT ![d] = file]
    /\ bore' = bore \ {file}
    /\ GoTo(d, "stopping")
    /\ UNCHANGED <<file, sent, published>>

NoConnection(d) ==
    /\ at[d] = "start" /\ file = NoFile
    /\ GoTo(d, "failed")
    /\ UNCHANGED <<bore, file, read, sent, published>>

\* After a pause the file is removed, whichever it is by then.
RemoveFile(d) ==
    /\ at[d] = "stopping"
    /\ file' = NoFile
    /\ GoTo(d, "done")
    /\ UNCHANGED <<bore, read, sent, published>>

Halt == (\A p \in DOMAIN at : at[p] \in Ended) /\ UNCHANGED cliVars

CliNext ==
    \/ \E c \in Connect :
          \/ SpawnBore(c) \/ TunnelOpens(c) \/ Register(c) \/ Save(c) \/ Interrupt(c)
          \/ Beat(c) \/ Arrive(c) \/ Lose(c)
          \/ Terminate(c) \/ BoreEnds(c) \/ \E reached \in BOOLEAN : Bail(c, reached)
    \/ \E d \in Disconnect : KillTunnel(d) \/ NoConnection(d) \/ RemoveFile(d)
    \/ Halt

\* The heartbeat task runs while its process does, and not all of what it sends is
\* lost.  Nothing is assumed of users, of bore, or of how far a connect gets.
CliSpec ==
    /\ CliInit /\ [][CliNext]_cliVars
    /\ \A c \in Connect : WF_cliVars(Beat(c)) /\ SF_cliVars(Arrive(c))

-----------------------------------------------------------------------------
CliTypeOK ==
    /\ at \in [Connect \cup Disconnect -> Running \cup Ended]
    /\ bore \subseteq Connect
    /\ file \in Connect \cup {NoFile}
    /\ read \in [Disconnect -> Connect \cup {NoFile}]
    /\ sent \subseteq Connect
    /\ published \in Connect \cup {NoFile}
    /\ \A c \in bore : at[c] # "start"
    /\ \A d \in Disconnect : read[d] = NoFile <=> at[d] \in {"start", "failed"}

\* After Ctrl-C in the heartbeat loop neither the tunnel nor the file of the
\* connect is left (infer_cli.rs:390-397).
InterruptCleans == \A c \in Connect : at[c] = "interrupted" => c \notin bore /\ file # c

\* Whoever took the node's address over, a connect that is left alone with its
\* heartbeats gets it back: no registration of a connect that has ended, late as
\* its last heartbeat may arrive, keeps the coordinator from the tunnel that is
\* kept (infer_cli.rs:320-324, 356-388; routes/nodes.rs:33-56).
AddressSettles ==
    \A c \in Connect :
        LET alone == at[c] = "beating" /\ \A o \in Connect \ {c} : at[o] \in Ended
        IN  <>[]alone => <>[](published = c)
=============================================================================
