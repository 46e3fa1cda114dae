----------------------------- MODULE Rendezvous -----------------------------
(***************************************************************************)
(* How the controllers of a job agree on a port, in startup: rank 0 binds  *)
(* its listener and writes the port it got to a file; every other rank     *)
(* sleeps for a second, reads the file and binds to what it read.          *)
(*                                                                         *)
(* A sleep orders nothing, so that a rank may read before, while and after *)
(* rank 0 writes.  Opening the file for writing empties it.  Port numbers  *)
(* are taken from the socket address and put back as they are (PORT_REMAP  *)
(* is not defined), so that their byte order does not matter.  Without     *)
(* SLURM_PROCID every process takes itself for rank 0.                     *)
(***************************************************************************)
EXTENDS Naturals

CONSTANTS
    Rank,       \* the ranks; 0 is one of them
    Config,     \* the ports that the job may be configured with
    Ephemeral,  \* the ports, other than 0, that the system may choose
    Stale,      \* the ports that the file of an earlier job may hold
    NoFile, Empty

VARIABLES
    file,    \* port-server.cfg
    port,    \* rank -> _port
    bound,   \* rank -> _localAddress.sin_port, once bound
    pc       \* rank -> where its startup is

vars == <<file, port, bound, pc>>

Init ==
    /\ file \in Stale \cup {NoFile}
    /\ \E p \in Config : port = [r \in Rank |-> p]
    /\ bound = [r \in Rank |-> 0]
    /\ pc = [r \in Rank |-> IF r = 0 THEN "bind" ELSE "sleep"]

Goto(r, from, to) == pc[r] = from /\ pc' = [pc EXCEPT ![r] = to]

\* What getLocalPort gives after bind: for port 0, one that the system chose.
BoundPorts(p) == IF p = 0 THEN Ephemeral ELSE {p}

\* The constructor of RdmaServer; then _port follows the port that was bound.
\* (Rank 0 writes the file in between, but nothing reads its _port there.)
Bind(r) ==
    /\ Goto(r, "bind", IF r = 0 THEN "open" ELSE "listening")
    /\ \E p \in BoundPorts(port[r]) :
          /\ bound' = [bound EXCEPT ![r] = p]
          /\ port' = [port EXCEPT ![r] = p]
    /\ UNCHANGED file

\* rdma_bind_addr fails: abort().
BindAborts(r) ==
    /\ Goto(r, "bind", "aborted")
    /\ UNCHANGED <<file, port, bound>>

\* std::ofstream truncates the file, ...
OpenFile ==
    /\ Goto(0, "open", "write")
    /\ file' = Empty
    /\ UNCHANGED <<port, bound>>

\* ... and std::endl writes the line.
WriteFile ==
    /\ Goto(0, "write", "listening")
    /\ file' = bound[0]
    /\ UNCHANGED <<port, bound>>

\* sleep(1), then >>, which leaves _port alone when there is nothing to read.
ReadFile(r) ==
    /\ Goto(r, "sleep", "bind")
    /\ port' = IF file \in {NoFile, Empty} THEN port ELSE [port EXCEPT ![r] = file]
    /\ UNCHANGED <<file, bound>>

Next ==
    \/ \E r \in Rank : Bind(r) \/ BindAborts(r) \/ ReadFile(r)
    \/ OpenFile \/ WriteFile

Spec == Init /\ [][Next]_vars

-----------------------------------------------------------------------------
\* "if multiple servers are run, they should use the same port, so only rank 0
\* should set it and the rest, copy it": controllers that listen do so on one
\* port.
SamePort ==
    \A r, s \in Rank :
        pc[r] = "listening" /\ pc[s] = "listening" => bound[r] = bound[s]
=============================================================================
