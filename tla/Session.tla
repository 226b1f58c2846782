------------------------------- MODULE Session -------------------------------
(***************************************************************************)
(* One invocation of the program: main (main.c) takes its options, loads   *)
(* the configurations, goes to their directory and has process_config do   *)
(* each one that has the label asked for.  What process_config acquires    *)
(* through ssh_session.c - a socket, the addresses of the host, an SSH     *)
(* session, an SFTP channel, the buffer that all transfers share - and the *)
(* list of items are modelled with every call that acquires or releases    *)
(* them, and each call may fail.  What the walk and the transfers do is in *)
(* modules Sync and Transfer.                                              *)
(***************************************************************************)
EXTENDS Integers, FiniteSets

CONSTANTS
  MaxConfigs,  \* bound: number of configurations in the file
  MaxOptions,  \* bound: number of options given
  FdLimit      \* number of descriptors the process may open for sockets

ASSUME BoundsAssumption ==
  MaxConfigs \in Nat /\ MaxOptions \in Nat /\ FdLimit \in Nat

VARIABLES
  place,     \* of the config file: no directory given, a directory, the root
  reachable, \* whether that directory can be entered
  call,        \* the next call
  options,   \* number of options seen
  action,    \* what the options ask for
  wanted,    \* the configurations with the label asked for, of 1 .. size
  size,      \* number of configurations loaded
  at,        \* the configuration the loop has come to
  sockets,   \* the configurations whose socket is open
  addresses, session, channel, items,  \* what process_config holds
  buffer,    \* generic_buf: NULL, live, or freed but still pointed to
  code,      \* exit code, -1 before the end
  loggedIn,  \* history: configurations whose session came up
  handled,   \* history: configurations process_config has returned from
  starved    \* history: whether allocating the buffer failed

argVars == <<place, reachable, options, action>>
loopVars == <<wanted, size, at>>
held == <<sockets, addresses, session, channel, items, buffer>>
history == <<loggedIn, handled, starved>>
sessionVars == <<argVars, call, loopVars, held, code, history>>

Places == {"none", "directory", "root"}

SessionInit ==
  /\ place \in Places /\ reachable \in BOOLEAN
  /\ place # "directory" => reachable
  /\ call = "options" /\ options = 0 /\ action = "none"
  /\ wanted = {} /\ size = 0 /\ at = 0
  /\ sockets = {} /\ addresses = FALSE /\ session = FALSE /\ channel = FALSE
  /\ items = FALSE /\ buffer = "null" /\ code = -1
  /\ loggedIn = {} /\ handled = {} /\ starved = FALSE

Calls(l) == call' = l
Exit(n) == call' = "exit" /\ code' = n

-----------------------------------------------------------------------------
(* main.                                                                   *)

\* -l, -x, -r, -y, or a file name with a label.
Option ==
  /\ call = "options" /\ options < MaxOptions /\ options' = options + 1
  /\ action' \in {action, "list", "updown"}
  /\ UNCHANGED <<place, reachable, call, loopVars, held, code, history>>

\* -t writes a template config file and ends the program; -v, -h and unknown
\* options end it at once.
OptionEnds ==
  /\ call = "options" /\ options < MaxOptions
  /\ \E n \in {0, 1} : Exit(n)
  /\ UNCHANGED <<argVars, loopVars, held, history>>

OptionsDone ==
  /\ call = "options"
  /\ \/ action = "none" /\ Exit(1)
     \/ action # "none" /\ Calls("load") /\ UNCHANGED code
  /\ UNCHANGED <<argVars, loopVars, held, history>>

\* configs_load, and which of the labels are the one asked for.
Load ==
  /\ call = "load"
  /\ \/ Exit(1) /\ UNCHANGED loopVars
     \/ /\ Calls("cd") /\ UNCHANGED code
        /\ size' \in 0 .. MaxConfigs /\ wanted' \in SUBSET (1 .. size')
        /\ at' = 1
  /\ UNCHANGED <<argVars, held, history>>

\* cd_to_filedir: what is before the last slash is the empty string for a
\* file in the root directory, and chdir("") fails.
ChangeDirectory ==
  /\ call = "cd"
  /\ \/ (place = "none" \/ (place = "directory" /\ reachable)) /\ Calls("loop")
        /\ UNCHANGED code
     \/ (place = "root" \/ ~reachable) /\ Exit(1)
  /\ UNCHANGED <<argVars, loopVars, held, history>>

\* Whether the loop has not come to the end of the list.
More == at <= size

NextConfig ==
  /\ call = "loop" /\ More
  /\ \/ at \in wanted /\ Calls("socket") /\ UNCHANGED at
     \/ at \notin wanted /\ Calls("loop") /\ at' = at + 1
  /\ UNCHANGED <<argVars, wanted, size, held, code, history>>

\* configs_destroy, and the end.
LoopEnds ==
  /\ call = "loop" /\ ~More /\ Exit(0)
  /\ UNCHANGED <<argVars, loopVars, held, history>>

\* Mutant: a configuration that fails is tried again.
Retries == Calls("loop") /\ UNCHANGED <<at, handled>>

\* Mutant: the first failure ends the loop.
GivesUp == Calls("loop") /\ at' = size + 1 /\ handled' = handled \cup {at}

\* process_config returns; main looks at no result and goes on.
Returns == Calls("loop") /\ at' = at + 1 /\ handled' = handled \cup {at}

Unmoved == UNCHANGED <<argVars, wanted, size, code>>
Stay == UNCHANGED <<at, handled>>

-----------------------------------------------------------------------------
(* connect_tcp_server.                                                     *)
OpenSocket ==
  /\ call = "socket"
  /\ \/ Returns /\ UNCHANGED sockets
     \/ /\ Cardinality(sockets) < FdLimit
        /\ sockets' = sockets \cup {at} /\ Calls("resolve") /\ Stay
  /\ Unmoved /\ UNCHANGED <<addresses, session, channel, items, buffer, loggedIn, starved>>

Resolve ==
  /\ call = "resolve"
  /\ \/ Returns /\ sockets' = sockets \ {at} /\ UNCHANGED addresses
     \/ Calls("connect") /\ Stay /\ addresses' = TRUE /\ UNCHANGED sockets
  /\ Unmoved /\ UNCHANGED <<session, channel, items, buffer, loggedIn, starved>>

\* Also fails if the first address is not one of IPv4.
ConnectSocket ==
  /\ call = "connect" /\ addresses' = FALSE
  /\ \/ Returns /\ sockets' = sockets \ {at}
     \/ Calls("init") /\ Stay /\ UNCHANGED sockets
  /\ Unmoved /\ UNCHANGED <<session, channel, items, buffer, loggedIn, starved>>

-----------------------------------------------------------------------------
(* ssh_session_open and ssh_session_close.                                 *)

\* Mutant: generic_buf is not set to NULL when it is freed.
FreedBuffer == IF buffer = "live" THEN "freed" ELSE buffer

\* What ssh_session_close leaves in generic_buf.
ReleasedBuffer == "null"

CloseSession == session' = FALSE /\ buffer' = ReleasedBuffer

\* Mutant: a failed login does not close the socket.
KeepSocket == CloseSession /\ UNCHANGED sockets

\* The label error of ssh_session_open, which all its failures go to.
AbortOpen == CloseSession /\ sockets' = sockets \ {at}

InitSession ==
  /\ call = "init"
  /\ \/ Returns /\ AbortOpen
     \/ Calls("handshake") /\ Stay /\ session' = TRUE /\ UNCHANGED <<sockets, buffer>>
  /\ Unmoved /\ UNCHANGED <<addresses, channel, items, loggedIn, starved>>

Handshake ==
  /\ call = "handshake"
  /\ \/ Returns /\ AbortOpen
     \/ Calls("login") /\ Stay /\ UNCHANGED <<sockets, session, buffer>>
  /\ Unmoved /\ UNCHANGED <<addresses, channel, items, loggedIn, starved>>

\* The buffer is allocated unless generic_buf points to one; that malloc
\* failed is not noticed.
Login ==
  /\ call = "login"
  /\ \/ Returns /\ AbortOpen /\ UNCHANGED <<loggedIn, starved>>
     \/ /\ Calls("channel") /\ Stay /\ loggedIn' = loggedIn \cup {at}
        /\ \/ buffer = "null" /\ buffer' = "live" /\ UNCHANGED starved
           \/ buffer = "null" /\ UNCHANGED buffer /\ starved' = TRUE
           \/ buffer # "null" /\ UNCHANGED <<buffer, starved>>
        /\ UNCHANGED <<sockets, session>>
  /\ Unmoved /\ UNCHANGED <<addresses, channel, items>>

-----------------------------------------------------------------------------
(* process_config.                                                         *)

\* sftp_session_new.
OpenChannel ==
  /\ call = "channel"
  /\ \/ Returns /\ CloseSession /\ UNCHANGED channel
     \/ Calls("walk") /\ Stay /\ channel' = TRUE /\ UNCHANGED <<session, buffer>>
  /\ Unmoved /\ UNCHANGED <<sockets, addresses, items, loggedIn, starved>>

\* iterate_directory and iterate_directory_setextra.
Walk ==
  /\ call = "walk" /\ items' = TRUE /\ Calls("act") /\ Stay
  /\ Unmoved /\ UNCHANGED <<sockets, addresses, session, channel, buffer, loggedIn, starved>>

\* do_list, or do_updown with its ways out before the first transfer.
Act ==
  /\ call = "act" /\ Stay
  /\ \/ Calls("items")
     \/ action = "updown" /\ Calls("transfer")
  /\ Unmoved /\ UNCHANGED <<held, loggedIn, starved>>

\* The transfers, which read into the buffer: without one they may crash.
Transfers ==
  /\ call = "transfer" /\ Stay
  /\ \/ Calls("items") /\ UNCHANGED code
     \/ buffer # "live" /\ Exit(139)
  /\ UNCHANGED <<argVars, wanted, size, held, loggedIn, starved>>

FreeItems ==
  /\ call = "items" /\ items' = FALSE /\ Calls("shutdown") /\ Stay
  /\ Unmoved /\ UNCHANGED <<sockets, addresses, session, channel, buffer, loggedIn, starved>>

\* sftp_session_free.
ShutDown ==
  /\ call = "shutdown" /\ channel' = FALSE /\ Calls("close") /\ Stay
  /\ Unmoved /\ UNCHANGED <<sockets, addresses, session, items, buffer, loggedIn, starved>>

\* ssh_session_close does not close the socket, and nobody else knows it.
Close ==
  /\ call = "close" /\ CloseSession /\ Returns
  /\ Unmoved /\ UNCHANGED <<sockets, addresses, channel, items, loggedIn, starved>>

Exited == call = "exit" /\ UNCHANGED sessionVars

-----------------------------------------------------------------------------
ProcessConfig ==
  \/ OpenSocket \/ Resolve \/ ConnectSocket
  \/ InitSession \/ Handshake \/ Login \/ OpenChannel
  \/ Walk \/ Act \/ Transfers \/ FreeItems \/ ShutDown \/ Close

SessionStep ==
  \/ Option \/ OptionEnds \/ OptionsDone \/ Load \/ ChangeDirectory
  \/ NextConfig \/ LoopEnds \/ ProcessConfig

SessionNext == SessionStep \/ Exited

SessionSpec == SessionInit /\ [][SessionNext]_sessionVars /\ WF_sessionVars(SessionStep)

-----------------------------------------------------------------------------
SessionTypeOK ==
  /\ place \in Places /\ reachable \in BOOLEAN
  /\ call \in {"options", "load", "cd", "loop", "socket", "resolve", "connect",
               "init", "handshake", "login", "channel", "walk", "act",
               "transfer", "items", "shutdown", "close", "exit"}
  /\ options \in 0 .. MaxOptions /\ action \in {"none", "list", "updown"}
  /\ size \in 0 .. MaxConfigs /\ wanted \subseteq 1 .. size /\ at \in 0 .. size + 1
  /\ sockets \subseteq 1 .. size /\ addresses \in BOOLEAN
  /\ session \in BOOLEAN /\ channel \in BOOLEAN /\ items \in BOOLEAN
  /\ buffer \in {"null", "live", "freed"}
  /\ code \in {-1, 0, 1, 139}
  /\ loggedIn \subseteq 1 .. size /\ handled \subseteq 1 .. size
  /\ starved \in BOOLEAN

(***************************************************************************)
(* Between two configurations nothing is held but the sockets of those     *)
(* whose login succeeded: every failure path of connect_tcp_server and     *)
(* ssh_session_open closes its own, and only ssh_session_close leaks one.  *)
(***************************************************************************)
OnlySocketsLeak ==
  call = "loop" =>
    /\ sockets = loggedIn
    /\ ~addresses /\ ~session /\ ~channel /\ ~items /\ buffer # "live"

(***************************************************************************)
(* Things are released in the opposite order of their acquisition: the     *)
(* session always has its socket, the channel its session, and the items   *)
(* are only there while the channel is.                                    *)
(***************************************************************************)
Nested ==
  /\ session => at \in sockets
  /\ channel => session
  /\ items => channel

(***************************************************************************)
(* The buffer shared by all transfers is there when they use it, however   *)
(* many sessions before were closed or failed to open (each of them frees  *)
(* it), unless there was no memory for it.                                 *)
(***************************************************************************)
BufferUsable == call = "transfer" => buffer = "live" \/ starved

(***************************************************************************)
(* Once its configurations are loaded, an invocation that is not killed    *)
(* goes through all of those with the label asked for, whichever of them   *)
(* failed, and through no other, and ends with 0: unless the directory of  *)
(* the config file cannot be entered, or is the root, which it takes for   *)
(* the empty string.                                                       *)
(***************************************************************************)
AllTried ==
  call = "exit" /\ at > 0 /\ code # 139 /\ reachable /\ place # "root" =>
    code = 0 /\ handled = wanted

\* Every invocation comes to its end.
Ends == <>(call = "exit")
=============================================================================
