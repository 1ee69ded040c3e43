------------------------------ MODULE LoaddBoot ------------------------------
(***************************************************************************)
(* loadd from main() to exit: booting the coprocessor (Coprocessor.cpp),   *)
(* the RPC server's event base, an rpmsg endpoint and a handler for each   *)
(* channel, and every way out again, with the destructors main()'s locals  *)
(* run: lrpc before cop, the reverse of their declarations.                *)
(*                                                                         *)
(* Of the kernel, outside the repository: remoteproc refuses a firmware    *)
(* name with EBUSY unless the M4 is offline; stopping the M4 removes every *)
(* rpmsg device; a device outlives the process that made it; a new device  *)
(* has the lowest free number.                                             *)
(***************************************************************************)
EXTENDS Naturals

CONSTANT MaxKills   (* bound: times loadd is killed                        *)

ASSUME BootAssumption == MaxKills \in Nat

VARIABLES
  pc,           (* where main() is; "off" when no process runs             *)
  m4,           (* the coprocessor: "offline" or "running"                 *)
  coprocState,
  devs,         (* numbers of the /dev/rpmsgN there are                    *)
  chan,         (* rpcChannels: the device number of each open channel     *)
  evbase,       (* RpcServer's event base exists                           *)
  confd,        (* confd accepts connections                               *)
  stopFailed,   (* a write of "stop" failed                                *)
  kills

procVars == <<coprocState, chan, evbase>>
flagVars == <<confd, stopFailed, kills>>
bootVars == <<pc, m4, devs, procVars, flagVars>>

(* kRpcChannels, in the order they are connected.                          *)
Channels == {"control", "confd"}
NoDev == 99
Closed == [ch \in Channels |-> NoDev]
Open == {ch \in Channels : chan[ch] # NoDev}
NextChannel == IF "control" \in Open THEN "confd" ELSE "control"

BootInit ==
  /\ pc = "off" /\ m4 = "offline" /\ devs = {}
  /\ coprocState = "Unknown" /\ chan = Closed /\ evbase = FALSE
  /\ confd \in BOOLEAN
  /\ stopFailed = FALSE /\ kills = 0

(***************************************************************************)
(* The way out                                                             *)
(***************************************************************************)
(* stop(): the M4 goes offline, and the devices with it, or the write      *)
(* fails.                                                                  *)
StopM4(left) ==
  \/ m4' = "offline" /\ devs' = {} /\ UNCHANGED stopFailed
  \/ m4' = m4 /\ devs' = left /\ stopFailed' = TRUE

(* Mutant of Unwind: cop's destructor leaves the M4 as it is.              *)
UnwindRunning(left) ==
  /\ pc' = "off"
  /\ evbase' = FALSE
  /\ m4' = m4 /\ devs' = left /\ UNCHANGED stopFailed
  /\ coprocState' = "Unknown"
  /\ chan' = Closed

(* return 1: lrpc's destructor frees the event base, then cop's stops the  *)
(* M4 if it is running and frees the handlers with their bufferevents.     *)
Unwind(left) ==
  /\ pc' = "off"
  /\ evbase' = FALSE
  /\ IF coprocState = "Running" THEN StopM4(left)
                                ELSE m4' = m4 /\ devs' = left /\ UNCHANGED stopFailed
  /\ coprocState' = "Unknown"
  /\ chan' = Closed

(***************************************************************************)
(* Start-up                                                                *)
(***************************************************************************)
Start ==
  /\ pc = "off"
  /\ pc' = "load"
  /\ UNCHANGED <<m4, devs, procVars, flagVars>>

LoadFirmware ==
  /\ pc = "load"
  /\ m4 = "offline"
  /\ pc' = "start"
  /\ UNCHANGED <<m4, devs, procVars, flagVars>>

StartM4 ==
  /\ pc = "start"
  /\ m4' = "running"
  /\ coprocState' = "Running"
  /\ pc' = "serve"
  /\ UNCHANGED <<devs, chan, evbase, flagVars>>

MakeServer ==
  /\ pc = "serve"
  /\ evbase' = TRUE
  /\ pc' = "rpc"
  /\ UNCHANGED <<m4, devs, coprocState, chan, flagVars>>

(* initRpc() first destroys the endpoints it finds; failures are logged.   *)
DestroyAllRpcEndpoints ==
  /\ pc = "rpc"
  /\ devs' \in SUBSET devs
  /\ pc' = "connect"
  /\ UNCHANGED <<m4, procVars, flagVars>>

LowestFree == CHOOSE n \in 0 .. 9 : n \notin devs /\ \A k \in 0 .. n - 1 : k \in devs
Expected == IF devs = {} THEN 0
            ELSE 1 + CHOOSE n \in devs : \A k \in devs : k <= n

(* Mutant of ConnectChannel: a handler's exception is swallowed.           *)
SwallowHandlerError ==
  /\ pc = "connect"
  /\ LowestFree = Expected
  /\ devs' = devs \cup {LowestFree}
  /\ \/ chan' = [chan EXCEPT ![NextChannel] = LowestFree]
     \/ UNCHANGED chan
  /\ pc' = IF NextChannel = "confd" THEN "loop" ELSE "connect"
  /\ UNCHANGED <<m4, coprocState, evbase, flagVars>>

(* connectRpcEndpoint() looks for the new device at Expected.              *)
ConnectChannel ==
  /\ pc = "connect"
  /\ LowestFree = Expected
  /\ NextChannel = "confd" => confd
  /\ devs' = devs \cup {LowestFree}
  /\ chan' = [chan EXCEPT ![NextChannel] = LowestFree]
  /\ pc' = IF NextChannel = "confd" THEN "loop" ELSE "connect"
  /\ UNCHANGED <<m4, coprocState, evbase, flagVars>>

(* Any step of start-up can throw; on the channels the endpoint may have   *)
(* been made by then.                                                      *)
StartupThrows ==
  /\ pc \in {"load", "start", "serve", "rpc", "connect"}
  /\ \/ Unwind(devs)
     \/ pc = "connect" /\ Unwind(devs \cup {LowestFree})
  /\ UNCHANGED <<confd, kills>>

(***************************************************************************)
(* Shut-down and the outside                                               *)
(***************************************************************************)
(* stop(), cop.reset(), lrpc.reset(); if stop() throws, return 1 with both *)
(* still there, and cop's destructor tries once more.                      *)
ShutDown ==
  /\ pc = "loop"
  /\ \/ /\ m4' = "offline" /\ devs' = {}
        /\ pc' = "off" /\ coprocState' = "Unknown" /\ chan' = Closed /\ evbase' = FALSE
        /\ UNCHANGED stopFailed
     \/ Unwind(devs) /\ stopFailed'
  /\ UNCHANGED <<confd, kills>>

(* SIGKILL, or the watchdog: no destructor runs.                           *)
Kill ==
  /\ pc # "off"
  /\ kills < MaxKills
  /\ kills' = kills + 1
  /\ pc' = "off" /\ coprocState' = "Unknown" /\ chan' = Closed /\ evbase' = FALSE
  /\ UNCHANGED <<m4, devs, confd, stopFailed>>

ConfdChanges ==
  /\ confd' = ~confd
  /\ UNCHANGED <<pc, m4, devs, procVars, stopFailed, kills>>

Main == \/ Start \/ LoadFirmware \/ StartM4 \/ MakeServer \/ DestroyAllRpcEndpoints
        \/ ConnectChannel \/ StartupThrows \/ ShutDown

BootNext == Main \/ Kill \/ ConfdChanges

BootSpec == BootInit /\ [][BootNext]_bootVars

(***************************************************************************)
(* Properties                                                              *)
(***************************************************************************)
BootTypeOK ==
  /\ pc \in {"off", "load", "start", "serve", "rpc", "connect", "loop"}
  /\ m4 \in {"offline", "running"}
  /\ coprocState \in {"Unknown", "Running"}
  /\ devs \subseteq 0 .. 1
  /\ chan \in [Channels -> {NoDev, 0, 1}]
  /\ {evbase, confd, stopFailed} \subseteq BOOLEAN
  /\ kills \in 0 .. MaxKills

(* However loadd ends, at whatever step of start-up, it leaves the M4 as   *)
(* it found it: offline, unless it was killed or the driver refused.       *)
M4NotOrphaned == pc = "off" /\ m4 = "running" => kills > 0 \/ stopFailed

(* The event loop is only entered with the M4 running, both channels open, *)
(* each on a device of its own, and no other endpoint about.               *)
LoopReady ==
  pc = "loop" => /\ m4 = "running" /\ evbase
                 /\ Open = Channels
                 /\ chan["control"] # chan["confd"]
                 /\ devs = {chan[ch] : ch \in Channels}

==============================================================================
