------------------------------ MODULE MCThreads ------------------------------
(* What threads share and wait for, checked one beside the other: the gate of *)
(* the index scans, the index itself, the host of the plugins, the            *)
(* notifications and the clipboard.  They share no variable, so each          *)
(* behaviour is a behaviour of one of them, while the others stay in their    *)
(* initial state.                                                             *)
EXTENDS IndexScanGate, FileIndex, PluginHost, NotificationCenter, ClipboardStore

(* Some texts of one size, and one that is too long. *)
TextSizes == [a |-> 1, b |-> 2, c |-> 2, d |-> 3, e |-> 4]

(* One path, where only the progress of the scans matters.                    *)
CONSTANT root
OnePath == {root}
OneUnder == [p \in OnePath |-> OnePath]
OneConfigs == {{}, {root}}

VARIABLE part

indexVars == <<gateVars, vars>>
shownVars == <<noticeVars, clipboardVars>>
threadVars == <<indexVars, hostVars, shownVars, part>>

ThreadsInit ==
  /\ part \in {"gate", "index", "host", "notices", "clipboard"}
  /\ GateInit /\ HostInit /\ ClipboardInit
  /\ Init /\ (part # "index" => disk = {} /\ config = {})
  /\ NoticeInit /\ (part # "notices" => showing)

ThreadsNext ==
  /\ UNCHANGED part
  /\ \/ part = "gate" /\ GateNext /\ UNCHANGED <<vars, hostVars, shownVars>>
     \/ part = "index" /\ Next /\ UNCHANGED <<gateVars, hostVars, shownVars>>
     \/ part = "host" /\ HostNext /\ UNCHANGED <<indexVars, shownVars>>
     \/ part = "notices" /\ NoticeNext /\ UNCHANGED <<indexVars, hostVars, clipboardVars>>
     \/ part = "clipboard" /\ ClipboardNext /\ UNCHANGED <<indexVars, hostVars, noticeVars>>

(* The fairness of each module, for the part that runs.                       *)
ThreadsFairness ==
  /\ \A w \in Waiters : WF_gateVars(part = "gate" /\ WaitReturn(w))
  /\ WF_gateVars(part = "gate" /\ \E success \in BOOLEAN : Complete(begun, success))
  /\ WF_vars(part = "index" /\ ScanThread) /\ WF_vars(part = "index" /\ WatchThread)
  /\ WF_vars(part = "index" /\ SaveSettings)
  /\ \A l \in Launchers : /\ SF_vars(part = "index" /\ LaunchBegin(l))
                          /\ WF_vars(part = "index" /\ LaunchThread(l))
  /\ WF_hostVars(part = "host" /\ Unloading)
  /\ \A t \in Threads : WF_hostVars(part = "host" /\ Answering(t))
  /\ \A t \in Publishers : WF_noticeVars(part = "notices" /\ PostReady(t))
  /\ WF_noticeVars(part = "notices" /\ (OnReady \/ OnTimer \/ LookForMore))

ThreadsSpec == ThreadsInit /\ [][ThreadsNext]_threadVars /\ ThreadsFairness
=============================================================================
