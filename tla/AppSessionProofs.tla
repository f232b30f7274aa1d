-------------------------- MODULE AppSessionProofs --------------------------
(***************************************************************************)
(* That the one app slot has one claimant, and that the pool and the       *)
(* storage lock are left taken in one way only, for all sets of apps,      *)
(* entries and locks, every length of the action queue and every depth of  *)
(* the screen stack.                                                       *)
(***************************************************************************)
EXTENDS AppSession, TLAPS

\* The bound context and the flags of a headless run stand for the app task.
SlotAgrees ==
  /\ context <=> task # "none"
  /\ task # "none" => (bgActive <=> isBg)
  /\ bgActive => task # "none"
  /\ bgDone => bgActive /\ task = "suspended"
  /\ io => task \in {"run", "stop"}

\* Between the check that finds the slot free and the handle that takes it.
LaunchIsClear ==
  /\ main \in {"launched", "bg_launched"} => task # "none"
  /\ main = "bg_launch" => Top(stack) = "launcher"
  /\ main \in {"launch", "launched", "bg_launch", "bg_launched"} => serial # "session"

\* Where a task that waits, or whose close is requested, can be.
WaitInv ==
  /\ task = "cleanup" => ~blocked
  /\ closeReq /\ ~isBg => task \notin {"entry", "load"}

SlotInv == OneClaimant /\ SlotAgrees /\ LaunchIsClear

-----------------------------------------------------------------------------
(* What the operations on the screen stack return.                         *)

IsStack(s) ==
  s \in Seq(Screens) /\ Len(s) >= 1 /\ Len(s) <= StackLimit /\ s[1] = "launcher"

LEMMA LimitIsNat == StackLimit \in Nat /\ StackLimit >= 2
  BY BoundsAssumption

LEMMA PushStack == ASSUME NEW s, IsStack(s), NEW e \in Screens PROVE IsStack(Push(s, e))
<1>1. s \in Seq(Screens) /\ Len(s) \in Nat /\ Len(s) >= 1 /\ s[1] = "launcher"
  BY DEF IsStack
<1>2. /\ Append(s, e) \in Seq(Screens) /\ Len(Append(s, e)) = Len(s) + 1
      /\ Append(s, e)[1] = s[1]
  BY <1>1
<1> QED BY <1>1, <1>2, LimitIsNat DEF IsStack, Push

LEMMA PopStack == ASSUME NEW s, IsStack(s) PROVE IsStack(Pop(s))
<1>1. s \in Seq(Screens) /\ s[1] = "launcher"
  BY DEF IsStack
<1>2. Len(s) \in Nat /\ Len(s) >= 1 /\ Len(s) <= StackLimit
  BY DEF IsStack
<1>3. ASSUME NEW n \in Nat, Len(s) = n + 1, n >= 1
      PROVE  IsStack(SubSeq(s, 1, n)) /\ Pop(s) = SubSeq(s, 1, n)
  <2>1. \A i \in 1..n : s[i] \in Screens
    BY <1>1, <1>3
  <2>2. SubSeq(s, 1, n) \in Seq(Screens) /\ Len(SubSeq(s, 1, n)) = n /\ SubSeq(s, 1, n)[1] = s[1]
    BY <1>1, <1>3, <2>1
  <2>3. n <= StackLimit /\ Len(s) # 1 /\ Len(s) - 1 = n
    BY <1>2, <1>3, LimitIsNat
  <2> QED BY <1>1, <1>3, <2>2, <2>3 DEF IsStack, Pop
<1>4. Len(s) = 1 \/ \E n \in Nat : Len(s) = n + 1 /\ n >= 1
  <2>1. \A k \in Nat : k >= 1 => k = 1 \/ \E n \in Nat : k = n + 1 /\ n >= 1
    <3> TAKE k \in Nat
    <3> HAVE k >= 1
    <3>1. CASE k # 1
      <4>1. k - 1 \in Nat /\ k = (k - 1) + 1 /\ k - 1 >= 1
        BY <3>1
      <4> QED BY <4>1
    <3> QED BY <3>1
  <2> QED BY <1>2, <2>1
<1> QED BY <1>3, <1>4 DEF Pop

LEMMA RootStacks ==
  /\ IsStack(Root) /\ Top(Root) = "launcher"
  /\ \A e \in Screens : IsStack(Root \o <<e>>) /\ Top(Root \o <<e>>) = e
<1>1. Root \in Seq(Screens) /\ Len(Root) = 1 /\ Root[1] = "launcher"
  BY DEF Root, Screens, Reserved
<1>2. ASSUME NEW e \in Screens
      PROVE  /\ Root \o <<e>> \in Seq(Screens) /\ Len(Root \o <<e>>) = 2
             /\ (Root \o <<e>>)[1] = "launcher" /\ (Root \o <<e>>)[2] = e
  BY DEF Root, Screens, Reserved
<1>3. IsStack(Root) /\ Top(Root) = "launcher"
  BY <1>1, LimitIsNat DEF IsStack, Top
<1>4. ASSUME NEW e \in Screens PROVE IsStack(Root \o <<e>>) /\ Top(Root \o <<e>>) = e
  BY <1>2, LimitIsNat DEF IsStack, Top
<1> QED BY <1>3, <1>4

LEMMA BootStacks == ASSUME locked \in Locks PROVE IsStack(BootStack)
  BY RootStacks, AppsAssumption DEF BootStack, Screens

LEMMA TopScreen == ASSUME NEW s, IsStack(s) PROVE Top(s) \in Screens
  BY DEF IsStack, Top

-----------------------------------------------------------------------------
(* Types.                                                                  *)

KeyFields == /\ actions \in Seq(Keys) /\ Len(actions) <= ActionDepth
             /\ presses \in Nat /\ presses <= PressMax

Flags == /\ awake \in BOOLEAN /\ ejectFlag \in BOOLEAN /\ ejected \in BOOLEAN
         /\ blocked \in BOOLEAN /\ io \in BOOLEAN /\ failed \in BOOLEAN
         /\ isMp \in BOOLEAN /\ isBg \in BOOLEAN /\ handle \in BOOLEAN
         /\ context \in BOOLEAN /\ closeReq \in BOOLEAN /\ bgActive \in BOOLEAN
         /\ bgDone \in BOOLEAN /\ overrun \in BOOLEAN /\ lock \in BOOLEAN /\ shown \in BOOLEAN

Places == /\ locked \in Locks /\ main \in MainSteps /\ task \in TaskSteps
          /\ dialog \in Apps \cup {NoApp} /\ appId \in Apps \cup {NoApp}
          /\ crash \in Apps \cup {NoApp} /\ pool \in {"free", "app", "webdav"}
          /\ serial \in {"idle", "consent", "session"}

Fields == KeyFields /\ Flags /\ Places

LEMMA TypesAreFields == TypeOK <=> Fields /\ IsStack(stack)
<1>1. stack \in Seq(Screens) /\ Len(stack) \in 1..StackLimit /\ stack[1] = "launcher"
        <=> IsStack(stack)
  BY LimitIsNat DEF IsStack
<1>2. presses \in 0..PressMax <=> presses \in Nat /\ presses <= PressMax
  BY BoundsAssumption
<1> QED BY <1>1, <1>2 DEF TypeOK, Fields, KeyFields, Flags, Places

LEMMA RestartTypes == ASSUME Fields, Restart PROVE Fields' /\ IsStack(stack)'
<1>1. KeyFields'
  BY BoundsAssumption DEF KeyFields, Restart
<1>2. Flags'
  BY DEF Flags, Restart
<1>3. Places'
  BY DEF Fields, Places, Restart, MainSteps, TaskSteps
<1>4. locked \in Locks
  BY DEF Fields, Places
<1>5. IsStack(stack)'
  BY <1>4, BootStacks DEF Restart
<1> QED BY <1>1, <1>2, <1>3, <1>5 DEF Fields

LEMMA ScreenNames ==
  /\ Reserved \subseteq Screens /\ Apps \subseteq Screens /\ Entries \subseteq Screens
  /\ Locks \subseteq Apps \cup {NoApp}
  BY AppsAssumption DEF Screens, Reserved

LEMMA ShellTypes ==
  ASSUME Fields, IsStack(stack), NEW k \in Keys, ShellAction(k)
  PROVE  /\ IsStack(stack)' /\ dialog' \in Apps \cup {NoApp}
         /\ pool' \in {"free", "app", "webdav"} /\ shown' \in BOOLEAN
<1>1. /\ dialog \in Apps \cup {NoApp} /\ pool \in {"free", "app", "webdav"} /\ shown \in BOOLEAN
      /\ IsStack(Pop(stack)) /\ IsStack(stack)
      /\ \A e \in Screens : IsStack(Push(stack, e))
  BY PushStack, PopStack DEF Fields, Places, Flags
<1>2. CASE Top(stack) = "webdav" /\ WebdavAction(k) /\ UNCHANGED dialog
  <2>1. stack' \in {Pop(stack), Push(stack, "webdav_passconfig"), stack}
    BY <1>2 DEF WebdavAction
  <2>2. IsStack(stack')
    BY <1>1, <2>1, ScreenNames DEF Reserved
  <2>3. pool' \in {"free", "app", "webdav"} /\ shown' \in BOOLEAN
    BY <1>1, <1>2 DEF WebdavAction, StopServer, StartServer
  <2> QED BY <1>1, <1>2, <2>2, <2>3
<1>3. CASE Top(stack) = "webdav_passconfig" /\ PassconfigAction(k) /\ UNCHANGED dialog
  BY <1>1, <1>3 DEF PassconfigAction, RestartServer
<1>4. CASE /\ Top(stack) \in {"launcher"} \cup Apps
           /\ \E e \in Entries : stack' = IF k = "OK" THEN Push(stack, e) ELSE stack
           /\ UNCHANGED <<dialog, pool, shown>>
  BY <1>1, <1>4, ScreenNames
<1>5. CASE /\ Top(stack) = "app_crash"
           /\ stack' = Pop(stack) /\ dialog' = NoApp /\ UNCHANGED <<pool, shown>>
  BY <1>1, <1>5
<1> QED BY <1>2, <1>3, <1>4, <1>5 DEF ShellAction

LEMMA DrainTypes == ASSUME Fields, IsStack(stack), Drain PROVE Fields' /\ IsStack(stack)'
<1> DEFINE k == Head(actions)
<1>1. actions # <<>> /\ actions \in Seq(Keys) /\ k \in Keys
  BY DEF Drain, Fields, KeyFields
<1>2. CASE Restart
  BY <1>2, RestartTypes
<1>3. CASE ~Restart
  <2>1. /\ main' = main /\ actions' = Tail(actions)
        /\ UNCHANGED <<awake, presses, card, run, args, slot, closeReq, bg, crash, lock>>
    BY <1>3 DEF Drain
  <2>2. KeyFields'
    <3>1. Tail(actions) \in Seq(Keys) /\ Len(Tail(actions)) <= Len(actions)
      BY <1>1
    <3> QED BY <2>1, <3>1, BoundsAssumption DEF Fields, KeyFields
  <2>3. /\ IsStack(stack)' /\ dialog' \in Apps \cup {NoApp}
        /\ pool' \in {"free", "app", "webdav"} /\ shown' \in BOOLEAN
        /\ serial' \in {"idle", "consent", "session"}
    <3>1. /\ dialog \in Apps \cup {NoApp} /\ pool \in {"free", "app", "webdav"}
          /\ shown \in BOOLEAN /\ serial \in {"idle", "consent", "session"}
      BY DEF Fields, Places, Flags
    <3>2. CASE UNCHANGED <<ui, pool, shown>> /\ (UNCHANGED serial \/ SerialHandleAction(k))
      BY <3>1, <3>2 DEF ui, SerialHandleAction
    <3>3. CASE UNCHANGED <<dialog, pool, shown, serial>> /\ stack' \in {stack, Pop(stack)}
      BY <3>1, <3>3, PopStack
    <3>4. CASE ShellAction(k) /\ UNCHANGED serial
      BY <1>1, <3>1, <3>4, ShellTypes
    <3> QED BY <1>3, <3>2, <3>3, <3>4 DEF Drain
  <2>4. Flags'
    BY <2>1, <2>3 DEF Fields, Flags, card, run, args, slot, bg
  <2>5. Places'
    BY <2>1, <2>3 DEF Fields, Places, card, run, args, slot, bg
  <2> QED BY <2>2, <2>3, <2>4, <2>5 DEF Fields
<1> QED BY <1>2, <1>3

\* The rest of the main loop, by what its stages do to the slot and the stack.
LEMMA MainTypes ==
  ASSUME Fields, IsStack(stack), MainNext, ~Drain, ~Restart
  PROVE  Fields' /\ IsStack(stack)'
<1> USE DEF MainNext, DrainDone, SyncServerState, PowerTick, EjectCheck, PreemptCheck,
            OpenCheck, Launch, Launched, BgSupervise, BgLaunch, BgLaunched, CloseCheck
<1>1. KeyFields'
  <2>1. actions' = actions /\ (presses' = presses \/ presses' = 0)
    BY DEF keys
  <2> QED BY <2>1, BoundsAssumption DEF Fields, KeyFields
<1>2. Flags'
  <2> USE DEF Fields, Flags, card, run, args, slot, bg, files, BgTeardown, TaskDeleted, TaskCreated
  <2>1. awake' \in BOOLEAN /\ ejectFlag' \in BOOLEAN /\ ejected' \in BOOLEAN /\ shown' \in BOOLEAN
    OBVIOUS
  <2>2. blocked' \in BOOLEAN /\ io' \in BOOLEAN /\ failed' \in BOOLEAN /\ lock' \in BOOLEAN
    OBVIOUS
  <2>3. isMp' \in BOOLEAN /\ isBg' \in BOOLEAN /\ handle' \in BOOLEAN /\ context' \in BOOLEAN
    OBVIOUS
  <2>4. closeReq' \in BOOLEAN /\ bgActive' \in BOOLEAN /\ bgDone' \in BOOLEAN /\ overrun' \in BOOLEAN
    OBVIOUS
  <2> QED BY <2>1, <2>2, <2>3, <2>4
<1>3. IsStack(stack)' /\ dialog' \in Apps \cup {NoApp}
  <2>1. /\ IsStack(Pop(stack)) /\ IsStack(CrashScreen) /\ IsStack(Root \o <<"sd_ejected">>)
        /\ locked # NoApp => IsStack(Push(Pop(stack), locked))
    BY PopStack, PushStack, RootStacks, ScreenNames DEF Fields, Places, CrashScreen, Reserved
  <2> QED BY <2>1 DEF Fields, Places, ui
<1>4. Places'
  <2>1. locked' \in Locks /\ main' \in MainSteps /\ task' \in TaskSteps
    BY DEF Fields, Places, run, args, BgTeardown, TaskDeleted, TaskCreated, MainSteps, TaskSteps
  <2>2. appId' \in Apps \cup {NoApp}
    <3>1. AppOpen => Top(stack) \in Apps
      BY TopScreen DEF AppOpen, Screens
    <3> QED BY <3>1, AppsAssumption DEF Fields, Places, slot, BgTeardown, TaskDeleted, TaskCreated
  <2>3. /\ crash' \in Apps \cup {NoApp} /\ pool' \in {"free", "app", "webdav"}
        /\ serial' \in {"idle", "consent", "session"}
    BY DEF Fields, Places, files
  <2> QED BY <1>3, <2>1, <2>2, <2>3 DEF Places
<1> QED BY <1>1, <1>2, <1>3, <1>4 DEF Fields

LEMMA AppTypes ==
  ASSUME Fields, IsStack(stack), AppNext
  PROVE  Fields' /\ IsStack(stack)'
<1> USE DEF AppNext, AppEntry, AppLoad, AppComputes, RequestClose, StorageCall, StorageReturn,
            AppReturns, AppStopped, AppCleanup, AppRecords, AppSyncs, AppFinishes, AppAt
<1>1. UNCHANGED <<keys, ui, card, args, slot, main, awake, shown, serial, bgActive, overrun>>
  BY DEF bg
<1>2. KeyFields' /\ IsStack(stack)'
  BY <1>1 DEF Fields, KeyFields, keys, ui
<1>3. Flags'
  <2>1. blocked' \in BOOLEAN /\ io' \in BOOLEAN
    BY DEF Fields, Flags
  <2>2. failed' \in BOOLEAN /\ lock' \in BOOLEAN
    BY DEF Fields, Flags
  <2>3. closeReq' \in BOOLEAN /\ bgDone' \in BOOLEAN
    BY DEF Fields, Flags, bg, CloseSignalled
  <2> QED BY <1>1, <2>1, <2>2, <2>3 DEF Fields, Flags, card, args, slot
<1>4. Places'
  <2>1. task' \in TaskSteps
    BY DEF Fields, Places, AfterRunner, TaskSteps
  <2>2. crash' \in Apps \cup {NoApp} /\ pool' \in {"free", "app", "webdav"}
    BY DEF Fields, Places, PoolReleased
  <2> QED BY <1>1, <2>1, <2>2 DEF Fields, Places, ui, args, slot
<1> QED BY <1>2, <1>3, <1>4 DEF Fields

LEMMA OtherTypes ==
  ASSUME Fields, IsStack(stack),
         \/ \E k \in Keys : Press(k)
         \/ CardRemoved \/ SessionStart \/ SessionEnd \/ QuotaElapses \/ UNCHANGED vars
  PROVE  Fields' /\ IsStack(stack)'
<1> USE DEF Press, CardRemoved, SessionStart, SessionEnd, QuotaElapses, vars
<1>1. KeyFields'
  <2>1. CASE UNCHANGED keys
    BY <2>1 DEF keys, Fields, KeyFields
  <2>2. ASSUME NEW k \in Keys, Press(k) PROVE KeyFields'
    <3>1. /\ Append(actions, k) \in Seq(Keys) /\ Len(Append(actions, k)) = Len(actions) + 1
          /\ Len(actions) \in Nat
      BY DEF Fields, KeyFields
    <3> QED BY <2>2, <3>1, BoundsAssumption DEF Fields, KeyFields
  <2> QED BY <2>1, <2>2
<1>2. UNCHANGED <<ui, run, args, slot, closeReq, crash, files, shown, main, awake, bgActive, bgDone>>
  BY DEF bg
<1>3. Flags'
  <2>1. ejectFlag' \in BOOLEAN /\ ejected' \in BOOLEAN /\ overrun' \in BOOLEAN
    BY DEF Fields, Flags, card, bg
  <2> QED BY <1>2, <2>1 DEF Fields, Flags, run, args, slot, files
<1>4. Places'
  BY <1>2 DEF Fields, Places, ui, run, args, slot, files
<1> QED BY <1>1, <1>2, <1>3, <1>4 DEF Fields, ui

LEMMA StepTypeOK == TypeOK /\ [Next]_vars => TypeOK'
<1> SUFFICES ASSUME Fields, IsStack(stack), [Next]_vars PROVE Fields' /\ IsStack(stack)'
  BY TypesAreFields, PTL
<1> QED BY RestartTypes, DrainTypes, MainTypes, AppTypes, OtherTypes DEF Next

LEMMA InitTypeOK == Init => TypeOK
<1> SUFFICES ASSUME Init PROVE Fields /\ IsStack(stack)
  BY TypesAreFields
<1>1. KeyFields
  BY BoundsAssumption DEF Init, KeyFields
<1>2. Places /\ IsStack(stack)
  BY BootStacks DEF Init, Places, MainSteps, TaskSteps
<1>3. Flags
  BY DEF Init, Flags
<1> QED BY <1>1, <1>2, <1>3 DEF Fields

\* Every variable keeps its type, for every instance.
THEOREM TypeCorrect == Spec => []TypeOK
  BY InitTypeOK, StepTypeOK, PTL DEF Spec

-----------------------------------------------------------------------------
(* One claimant.                                                           *)

LEMMA RestartIsClear == ASSUME TypeOK, Restart PROVE SlotInv'
  BY DEF Restart, SlotInv, OneClaimant, OneAppTask, SessionExcludesApp, BgOnlyOnLauncher,
         SlotAgrees, LaunchIsClear

LEMMA DrainKeepsSlot == ASSUME TypeOK, SlotInv, Drain PROVE SlotInv'
<1> USE DEF SlotInv, OneClaimant, OneAppTask, SessionExcludesApp, BgOnlyOnLauncher,
            SlotAgrees, LaunchIsClear
<1>1. CASE Restart
  BY <1>1, RestartIsClear
<1>2. CASE ~Restart
  <2>1. main = "drain" /\ UNCHANGED <<main, card, run, args, slot, closeReq, bg>>
    BY <1>2 DEF Drain, MainAt
  <2>2. handle => UNCHANGED <<stack, serial>>
    BY <1>2 DEF Drain, KeysDropped, ui
  <2>3. context <=> handle
    BY <2>1
  <2> QED BY <2>1, <2>2, <2>3 DEF run, args, slot, bg
<1> QED BY <1>1, <1>2

LEMMA MainKeepsSlot == ASSUME TypeOK, SlotInv, MainNext, ~Drain, ~Restart PROVE SlotInv'
<1> USE DEF SlotInv, OneClaimant, OneAppTask, SessionExcludesApp, BgOnlyOnLauncher,
            SlotAgrees, LaunchIsClear, ui, run, args, slot, bg, MainAt
<1>1. CASE DrainDone
  BY <1>1 DEF DrainDone
<1>2. CASE SyncServerState
  BY <1>2 DEF SyncServerState
<1>3. CASE PowerTick
  BY <1>3 DEF PowerTick
<1>4. CASE EjectCheck
  BY <1>4, RootStacks, ScreenNames DEF EjectCheck, Reserved
<1>5. CASE PreemptCheck
  BY <1>5 DEF PreemptCheck, AppOpen, Reserved
<1>6. CASE OpenCheck
  BY <1>6 DEF OpenCheck, SlotFree, LaunchRefused
<1>7. CASE Launch
  BY <1>7 DEF Launch, TaskCreated
<1>8. CASE Launched
  BY <1>8 DEF Launched
<1>9. CASE BgSupervise
  BY <1>9 DEF BgSupervise, BgTeardown, TaskDeleted, BgLaunchAllowed
<1>10. CASE BgLaunch
  BY <1>10 DEF BgLaunch, TaskCreated
<1>11. CASE BgLaunched
  BY <1>11 DEF BgLaunched
<1>12. CASE CloseCheck
  BY <1>12 DEF CloseCheck, CloseDue, TaskDeleted
<1> QED BY <1>1, <1>2, <1>3, <1>4, <1>5, <1>6, <1>7, <1>8, <1>9, <1>10, <1>11, <1>12 DEF MainNext

LEMMA AppKeepsSlot == ASSUME TypeOK, SlotInv, AppNext PROVE SlotInv'
<1> USE DEF AppNext, AppEntry, AppLoad, AppComputes, RequestClose, StorageCall, StorageReturn,
            AppReturns, AppStopped, AppCleanup, AppRecords, AppSyncs, AppFinishes, AppAt
<1>1. UNCHANGED <<stack, isBg, main, handle, context, serial, bgActive>>
  BY DEF ui, args, slot, bg
<1>2. task # "none" /\ task # "suspended" /\ task' # "none"
  BY DEF AfterRunner, SlotInv, SlotAgrees
<1>3. io' => task' \in {"run", "stop"}
  BY DEF AfterRunner, SlotInv, SlotAgrees
<1>4. bgDone' => bgDone \/ (isBg /\ task' = "suspended")
  BY DEF bg
<1> QED BY <1>1, <1>2, <1>3, <1>4 DEF SlotInv, OneClaimant, OneAppTask, SessionExcludesApp,
        BgOnlyOnLauncher, SlotAgrees, LaunchIsClear

LEMMA OthersKeepSlot ==
  ASSUME TypeOK, SlotInv,
         \/ \E k \in Keys : Press(k)
         \/ CardRemoved \/ SessionStart \/ SessionEnd \/ QuotaElapses \/ UNCHANGED vars
  PROVE  SlotInv'
<1>1. /\ UNCHANGED <<stack, run, args, slot, main, bgActive, bgDone>>
      /\ serial' = "session" => serial = "session"
  BY DEF Press, CardRemoved, SessionStart, SessionEnd, QuotaElapses, vars, ui, bg
<1> QED BY <1>1 DEF SlotInv, OneClaimant, OneAppTask, SessionExcludesApp, BgOnlyOnLauncher,
        SlotAgrees, LaunchIsClear, run, args, slot

LEMMA StepKeepsSlot == TypeOK /\ SlotInv /\ [Next]_vars => SlotInv'
  BY RestartIsClear, DrainKeepsSlot, MainKeepsSlot, AppKeepsSlot, OthersKeepSlot DEF Next

LEMMA InitIsClear == Init => SlotInv
  BY DEF Init, SlotInv, OneClaimant, OneAppTask, SessionExcludesApp, BgOnlyOnLauncher,
         SlotAgrees, LaunchIsClear

\* No second app task is made while one exists, no app is bound in a serial
\* session, and a headless run meets no app's screen: app_main.c and
\* jpp_app_dispatch.c around s_sd_task, whatever the tasks' timing.
THEOREM SlotHasOneClaimant == Spec => []OneClaimant
<1>1. Init => TypeOK /\ SlotInv
  BY InitTypeOK, InitIsClear
<1>2. TypeOK /\ SlotInv /\ [Next]_vars => (TypeOK /\ SlotInv)'
  BY StepTypeOK, StepKeepsSlot
<1>3. SlotInv => OneClaimant
  BY DEF SlotInv
<1> QED BY <1>1, <1>2, <1>3, PTL DEF Spec

-----------------------------------------------------------------------------
(* What is left behind, and how.                                           *)

LEMMA RestartKeepsWaits == ASSUME Restart PROVE WaitInv' /\ ~PoolOrphaned' /\ ~LockOrphaned'
  BY DEF Restart, WaitInv, PoolOrphaned, LockOrphaned

LEMMA MainKeepsWaits == ASSUME WaitInv, SlotInv, MainNext, ~Restart PROVE WaitInv'
<1> USE DEF WaitInv, run, args, slot, bg, MainAt
<1>1. CASE \/ Drain \/ DrainDone \/ SyncServerState \/ PowerTick \/ EjectCheck \/ OpenCheck
           \/ Launched \/ BgLaunched
  BY <1>1 DEF Drain, DrainDone, SyncServerState, PowerTick, EjectCheck, OpenCheck, Launched, BgLaunched
<1>2. CASE PreemptCheck
  BY <1>2 DEF PreemptCheck, BgTeardown, TaskDeleted
<1>3. CASE Launch \/ BgLaunch
  BY <1>3 DEF Launch, BgLaunch, TaskCreated
<1>4. CASE BgSupervise
  BY <1>4 DEF BgSupervise, BgTeardown, TaskDeleted
<1>5. CASE CloseCheck
  BY <1>5 DEF CloseCheck, TaskDeleted
<1> QED BY <1>1, <1>2, <1>3, <1>4, <1>5 DEF MainNext

LEMMA AppKeepsWaits == ASSUME WaitInv, AppNext PROVE WaitInv'
<1> USE DEF WaitInv, args, AppAt
<1>1. CASE AppEntry
  <2>1. ~(closeReq /\ ~isBg) /\ UNCHANGED <<closeReq, isBg>>
    BY <1>1 DEF AppEntry
  <2>2. task' # "cleanup"
    BY <1>1 DEF AppEntry, AfterRunner
  <2> QED BY <2>1, <2>2
<1>2. CASE AppLoad
  BY <1>2 DEF AppLoad
<1>3. CASE AppComputes \/ RequestClose \/ StorageCall \/ StorageReturn
  BY <1>3 DEF AppComputes, RequestClose, StorageCall, StorageReturn
<1>4. CASE AppReturns \/ AppStopped
  BY <1>4 DEF AppReturns, AppStopped
<1>5. CASE AppCleanup \/ AppRecords \/ AppSyncs \/ AppFinishes
  BY <1>5 DEF AppCleanup, AppRecords, AppSyncs, AppFinishes, AfterRunner
<1> QED BY <1>1, <1>2, <1>3, <1>4, <1>5 DEF AppNext

LEMMA OthersTakeNothing ==
  ASSUME \/ \E k \in Keys : Press(k)
         \/ CardRemoved \/ SessionStart \/ SessionEnd \/ QuotaElapses \/ UNCHANGED vars
  PROVE  UNCHANGED <<task, blocked, io, isBg, closeReq, lock, pool>>
  BY DEF Press, CardRemoved, SessionStart, SessionEnd, QuotaElapses, vars, run, args, files

LEMMA StepKeepsWaits == TypeOK /\ SlotInv /\ WaitInv /\ [Next]_vars => WaitInv'
<1> SUFFICES ASSUME SlotInv, WaitInv, [Next]_vars PROVE WaitInv'
  OBVIOUS
<1>1. CASE UNCHANGED <<task, blocked, io, isBg, closeReq, lock, pool>>
  BY <1>1 DEF WaitInv
<1> QED BY <1>1, RestartKeepsWaits, MainKeepsWaits, AppKeepsWaits, OthersTakeNothing DEF Next

NewlyOrphaned == (PoolOrphaned' /\ ~PoolOrphaned) \/ (LockOrphaned' /\ ~LockOrphaned)

\* Keys reach the servers, which take the pool only if it is free.
LEMMA ShellKeepsPool ==
  ASSUME NEW k, ShellAction(k), pool' = "app"
  PROVE  pool = "app"
  BY DEF ShellAction, WebdavAction, PassconfigAction, StopServer, StartServer, RestartServer

LEMMA MainLeaks ==
  ASSUME TypeOK, SlotInv, WaitInv, MainNext, ~Restart, NewlyOrphaned
  PROVE  CloseCutsShort
<1> USE DEF NewlyOrphaned, PoolOrphaned, LockOrphaned, run, args, slot, bg, files, MainAt
<1>1. CASE Drain
  <2>1. UNCHANGED <<task, io, lock>>
    BY <1>1 DEF Drain
  <2>2. pool' = "app" => pool = "app"
    BY <1>1, ShellKeepsPool DEF Drain
  <2> QED BY <2>1, <2>2
<1>2. CASE DrainDone \/ SyncServerState \/ PowerTick \/ EjectCheck \/ OpenCheck \/ Launched \/ BgLaunched
  BY <1>2 DEF DrainDone, SyncServerState, PowerTick, EjectCheck, OpenCheck, Launched, BgLaunched
<1>3. CASE PreemptCheck
  BY <1>3 DEF PreemptCheck, AppOpen, Reserved, SlotInv, OneClaimant, BgOnlyOnLauncher
<1>4. CASE Launch \/ BgLaunch
  BY <1>4 DEF Launch, BgLaunch, TaskCreated, SlotInv, SlotAgrees, OneClaimant, OneAppTask
<1>5. CASE BgSupervise
  BY <1>5 DEF BgSupervise, BgTeardown, TaskDeleted, SlotInv, SlotAgrees
<1>6. CASE CloseCheck
  <2>1. CloseDue /\ TaskDeleted /\ main = "close" /\ AppWaits /\ UNCHANGED files
    BY <1>6 DEF CloseCheck
  <2>2. task \in {"load", "run", "stop", "cleanup"}
    BY <2>1 DEF SlotInv, SlotAgrees
  <2>3. blocked /\ ~isBg /\ closeReq /\ ~bgActive
    BY <2>1, <2>2 DEF AppWaits, CloseDue, SlotInv, SlotAgrees
  <2> QED BY <2>1, <2>2, <2>3 DEF WaitInv, CloseCutsShort
<1> QED BY <1>1, <1>2, <1>3, <1>4, <1>5, <1>6 DEF MainNext

LEMMA AppLeavesNothing == ASSUME SlotInv, AppNext PROVE ~NewlyOrphaned
<1> USE DEF NewlyOrphaned, PoolOrphaned, LockOrphaned, AppAt
<1>1. CASE AppEntry \/ AppLoad
  BY <1>1 DEF AppEntry, AppLoad
<1>2. CASE AppComputes \/ RequestClose \/ StorageCall \/ StorageReturn
  BY <1>2 DEF AppComputes, RequestClose, StorageCall, StorageReturn
<1>3. CASE AppReturns \/ AppStopped
  BY <1>3 DEF AppReturns, AppStopped
<1>4. CASE AppCleanup
  BY <1>4 DEF AppCleanup, PoolReleased
<1>5. CASE AppRecords \/ AppSyncs \/ AppFinishes
  BY <1>5 DEF AppRecords, AppSyncs, AppFinishes
<1> QED BY <1>1, <1>2, <1>3, <1>4, <1>5 DEF AppNext

\* The pool and the storage lock stay taken after their app only when the main
\* loop deletes an app that has asked to be closed and waits in its own code or in
\* a storage call (teardown_sd_app of jpp_app_dispatch.c); nothing is assumed of
\* the app.
THEOREM OnlyTeardownLeavesBehind == Spec => OnlyTeardownLeaks
<1>1. Init => TypeOK /\ SlotInv /\ WaitInv
  BY InitTypeOK, InitIsClear DEF Init, WaitInv
<1>2. TypeOK /\ SlotInv /\ WaitInv /\ [Next]_vars => (TypeOK /\ SlotInv /\ WaitInv)'
  BY StepTypeOK, StepKeepsSlot, StepKeepsWaits
<1>3. ASSUME TypeOK, SlotInv, WaitInv, Next, NewlyOrphaned PROVE CloseCutsShort
  <2>1. ~UNCHANGED <<task, blocked, io, isBg, closeReq, lock, pool>>
    BY <1>3 DEF NewlyOrphaned, PoolOrphaned, LockOrphaned
  <2>2. ~Restart
    BY <1>3, RestartKeepsWaits DEF NewlyOrphaned
  <2> QED BY <1>3, <2>1, <2>2, MainLeaks, AppLeavesNothing, OthersTakeNothing DEF Next
<1>4. TypeOK /\ SlotInv /\ WaitInv /\ [Next]_vars => [NewlyOrphaned => CloseCutsShort]_vars
  BY <1>3
<1> QED BY <1>1, <1>2, <1>4, PTL DEF Spec, OnlyTeardownLeaks, NewlyOrphaned
=============================================================================
