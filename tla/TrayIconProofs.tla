--------------------------- MODULE TrayIconProofs ----------------------------
(***************************************************************************)
(* Proofs about TrayIcon: the lock is held by one thread at a time and     *)
(* only by the one that runs under it, the icon's memory outlives a thread *)
(* that had a window, and the thread uses a list of files that is not      *)
(* there only in the two windows the code leaves open.                     *)
(***************************************************************************)
EXTENDS TrayIcon, TLAPS

\* How far the application's thread is decides how much of the icon is there:
\* the message thread is set up while the object is half constructed, and the
\* parts that need the whole object are not reached before it is whole.
AppAndIcon ==
  /\ app \in {"idle", "threw"} => icon \notin {"base", "typed"}
  /\ app \in {"reading", "stuck"} => icon = "none"
  /\ app \in {"starting", "destroying"} => icon \in {"base", "typed"}
  /\ app \in {"sending", "joining", "freeing"} => icon = "base"
  /\ app \in {"sending", "joining"} => m_hWnd
  /\ app = "freeing" /\ m_hWnd => tray = "exited"
  /\ tray = "setup" => app = "starting" /\ ~ready /\ icon = "base"
  /\ app = "starting" /\ icon = "base" => tray \notin {"building", "menu", "command"}

IconInv == TypeOK /\ LockDiscipline /\ AppAndIcon /\ ThreadEndsBeforeFree

LEMMA IconInvInit == Init => IconInv
BY DEF Init, IconInv, TypeOK, LockDiscipline, AppAndIcon, ThreadEndsBeforeFree

\* The application's thread: construction and destruction.
LEMMA AppStepKeepsIconInv == IconInv /\ AppStep => IconInv'
<1> SUFFICES ASSUME IconInv, AppStep PROVE IconInv'
  OBVIOUS
<1> USE DEF IconInv, TypeOK, LockDiscipline, AppAndIcon, ThreadEndsBeforeFree
<1>1. CASE CreateTrayIcon
  BY <1>1 DEF CreateTrayIcon
<1>2. CASE FinishConstruction
  BY <1>2 DEF FinishConstruction
<1>3. CASE DestroyList
  BY <1>3 DEF DestroyList
<1>4. CASE ClearFilter
  BY <1>4 DEF ClearFilter
<1>5. CASE SendQuit
  BY <1>5 DEF SendQuit
<1>6. CASE QuitHandled
  BY <1>6 DEF QuitHandled, iconVars
<1>7. CASE JoinThread
  BY <1>7 DEF JoinThread, iconVars
<1>8. CASE FreeIcon
  BY <1>8 DEF FreeIcon
<1>9. CASE ReadFirstFile
  BY <1>9 DEF ReadFirstFile, iconVars
<1>10. CASE FirstFileFails
  BY <1>10 DEF FirstFileFails, iconVars
<1>11. CASE EnterDerived
  BY <1>11 DEF EnterDerived
<1>12. CASE LeaveDerived
  BY <1>12 DEF LeaveDerived
<1> QED
  BY <1>1, <1>2, <1>3, <1>4, <1>5, <1>6, <1>7, <1>8, <1>9, <1>10, <1>11, <1>12 DEF AppStep

\* The message thread by itself.
LEMMA TrayWorkKeepsIconInv == IconInv /\ TrayWork => IconInv'
<1> SUFFICES ASSUME IconInv, TrayWork PROVE IconInv'
  OBVIOUS
<1> USE DEF IconInv, TypeOK, LockDiscipline, AppAndIcon, ThreadEndsBeforeFree
<1>1. CASE CreateMessageWindow
  BY <1>1 DEF CreateMessageWindow
<1>2. CASE WindowFailed
  <2>1. /\ tray = "setup" /\ tray' = "ending" /\ ready'
        /\ UNCHANGED <<lock, app, render, icon, m_pFilter, m_hWnd, window, quit>>
    BY <1>2 DEF WindowFailed
  <2>2. TypeOK'
    BY <2>1
  <2>3. LockDiscipline'
    BY <2>1
  <2>4. AppAndIcon'
    BY <2>1
  <2> QED
    BY <2>1, <2>2, <2>3, <2>4
<1>3. CASE HandleQuit
  <2>1. /\ tray \in {"loop", "menu", "page"} /\ window' = FALSE /\ quit' = "posted"
        /\ UNCHANGED <<lock, app, tray, render, icon, m_pFilter, m_hWnd, ready>>
    BY <1>3 DEF HandleQuit
  <2>2. TypeOK'
    BY <2>1
  <2> QED
    BY <2>1, <2>2
<1>4. CASE LeaveLoop
  BY <1>4 DEF LeaveLoop, iconVars
<1>5. CASE EndThread
  BY <1>5 DEF EndThread, iconVars
<1>6. CASE BuildMenu
  BY <1>6 DEF BuildMenu, UseOfList, iconVars
<1>7. CASE RunCommand
  BY <1>7 DEF RunCommand, UseOfList, iconVars
<1>8. CASE ReleaseLock
  BY <1>8 DEF ReleaseLock, iconVars
<1> QED
  BY <1>1, <1>2, <1>3, <1>4, <1>5, <1>6, <1>7, <1>8 DEF TrayWork

\* What the user and the consumer's thread do, and the wait for the lock.
LEMMA OtherStepsKeepIconInv ==
  IconInv /\ (UserStep \/ CloseModal \/ TakeLock \/ FileFails \/ RenderStep) => IconInv'
<1> SUFFICES ASSUME IconInv, UserStep \/ CloseModal \/ TakeLock \/ FileFails \/ RenderStep
             PROVE  IconInv'
  OBVIOUS
<1> USE DEF IconInv, TypeOK, LockDiscipline, AppAndIcon, ThreadEndsBeforeFree
<1>1. CASE UserStep
  BY <1>1 DEF UserStep, RightClick, ChooseFile, OpenPropPage, ReachesDerived, iconVars
<1>2. CASE CloseModal
  BY <1>2 DEF CloseModal, DismissMenu, ClosePage, iconVars
<1>3. CASE TakeLock
  BY <1>3 DEF TakeLock, iconVars
<1>4. CASE RenderStep
  BY <1>4 DEF RenderStep, RequestFrame, RenderFrame, DeliverFrame, iconVars
<1>5. CASE FileFails
  BY <1>5 DEF FileFails, iconVars
<1> QED
  BY <1>1, <1>2, <1>3, <1>4, <1>5

LEMMA StepKeepsIconInv == IconInv /\ [Next]_vars => IconInv'
<1> SUFFICES ASSUME IconInv, [Next]_vars PROVE IconInv'
  OBVIOUS
<1>1. CASE UNCHANGED vars
  BY <1>1 DEF vars, iconVars, IconInv, TypeOK, LockDiscipline, AppAndIcon,
              ThreadEndsBeforeFree
<1> QED
  BY <1>1, AppStepKeepsIconInv, TrayWorkKeepsIconInv, OtherStepsKeepIconInv DEF Next

LEMMA IconInvariance == Spec => []IconInv
BY IconInvInit, StepKeepsIconInv, PTL DEF Spec

\* The filter's lock is held by one thread at a time, exactly while that thread
\* is in code that runs under it, and the icon is put together and
\* taken apart only under it.
THEOREM LockIsDisciplined == Spec => []LockDiscipline
<1>1. IconInv => LockDiscipline
  BY DEF IconInv
<1> QED
  BY <1>1, IconInvariance, PTL

\* The destructor's wait works: the memory of an icon with a window is freed
\* only after its thread has ended.
THEOREM MemoryOutlivesThread == Spec => []ThreadEndsBeforeFree
<1>1. IconInv => ThreadEndsBeforeFree
  BY DEF IconInv
<1> QED
  BY <1>1, IconInvariance, PTL

\* The thread uses a part of the icon that is not there only between the base
\* constructor's return and the copy of the list, or during teardown, or when it
\* never had a window: not in the base constructor, where its message loop runs
\* already, and not while the icon is whole.
THEOREM FaultsAreInTheWindows == Spec => FaultOnlyInWindow
<1> DEFINE Fault == tray' = "crashed" /\ tray # "crashed"
           InWindow == \/ app = "starting" /\ icon = "typed"
                       \/ app \in TearingDown
                       \/ ~m_hWnd
<1>1. IconInv /\ [Next]_vars => [Fault => InWindow]_vars
  <2> SUFFICES ASSUME IconInv, [Next]_vars, Fault, ~InWindow
               PROVE  FALSE
    OBVIOUS
  <2>1. /\ (EndThread /\ icon = "none") \/ BuildMenu \/ RunCommand
        /\ icon # "whole"
    BY DEF vars, iconVars, Next, AppStep, ReadFirstFile, FirstFileFails, CreateTrayIcon,
           EnterDerived, FinishConstruction, DestroyList, LeaveDerived, ClearFilter,
           SendQuit, QuitHandled, JoinThread, FreeIcon,
           TrayWork, CreateMessageWindow, WindowFailed, HandleQuit, LeaveLoop,
           EndThread, BuildMenu, RunCommand, UseOfList, ReleaseLock, UserStep, RightClick,
           ChooseFile, ReachesDerived, OpenPropPage, CloseModal, DismissMenu, ClosePage,
           TakeLock, FileFails, RenderStep, RequestFrame, RenderFrame, DeliverFrame
  <2>2. m_hWnd /\ app \in {"idle", "reading", "stuck", "threw", "starting"}
    BY DEF IconInv, TypeOK, TearingDown
  <2>3. tray \in {"ending", "building", "command"}
    BY <2>1 DEF EndThread, BuildMenu, RunCommand
  <2>4. icon # "none"
    BY <2>2, <2>3 DEF IconInv, ThreadEndsBeforeFree
  <2>5. app = "starting" /\ icon = "base"
    BY <2>1, <2>2, <2>4 DEF IconInv, TypeOK, AppAndIcon
  <2>6. tray \notin {"building", "command"}
    BY <2>5 DEF IconInv, AppAndIcon
  <2> QED
    BY <2>1, <2>4, <2>6 DEF BuildMenu, RunCommand
<1> QED
  BY <1>1, IconInvariance, PTL DEF Spec, FaultOnlyInWindow

=============================================================================
