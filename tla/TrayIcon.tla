------------------------------ MODULE TrayIcon -------------------------------
(***************************************************************************)
(* The tray icon: its own thread with a message window, created and        *)
(* destroyed by the filter under the filter's lock, and calling back into  *)
(* the filter, which takes the same lock.  A third thread, the consumer's, *)
(* shares the lock through RequestFrame.                                   *)
(*                                                                         *)
(* Creation (CreateTrayIcon) is reached from Pause and SetMediaType,       *)
(* destruction from JoinFilterGraph(NULL); AssFilter models what else they *)
(* do.  Here a step is what one thread does between two points where       *)
(* another can interfere.  A thread that uses a part of the icon that is   *)
(* not constructed yet or already destroyed may have "crashed"; one that   *)
(* reads an SRT file may be "stuck" in it or leave it with an exception    *)
(* (see SrtFile).  After a crash or an exception nothing is claimed of the *)
(* process.                                                                *)
(***************************************************************************)

VARIABLES
  lock,       \* the holder of the filter's lock: "none", "app", "tray", "render"
  app,        \* where the application's thread is in the filter
  tray,       \* where the icon's message thread is
  render,     \* where the consumer's thread is
  icon,       \* the object: "none", "base" (only the base part, with its virtual
              \* functions), "typed" (those of the derived class, the list of
              \* files not constructed or already destroyed), "whole"
  m_pFilter,  \* is the icon's pointer to the filter set?
  m_hWnd,     \* was the message window created?
  window,     \* does the message window still exist?
  ready,      \* m_evSetupFinished
  quit        \* "no", "sent" (MSG_QUIT), "posted" (WM_QUIT)

iconVars == <<icon, m_pFilter, m_hWnd, window, ready, quit>>
vars == <<lock, app, tray, render, iconVars>>

Init ==
  /\ lock = "none"
  /\ app = "idle"
  /\ tray = "none"
  /\ render = "idle"
  /\ icon = "none"
  /\ m_pFilter = FALSE
  /\ m_hWnd = FALSE
  /\ window = FALSE
  /\ ready = FALSE
  /\ quit = "no"

-----------------------------------------------------------------------------
(* The application creates the icon and waits until the thread is set up.  *)

\* The first Pause in a graph reads the first external file under the lock, and
\* creates the icon if that returns.
ReadFirstFile ==
  /\ app = "idle"
  /\ lock = "none"
  /\ icon = "none"
  /\ lock' = "app"
  /\ app' = "reading"
  /\ UNCHANGED <<tray, render, iconVars>>

\* srt_read_file does not return; an exception releases the lock.
FirstFileFails ==
  /\ app = "reading"
  /\ app' \in {"stuck", "threw"}
  /\ lock' = IF app' = "threw" THEN "none" ELSE lock
  /\ UNCHANGED <<tray, render, iconVars>>

\* One thread at a time is followed: a thread left over from an icon that had
\* no window has ended before the next icon.
CreateTrayIcon ==
  /\ \/ app = "reading"
     \/ app = "idle" /\ lock = "none"
  /\ icon = "none"
  /\ tray \in {"none", "exited"}
  /\ lock' = "app"
  /\ app' = "starting"
  /\ icon' = "base"
  /\ m_pFilter' = TRUE
  /\ m_hWnd' = FALSE
  /\ ready' = FALSE
  /\ quit' = "no"
  /\ tray' = "setup"
  /\ UNCHANGED <<render, window>>

\* m_evSetupFinished is set and the base constructor returns: virtual calls go
\* to the derived class from here on, whose list is not there yet.
EnterDerived ==
  /\ app = "starting"
  /\ icon = "base"
  /\ ready
  /\ icon' = "typed"
  /\ UNCHANGED <<lock, app, tray, render, m_pFilter, m_hWnd, window, ready, quit>>

\* The list of files is copied, and the lock is released.
FinishConstruction ==
  /\ app = "starting"
  /\ icon = "typed"
  /\ icon' = "whole"
  /\ app' = "idle"
  /\ lock' = "none"
  /\ UNCHANGED <<tray, render, m_pFilter, m_hWnd, window, ready, quit>>

-----------------------------------------------------------------------------
(* The application destroys the icon when the filter leaves the graph.     *)

\* ~CAssFilterTrayIcon: the copy of the file list is gone.
DestroyList ==
  /\ app = "idle"
  /\ lock = "none"
  /\ icon = "whole"
  /\ lock' = "app"
  /\ app' = "destroying"
  /\ icon' = "typed"
  /\ UNCHANGED <<tray, render, m_pFilter, m_hWnd, window, ready, quit>>

\* ~CBaseTrayIcon: virtual calls go to the base class from here on.
LeaveDerived ==
  /\ app = "destroying"
  /\ icon = "typed"
  /\ icon' = "base"
  /\ UNCHANGED <<lock, app, tray, render, m_pFilter, m_hWnd, window, ready, quit>>

\* Its first statement.
ClearFilter ==
  /\ app = "destroying"
  /\ icon = "base"
  /\ m_pFilter' = FALSE
  /\ app' = IF m_hWnd THEN "sending" ELSE "freeing"
  /\ UNCHANGED <<lock, tray, render, icon, m_hWnd, window, ready, quit>>

\* SendMessage does not return before the window's thread has handled it.
SendQuit ==
  /\ app = "sending"
  /\ quit = "no"
  /\ quit' = "sent"
  /\ UNCHANGED <<lock, app, tray, render, icon, m_pFilter, m_hWnd, window, ready>>

QuitHandled ==
  /\ app = "sending"
  /\ quit = "posted"
  /\ app' = "joining"
  /\ UNCHANGED <<lock, tray, render, iconVars>>

\* WaitForSingleObject on the thread.
JoinThreadNoWait ==
  /\ app = "joining"
  /\ app' = "freeing"
  /\ UNCHANGED <<lock, tray, render, iconVars>>

JoinThread ==
  /\ app = "joining"
  /\ tray = "exited"
  /\ app' = "freeing"
  /\ UNCHANGED <<lock, tray, render, iconVars>>

FreeIcon ==
  /\ app = "freeing"
  /\ app' = "idle"
  /\ lock' = "none"
  /\ icon' = "none"
  /\ UNCHANGED <<tray, render, m_pFilter, m_hWnd, window, ready, quit>>

-----------------------------------------------------------------------------
(* The tray thread: set-up, message loop, end.                             *)

CreateMessageWindow ==
  /\ tray = "setup"
  /\ m_hWnd' = TRUE
  /\ window' = TRUE
  /\ ready' = TRUE
  /\ tray' = "loop"
  /\ UNCHANGED <<lock, app, render, icon, m_pFilter, quit>>

\* Without a window the thread ends; it still has the window class to
\* unregister, whose name is a member of the icon.
WindowFailed ==
  /\ tray = "setup"
  /\ ready' = TRUE
  /\ tray' = "ending"
  /\ UNCHANGED <<lock, app, render, icon, m_pFilter, m_hWnd, window, quit>>

\* MSG_QUIT reaches the window in any message loop, that of the menu and that
\* of the property page included: the window is destroyed, WM_QUIT posted.
HandleQuitInLoop ==
  /\ quit = "sent"
  /\ tray = "loop"
  /\ window' = FALSE
  /\ quit' = "posted"
  /\ UNCHANGED <<lock, app, tray, render, icon, m_pFilter, m_hWnd, ready>>

HandleQuit ==
  /\ quit = "sent"
  /\ tray \in {"loop", "menu", "page"}
  /\ window' = FALSE
  /\ quit' = "posted"
  /\ UNCHANGED <<lock, app, tray, render, icon, m_pFilter, m_hWnd, ready>>

LeaveLoop ==
  /\ tray = "loop"
  /\ quit = "posted"
  /\ tray' = "ending"
  /\ UNCHANGED <<lock, app, render, iconVars>>

\* The last access of the thread to the icon's members.
EndThread ==
  /\ tray = "ending"
  /\ tray' = IF icon = "none" THEN "crashed" ELSE "exited"
  /\ UNCHANGED <<lock, app, render, iconVars>>

-----------------------------------------------------------------------------
(* The tray thread: what the user does with the icon.                      *)

\* A virtual call reaches the derived class, which tests m_pFilter; the base
\* class has no menu and no commands.
ReachesDerived == icon \in {"typed", "whole"} /\ m_pFilter

\* What using the list of files does to the thread: what it does with the whole
\* icon, or, where the list is no list, any of these and a fault.
UseOfList(whole, anything) ==
  IF icon = "whole" THEN whole
  ELSE IF icon = "none" THEN {"crashed"}
  ELSE anything \cup {"crashed"}

\* A right click: GetPopupMenu.
RightClickNoTest ==
  /\ tray = "loop"
  /\ window
  /\ tray' = "building"
  /\ UNCHANGED <<lock, app, render, iconVars>>

RightClick ==
  /\ tray = "loop"
  /\ window
  /\ tray' = IF ReachesDerived THEN "building" ELSE "loop"
  /\ UNCHANGED <<lock, app, render, iconVars>>

\* The menu is built from m_pFilter and from the copy of the file list.
BuildMenu ==
  /\ tray = "building"
  /\ tray' \in UseOfList({"menu"}, {"menu"})
  /\ UNCHANGED <<lock, app, render, iconVars>>

\* The choice of a file: ProcessMenuCommand.
ChooseFile ==
  /\ tray = "menu"
  /\ window
  /\ tray' = IF ReachesDerived THEN "command" ELSE "loop"
  /\ UNCHANGED <<lock, app, render, iconVars>>

\* The menu is dismissed, or goes away with the window.
DismissMenu ==
  /\ tray = "menu"
  /\ tray' = "loop"
  /\ UNCHANGED <<lock, app, render, iconVars>>

\* The command is looked up in the copy of the file list and the filter asked
\* for its interface; then SetCurExternalSub is called.
RunCommand ==
  /\ tray = "command"
  /\ tray' \in UseOfList({"switching"}, {"switching", "loop"})
  /\ UNCHANGED <<lock, app, render, iconVars>>

TakeLock ==
  /\ tray = "switching"
  /\ lock = "none"
  /\ lock' = "tray"
  /\ tray' = "switched"
  /\ UNCHANGED <<app, render, iconVars>>

ReleaseLockLate ==
  /\ tray = "switched"
  /\ tray' = "loop"
  /\ UNCHANGED <<lock, app, render, iconVars>>

ReleaseLock ==
  /\ tray = "switched"
  /\ lock' = "none"
  /\ tray' = "loop"
  /\ UNCHANGED <<app, render, iconVars>>

\* The chosen file is an SRT file that srt_read_file does not return from.
FileFails ==
  /\ tray = "switched"
  /\ tray' \in {"stuck", "threw"}
  /\ lock' = IF tray' = "threw" THEN "none" ELSE lock
  /\ UNCHANGED <<app, render, iconVars>>

\* A left click, or the menu's last item: the filter's property page.
OpenPropPage ==
  /\ tray \in {"loop", "menu"}
  /\ window
  /\ tray' = IF m_pFilter THEN "page" ELSE "loop"
  /\ UNCHANGED <<lock, app, render, iconVars>>

\* The user closes the page, or it goes away with the window that owns it.
ClosePage ==
  /\ tray = "page"
  /\ tray' = "loop"
  /\ UNCHANGED <<lock, app, render, iconVars>>

-----------------------------------------------------------------------------
(* The consumer's thread.                                                  *)

RequestFrame ==
  /\ render = "idle"
  /\ render' = "waiting"
  /\ UNCHANGED <<lock, app, tray, iconVars>>

RenderFrame ==
  /\ render = "waiting"
  /\ lock = "none"
  /\ lock' = "render"
  /\ render' = "rendering"
  /\ UNCHANGED <<app, tray, iconVars>>

DeliverFrameLocked ==
  /\ render = "rendering"
  /\ render' = "idle"
  /\ UNCHANGED <<lock, app, tray, iconVars>>

DeliverFrame ==
  /\ render = "rendering"
  /\ lock' = "none"
  /\ render' = "idle"
  /\ UNCHANGED <<app, tray, iconVars>>

-----------------------------------------------------------------------------

AppStep ==
  \/ ReadFirstFile \/ FirstFileFails
  \/ CreateTrayIcon \/ EnterDerived \/ FinishConstruction
  \/ DestroyList \/ LeaveDerived \/ ClearFilter \/ SendQuit \/ QuitHandled
  \/ JoinThread \/ FreeIcon

\* What the tray thread does by itself, once started or called.
TrayWork ==
  \/ CreateMessageWindow \/ WindowFailed \/ HandleQuit \/ LeaveLoop \/ EndThread
  \/ BuildMenu \/ RunCommand \/ ReleaseLock

\* What the user does; nothing makes him.
UserStep == RightClick \/ ChooseFile \/ OpenPropPage

\* A menu or a page whose owner window is gone goes away too.
CloseModal == DismissMenu \/ ClosePage

RenderStep == RequestFrame \/ RenderFrame \/ DeliverFrame

Next ==
  AppStep \/ RenderStep \/ CloseModal \/ TrayWork \/ FileFails \/ TakeLock \/ UserStep

Spec == Init /\ [][Next]_vars

\* A thread that can go on does, unless it fails in a file; a thread that waits
\* for the lock gets it if it is free again and again.  A modal loop is only
\* sure to end once its window is gone.
Fairness ==
  /\ WF_vars(app = "reading" /\ CreateTrayIcon)
  /\ WF_vars(EnterDerived \/ FinishConstruction)
  /\ WF_vars(LeaveDerived \/ ClearFilter \/ SendQuit \/ QuitHandled \/ JoinThread \/ FreeIcon)
  /\ WF_vars(TrayWork)
  /\ WF_vars(~window /\ CloseModal)
  /\ SF_vars(TakeLock)
  /\ SF_vars(RenderFrame)
  /\ WF_vars(DeliverFrame)

FairSpec == Spec /\ Fairness

-----------------------------------------------------------------------------
(* Properties.                                                             *)

\* Type invariant.
TypeOK ==
  /\ lock \in {"none", "app", "tray", "render"}
  /\ app \in {"idle", "reading", "stuck", "threw", "starting", "destroying", "sending",
              "joining", "freeing"}
  /\ tray \in {"none", "setup", "loop", "building", "menu", "command",
               "switching", "switched", "page", "ending", "exited",
               "crashed", "stuck", "threw"}
  /\ render \in {"idle", "waiting", "rendering"}
  /\ icon \in {"none", "base", "typed", "whole"}
  /\ m_pFilter \in BOOLEAN
  /\ m_hWnd \in BOOLEAN
  /\ window \in BOOLEAN
  /\ ready \in BOOLEAN
  /\ quit \in {"no", "sent", "posted"}

\* A thread holds the lock exactly while it is in a part of the code that runs
\* under it, and the icon is put together and taken apart only by the holder.
LockDiscipline ==
  /\ lock = "app" <=> app \notin {"idle", "threw"}
  /\ lock = "tray" <=> tray \in {"switched", "stuck"}
  /\ lock = "render" <=> render = "rendering"
  /\ icon \in {"base", "typed"} => lock = "app"

\* The destructor's wait works: while the icon had a window, its memory is
\* freed only after the thread that uses it has ended.
ThreadEndsBeforeFree ==
  m_hWnd /\ icon = "none" => tray = "exited"

TearingDown == {"destroying", "sending", "joining", "freeing"}

\* The thread uses a part of the icon that is not there only in the two windows
\* the code leaves open, a right click between the base constructor's return and
\* the copy of the list, and a menu being built or a command run when the icon is
\* destroyed; or when it never had a window and is not waited for.  It does not
\* in the base constructor, though its message loop runs there already and may
\* have a click (AssFilterTrayIcon.cpp:31-34, BaseTrayIcon.cpp:56-63).
FaultOnlyInWindow ==
  [][tray' = "crashed" /\ tray # "crashed" =>
       \/ app = "starting" /\ icon = "typed"
       \/ app \in TearingDown
       \/ ~m_hWnd]_vars

\* A thread ended in a fault or an exception.
Ended == tray \in {"crashed", "threw"} \/ app = "threw"

\* A thread reads an SRT file for ever, under the lock.
StuckInFile == "stuck" \in {app, tray}

\* The destructor returns, unless the tray thread is at that moment in a call
\* of SetCurExternalSub: MSG_QUIT is handled in every message loop the thread
\* can be in, modal ones included.
TeardownEnds ==
  app = "destroying" ~> (app = "idle" \/ tray = "switching" \/ Ended)

\* Whoever waits for the lock gets it, unless the destructor holds it and the
\* tray thread waits for it too, or a thread is stuck in a file it reads under it
\* (AssFilter.cpp:440-441, 743).
LockIsGranted ==
  render = "waiting" ~>
    (\/ render # "waiting"
     \/ app = "sending" /\ tray = "switching"
     \/ StuckInFile
     \/ Ended)

\* SubRenderIntf.h:322-330: a frame that is requested is delivered, and
\* RequestFrame may block until it is.  Here the files are ones that can be read.
FrameDelivered == render = "waiting" ~> (render = "rendering" \/ StuckInFile \/ Ended)

=============================================================================
