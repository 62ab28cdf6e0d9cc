---------------------------- MODULE WindowsRunner ----------------------------
(***************************************************************************)
(* The process of the example application on Windows: wWinMain, its one    *)
(* window, the Flutter engine in it and, on the same thread, the           *)
(* coroutines of the biometric_cipher plugin.  Windows calls back into     *)
(* the window from inside DestroyWindow, also when the destructor of the   *)
(* window is running: the calls under way are a stack.                     *)
(***************************************************************************)
EXTENDS Integers, Sequences

VARIABLES
    at,           \* where wWinMain is
    stack,        \* the calls under way to destroy the window, innermost first
    result,       \* what wWinMain is to return
    com,          \* COM is initialized on the thread
    window,       \* Windows: the window
    classKnown,   \* Windows: the window class is registered
    handle,       \* window_handle_ is not null
    child,        \* child_content_, whether it is null, a window, or was one
    quitOnClose,  \* quit_on_close_
    count,        \* g_active_window_count
    registered,   \* class_registered_ of the WindowClassRegistrar
    controller,   \* flutter_controller_
    frame,        \* the engine: a frame is due, the first one is done, its callback
    shown,        \* ShowWindow has been called
    quit,         \* WM_QUIT is pending
    prompt        \* a coroutine of the plugin waits for Windows Hello

process == <<at, result, com>>
os == <<window, classKnown>>
win32 == <<handle, child, quitOnClose, count, registered>>
engine == <<controller, frame>>
vars == <<process, stack, os, win32, engine, shown, quit, prompt>>

Place == {"start", "controller", "content", "callback", "redraw", "loop",
          "uninitialize", "return", "destructor", "exited"}

Call == {"Destroy", "DestroyWindow", "WM_DESTROY", "WM_NCDESTROY", "quit",
         "clear", "unregister"}

\* callback: none is set, one waits for a frame, or has been posted to the loop.
Frame == [due : BOOLEAN, first : BOOLEAN, callback : {"none", "set", "posted"}]

NoFrame == [due |-> FALSE, first |-> FALSE, callback |-> "none"]

Init ==
    /\ at = "start" /\ stack = <<>>
    /\ result = "none" /\ com = FALSE
    /\ window = "none" /\ classKnown = FALSE
    /\ handle = FALSE /\ child = "null"
    /\ quitOnClose = FALSE
    /\ count = 0 /\ registered = FALSE
    /\ controller = "none" /\ frame = NoFrame
    /\ shown = FALSE /\ quit = FALSE
    /\ prompt = "none"

-----------------------------------------------------------------------------
(* wWinMain and Create *)

Reaches(place) == at = place /\ stack = <<>>

Fails == at' = "return" /\ result' = "EXIT_FAILURE"

\* The flag is set whatever RegisterClass answers.
GetWindowClass == registered' = TRUE /\ classKnown' \in BOOLEAN

\* The constructor counts the window; Create destroys nothing, registers the
\* class and creates the window, in which WM_NCCREATE sets the handle: also that
\* of a window whose creation then fails.
Start ==
    /\ Reaches("start")
    /\ com' = TRUE /\ count' = count + 1
    /\ GetWindowClass
    /\ \/ /\ classKnown'
          /\ window' = "live" /\ handle' = TRUE
          /\ at' = "controller" /\ UNCHANGED result
       \/ /\ classKnown'
          /\ window' = "aborted" /\ handle' = TRUE
          /\ Fails
       \/ Fails /\ UNCHANGED <<window, handle>>
    /\ UNCHANGED <<stack, child, quitOnClose, engine, shown, quit, prompt>>

\* Mutant: OnCreate goes on without looking at the engine and the view.
CreateController_Unchecked ==
    /\ Reaches("controller")
    /\ controller' \in {"running", "broken"}
    /\ frame' = [frame EXCEPT !.due = TRUE]
    /\ at' = "content"
    /\ UNCHANGED <<stack, result, com, os, win32, shown, quit, prompt>>

\* OnCreate: the engine or the view may be missing; then Create returns false.
CreateController ==
    /\ Reaches("controller")
    /\ \/ /\ controller' = "running"
          /\ frame' = [frame EXCEPT !.due = TRUE]
          /\ at' = "content" /\ UNCHANGED result
       \/ controller' = "broken" /\ Fails /\ UNCHANGED frame
    /\ UNCHANGED <<stack, com, os, win32, shown, quit, prompt>>

\* RegisterPlugins, SetChildContent.
AddContent ==
    /\ Reaches("content")
    /\ child' = "live"
    /\ at' = "callback"
    /\ UNCHANGED <<stack, result, com, os, handle, quitOnClose, count, registered,
                   engine, shown, quit, prompt>>

SetNextFrameCallback ==
    /\ Reaches("callback")
    /\ frame' = [frame EXCEPT !.callback = "set"]
    /\ at' = "redraw"
    /\ UNCHANGED <<stack, result, com, os, win32, controller, shown, quit, prompt>>

SetQuitOnClose == quitOnClose' = TRUE

\* Mutant: the frame that is to show the window is not asked for.
ForceRedraw_Not ==
    /\ Reaches("redraw")
    /\ at' = "loop" /\ SetQuitOnClose
    /\ UNCHANGED <<stack, result, com, os, handle, child, count, registered, engine,
                   shown, quit, prompt>>

\* Does nothing before the first frame is done.  OnCreate and Create return.
ForceRedraw ==
    /\ Reaches("redraw")
    /\ frame' = [frame EXCEPT !.due = @ \/ frame.first]
    /\ at' = "loop" /\ SetQuitOnClose
    /\ UNCHANGED <<stack, result, com, os, handle, child, count, registered,
                   controller, shown, quit, prompt>>

\* Mutant: the loop waits for the coroutines that are still to come.
LeaveLoop_Waits ==
    /\ Reaches("loop") /\ quit /\ prompt = "none"
    /\ at' = "uninitialize"
    /\ UNCHANGED <<stack, result, com, os, win32, engine, shown, quit, prompt>>

\* GetMessage returns 0.
LeaveLoop ==
    /\ Reaches("loop") /\ quit
    /\ at' = "uninitialize"
    /\ UNCHANGED <<stack, result, com, os, win32, engine, shown, quit, prompt>>

CoUninitialize ==
    /\ Reaches("uninitialize")
    /\ com' = FALSE
    /\ at' = "return" /\ result' = "EXIT_SUCCESS"
    /\ UNCHANGED <<stack, os, win32, engine, shown, quit, prompt>>

NoEngine == controller' = "none" /\ frame' = NoFrame

Gone(content) == IF content = "live" THEN "stale" ELSE content

\* ~FlutterWindow, its members, ~Win32Window.
Destructor ==
    /\ Reaches("return")
    /\ NoEngine /\ child' = Gone(child)
    /\ count' = count - 1
    /\ stack' = <<"Destroy">>
    /\ at' = "destructor"
    /\ UNCHANGED <<result, com, os, handle, quitOnClose, registered, shown, quit, prompt>>

Exit ==
    /\ Reaches("destructor")
    /\ at' = "exited"
    /\ UNCHANGED <<stack, result, com, os, win32, engine, shown, quit, prompt>>

-----------------------------------------------------------------------------
(* The engine and the plugin *)

\* A frame is done, on a thread of the engine.
CompleteFrame ==
    /\ controller = "running" /\ frame.due
    /\ frame' = [due |-> FALSE, first |-> TRUE,
                 callback |-> IF frame.callback = "set" THEN "posted" ELSE frame.callback]
    /\ UNCHANGED <<process, stack, os, win32, controller, shown, quit, prompt>>

\* The callback of OnCreate.
Show ==
    /\ Reaches("loop") /\ frame.callback = "posted"
    /\ frame' = [frame EXCEPT !.callback = "none"]
    /\ shown' = TRUE
    /\ UNCHANGED <<process, stack, os, win32, controller, quit, prompt>>

\* The application asks for a key operation.
Await ==
    /\ Reaches("loop") /\ controller = "running" /\ prompt = "none"
    /\ prompt' = "awaited"
    /\ UNCHANGED <<process, stack, os, win32, engine, shown, quit>>

\* Windows is done and the message loop resumes the coroutine, which uses its
\* service and repository, dead or alive.
Resume ==
    /\ Reaches("loop") /\ prompt = "awaited"
    /\ prompt' = IF controller = "running" THEN "none" ELSE "orphaned"
    /\ UNCHANGED <<process, stack, os, win32, engine, shown, quit>>

-----------------------------------------------------------------------------
(* Destroying the window *)

Calls(call) == stack # <<>> /\ Head(stack) = call

Becomes(calls) == stack' = calls \o Tail(stack)

\* WM_CLOSE: Flutter may ask the application and keep it, DefWindowProc destroys.
Close ==
    /\ Reaches("loop") /\ window = "live"
    /\ stack' = <<"DestroyWindow">>
    /\ UNCHANGED <<process, os, win32, engine, shown, quit, prompt>>

\* Mutant: the window is counted out by Destroy, not by the destructor only.
Destroy_Counts ==
    /\ Calls("Destroy")
    /\ NoEngine /\ child' = Gone(child)
    /\ count' = count - 1
    /\ Becomes(IF handle THEN <<"DestroyWindow", "clear">> ELSE <<"unregister">>)
    /\ UNCHANGED <<process, os, handle, quitOnClose, registered, shown, quit, prompt>>

\* Win32Window::Destroy: OnDestroy of FlutterWindow first.
Destroy ==
    /\ Calls("Destroy")
    /\ NoEngine /\ child' = Gone(child)
    /\ Becomes(IF handle THEN <<"DestroyWindow", "clear">> ELSE <<"unregister">>)
    /\ UNCHANGED <<process, os, handle, quitOnClose, count, registered, shown, quit, prompt>>

\* Fails, unnoticed, for the handle of a window that was never completed.
DestroyWindow ==
    /\ Calls("DestroyWindow")
    /\ IF window = "aborted"
       THEN Becomes(<<>>) /\ UNCHANGED window
       ELSE Becomes(<<"WM_DESTROY", "WM_NCDESTROY">>) /\ window' = "dying"
    /\ UNCHANGED <<process, classKnown, win32, engine, shown, quit, prompt>>

\* Mutant: the handle is left for Destroy to clear.
OnWmDestroy_KeepsHandle ==
    /\ Calls("WM_DESTROY")
    /\ Becomes(<<"Destroy", "quit">>)
    /\ UNCHANGED <<process, os, win32, engine, shown, quit, prompt>>

\* The handler clears the handle before it calls Destroy again.
OnWmDestroy ==
    /\ Calls("WM_DESTROY")
    /\ handle' = FALSE
    /\ Becomes(<<"Destroy", "quit">>)
    /\ UNCHANGED <<process, os, child, quitOnClose, count, registered, engine, shown,
                   quit, prompt>>

\* Mutant: the condition is the wrong way round.
PostQuit_Unless ==
    /\ Calls("quit")
    /\ quit' = (quit \/ ~quitOnClose)
    /\ Becomes(<<>>)
    /\ UNCHANGED <<process, os, win32, engine, shown, prompt>>

PostQuit ==
    /\ Calls("quit")
    /\ quit' = (quit \/ quitOnClose)
    /\ Becomes(<<>>)
    /\ UNCHANGED <<process, os, win32, engine, shown, prompt>>

\* The window goes, and its child windows with it.
OnWmNcDestroy ==
    /\ Calls("WM_NCDESTROY")
    /\ window' = "none" /\ child' = Gone(child)
    /\ Becomes(<<>>)
    /\ UNCHANGED <<process, classKnown, handle, quitOnClose, count, registered, engine,
                   shown, quit, prompt>>

ClearHandle ==
    /\ Calls("clear")
    /\ handle' = FALSE
    /\ Becomes(<<"unregister">>)
    /\ UNCHANGED <<process, os, child, quitOnClose, count, registered, engine, shown,
                   quit, prompt>>

\* There is a window of the class.
Exists == window \in {"live", "dying"}

\* Mutant: a class that the flag calls unregistered is not unregistered again.
Unregister_Once ==
    /\ Calls("unregister")
    /\ IF count = 0 /\ registered
       THEN classKnown' = (classKnown /\ Exists) /\ registered' = FALSE
       ELSE UNCHANGED <<classKnown, registered>>
    /\ Becomes(<<>>)
    /\ UNCHANGED <<process, window, handle, child, quitOnClose, count, engine, shown,
                   quit, prompt>>

\* UnregisterClass refuses while a window of the class exists; nobody looks.
Unregister ==
    /\ Calls("unregister")
    /\ IF count = 0
       THEN classKnown' = (classKnown /\ Exists) /\ registered' = FALSE
       ELSE UNCHANGED <<classKnown, registered>>
    /\ Becomes(<<>>)
    /\ UNCHANGED <<process, window, handle, child, quitOnClose, count, engine, shown,
                   quit, prompt>>

-----------------------------------------------------------------------------

Main ==
    \/ Start \/ CreateController \/ AddContent \/ SetNextFrameCallback \/ ForceRedraw
    \/ LeaveLoop \/ CoUninitialize \/ Destructor \/ Exit

Destroying ==
    \/ Destroy \/ DestroyWindow \/ OnWmDestroy \/ PostQuit \/ OnWmNcDestroy
    \/ ClearHandle \/ Unregister

Next ==
    \/ Main \/ Destroying
    \/ CompleteFrame \/ Show \/ Await \/ Resume \/ Close

Spec == Init /\ [][Next]_vars

\* The thread goes on, the engine renders what is due and the loop dispatches what
\* is posted.  Nobody has to close the window or to answer Windows Hello.
FairSpec ==
    /\ Spec
    /\ WF_vars(Main) /\ WF_vars(Destroying)
    /\ WF_vars(CompleteFrame) /\ WF_vars(Show)

-----------------------------------------------------------------------------
(* Properties *)

\* Types.
TypeOK ==
    /\ at \in Place /\ stack \in Seq(Call)
    /\ result \in {"none", "EXIT_SUCCESS", "EXIT_FAILURE"}
    /\ com \in BOOLEAN /\ classKnown \in BOOLEAN /\ handle \in BOOLEAN
    /\ quitOnClose \in BOOLEAN /\ registered \in BOOLEAN
    /\ shown \in BOOLEAN /\ quit \in BOOLEAN
    /\ window \in {"none", "aborted", "live", "dying"}
    /\ child \in {"null", "live", "stale"}
    /\ count \in {0, 1}
    /\ controller \in {"none", "broken", "running"}
    /\ frame \in Frame
    /\ prompt \in {"none", "awaited", "orphaned"}

\* Messages are dispatched to a window only while it has its engine, its handle
\* and its content: WM_FONTCHANGE goes through flutter_controller_ and WM_SIZE
\* through child_content_ without a look.
MessagesFindEngine ==
    Reaches("loop") /\ window = "live"
        => controller = "running" /\ handle /\ child = "live"

\* Destroy, the handler of WM_DESTROY and the destructor call each other, and yet
\* the window is destroyed once; only a window that could not be completed leaves
\* a handle that is destroyed without one.
DestroyedOnce == Calls("DestroyWindow") => window \in {"live", "aborted"}

\* However the process ends, with a window that could not be created, an engine
\* that did not start or a close, it leaves no window, engine or class behind.
CleanExit ==
    at = "exited" =>
        /\ ~Exists /\ controller = "none" /\ ~handle
        /\ ~classKnown /\ ~registered /\ count = 0
        /\ result = "EXIT_SUCCESS" => ~com

\* A coroutine of the plugin can find its service destroyed only between the close
\* of the window and the end of the message loop.
OrphanedOnlyAtEnd == prompt = "orphaned" => quit

\* win32_window.h, "closing this window will quit the application".
ClosingQuits == at = "loop" /\ window = "dying" ~> at = "exited"

\* The window is shown unless it is closed first, even when the first frame is
\* done before OnCreate sets the callback that shows it.
GetsShown == at = "loop" ~> shown \/ window # "live"

=============================================================================
