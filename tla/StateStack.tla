----------------------------- MODULE StateStack -----------------------------
(* The application states of JKSV: StateManager keeps them in a vector and   *)
(* updates the last one each frame, a state pushes others over itself, and a *)
(* state that runs a task leaves when the task is complete. The frames are   *)
(* run by the main thread; the tasks, and remote::initialize, which may push *)
(* the state of a sign in, by the threads of the pool. A push is two steps   *)
(* of the pool, as is a frame of the main thread (the update of the last     *)
(* state; the removal of the states that left): nothing locks the vector.    *)
EXTENDS Naturals, FiniteSets, SequencesExt

CONSTANTS Task,         \* bound: the tasks that can exist at once
          Threads,      \* threads of the pool
          Scalings,     \* animation speeds, in quarters (UIAnimationScaling)
          HoldTicks     \* frames in which A must be held

ASSUME StackAssumption == Threads \in Nat \ {0} /\ HoldTicks \in Nat \ {0}

VARIABLES stack,        \* m_stateVector
          aDown,        \* A was down in the last frame
          running,      \* sm_isRunning
          step,         \* what the main thread does next
          jobs,         \* s_jobQueue
          working,      \* the jobs the threads of the pool run
          busy,         \* the tasks that are not complete (m_isRunning)
          early,        \* those completed while their job goes on with them
          pushing,      \* the state the pool has taken the focus for
          found,        \* m_updateFound
          scaling       \* sm_scaling, in quarters

pool == <<jobs, working, busy, early>>
vars == <<stack, aDown, running, step, pool, pushing, found, scaling>>
-----------------------------------------------------------------------------
\* The states, as they are constructed.
None == <<>>
State(kind, fields) ==
    [x \in {"kind", "active", "focus"} \cup DOMAIN fields |->
        CASE x = "kind" -> kind [] x = "active" -> TRUE [] x = "focus" -> FALSE
          [] OTHER -> fields[x]]
Screen == State("screen", None)
MainMenu == State("menu", None)
Loading(t, next) == State("loading", [task |-> t, next |-> next])
TaskState(t) == State("task", [task |-> t])
Small == <<32, 32>>
Wide == <<720, 256>>
Progressing(restores) ==
    State("progress", [phase |-> "opening", size |-> Small, task |-> 0, restores |-> restores])
Progress == Progressing(FALSE)
Restore == Progressing(TRUE)
Message == State("message", [phase |-> "opening", size |-> Small])
Confirm(hold, spawns) ==
    State("confirm", [phase |-> "opening", size |-> Small, hold |-> hold, spawns |-> spawns,
                      guard |-> FALSE, since |-> HoldTicks, shown |-> 0, confirmed |-> FALSE])

\* find_divisor: the highest number up to 48 that divides the distance.
Distance(a, b) == IF a > b THEN a - b ELSE b - a
FindDivisor(d) == CHOOSE i \in 1..48 : d % i = 0 /\ \A j \in (i + 1)..48 : d % j # 0
Fade(from, to, next) ==
    State("fade", [alpha |-> from, end |-> to, divisor |-> FindDivisor(Distance(from, to)),
                   next |-> next])
FadeOut == Fade(128, 0, None)
FadeTo(s) == Fade(0, 128, <<s>>)

\* push_state.
Push(s, new) ==
    Append(IF s = <<>> THEN s ELSE [s EXCEPT ![Len(s)].focus = FALSE],
           [new EXCEPT !.focus = TRUE])

\* The jobs of the pool: a task's function, remote::initialize, check_for_update.
JobOf(t) == <<"task", t>>
RemoteJob == <<"remote", 0>>
UpdateJob == <<"update", 0>>

\* What a state holds: a fade its next state, a state its task.
Held(s) == <<s>> \o (IF s.kind = "fade" THEN s.next ELSE <<>>)
TasksOf(s) == {h.task : h \in {x \in ToSet(Held(s)) : x.kind \in {"loading", "task", "progress"}}}
Owned == UNION {TasksOf(s) : s \in ToSet(stack) \cup ToSet(pushing)}
FreeTasks == {t \in Task : t \notin Owned \cup busy /\ JobOf(t) \notin working}
NewTask == CHOOSE t \in FreeTasks : \A u \in FreeTasks : t <= u

\* The constructor of Task: its job is pushed.
StartsTask(t) ==
    jobs' = Append(jobs, JobOf(t)) /\ busy' = busy \cup {t} /\ UNCHANGED <<working, early>>

\* BaseTask and ConfirmState block the HOME button and closing.
Closable(s) == s.kind \notin {"loading", "task", "progress", "confirm"}
BackIsClosable == stack = <<>> \/ Closable(Last(stack))
-----------------------------------------------------------------------------
\* Transition::update, in whole units: the rest of the way by its scaling,
\* rounded, and all of it below the threshold.
Toward(x, target) ==
    LET d == Distance(x, target)
        add == (8 * d + scaling) \div (2 * scaling)
    IN  IF d <= 1 THEN target ELSE IF x < target THEN x + add ELSE x - add
Moves(s, target) ==
    [s EXCEPT !.size = <<Toward(s.size[1], target[1]), Toward(s.size[2], target[2])>>]

\* The last state at this frame: the ticks of a dialog are those since A was
\* pressed, or since the console started.
Capped(n) == IF n < HoldTicks THEN n + 1 ELSE n
Ticked(s) ==
    IF s.kind # "confirm" THEN s
    ELSE [s EXCEPT !.since = Capped(@), !.shown = IF s.phase = "displaying" THEN Capped(@) ELSE @]
Ticks == [i \in DOMAIN stack |-> Ticked(stack[i])]
Back == Last(Ticks)

\* What an update leaves: the last state changed, something pushed over it, or
\* the state deactivated after the push.
Becomes(s) == stack' = [Ticks EXCEPT ![Len(stack)] = s]
Stays == stack' = Ticks
Shows(new) == stack' = Push(Ticks, new)
LeavesTo(new) ==
    stack' = [Push(Ticks, new) EXCEPT ![Len(stack)].active = FALSE]
Leaves == stack' = [Ticks EXCEPT ![Len(stack)].active = FALSE]
NoTask == UNCHANGED pool

\* The buttons that are down in this frame; of A also how long is known.
Pressed(now, b) == b \in now /\ (b = "A" => ~aDown)
HeldDown(now) == "A" \in now /\ aDown
Released(now) == "A" \notin now /\ aDown

\* FadeState::update: the alpha is a byte.
FadeStep(s) ==
    IF s.end < s.alpha THEN (s.alpha + 256 - s.divisor) % 256 ELSE (s.alpha + s.divisor) % 256
UpdateFade ==
    /\ Back.kind = "fade" /\ NoTask
    /\ \/ /\ Back.alpha # Back.end
          /\ Becomes([Back EXCEPT !.alpha = FadeStep(Back)])
       \/ /\ Back.alpha = Back.end
          /\ IF Back.next = None THEN Leaves ELSE LeavesTo(Head(Back.next))
    /\ UNCHANGED found

\* TaskState::update and DataLoadingState::update.
JobIsTaken(s) == JobOf(s.task) \notin ToSet(jobs)
TaskEnded(s) == s.task \notin busy
UpdateTask ==
    /\ Back.kind = "task" /\ NoTask
    /\ IF TaskEnded(Back) THEN LeavesTo(FadeOut) ELSE Stays
    /\ UNCHANGED found
UpdateLoading ==
    /\ Back.kind = "loading"
    /\ \/ ~TaskEnded(Back) /\ Stays /\ NoTask
       \/ TaskEnded(Back) /\ Back.next = None /\ Leaves /\ NoTask
       \/ /\ TaskEnded(Back) /\ Back.next # None /\ LeavesTo(Head(Back.next))
          /\ jobs' = Append(jobs, UpdateJob) /\ UNCHANGED <<working, busy, early>>
    /\ UNCHANGED found

\* ProgressState::update: the task is made when the dialog is open.
InPlace(s, target) == s.size = target
UpdateProgress ==
    /\ Back.kind = "progress"
    /\ \/ LET moved == Moves(Back, Wide)
          IN  /\ Back.phase = "opening"
              /\ \/ ~InPlace(moved, Wide) /\ Becomes(moved) /\ NoTask
                 \/ /\ InPlace(moved, Wide) /\ FreeTasks # {} /\ StartsTask(NewTask)
                    /\ Becomes([moved EXCEPT !.phase = "running", !.task = NewTask])
       \/ /\ Back.phase = "running" /\ NoTask
          /\ IF TaskEnded(Back) THEN Becomes([Back EXCEPT !.phase = "closing"]) ELSE Stays
       \/ LET moved == Moves(Back, Small)
          IN  /\ Back.phase = "closing" /\ NoTask
              /\ IF InPlace(moved, Small) THEN LeavesTo(FadeOut) ELSE Becomes(moved)
    /\ UNCHANGED found

\* MessageState::update: the first A closes it.
UpdateMessage(now) ==
    /\ Back.kind = "message" /\ NoTask
    /\ \/ LET moved == Moves(Back, Wide)
          IN  /\ Back.phase = "opening"
              /\ Becomes(IF InPlace(moved, Wide) THEN [moved EXCEPT !.phase = "displaying"] ELSE moved)
       \/ /\ Back.phase = "displaying"
          /\ IF Pressed(now, "A") THEN Becomes([Back EXCEPT !.phase = "closing"]) ELSE Stays
       \/ LET moved == Moves(Back, Small)
          IN  /\ Back.phase = "closing"
              /\ IF InPlace(moved, Small) THEN LeavesTo(FadeOut) ELSE Becomes(moved)
    /\ UNCHANGED found

Unguarded(s, now) == TRUE

\* ConfirmState::update_handle_input: the guard is for the A that opened it.
Guarded(s, now) == s.guard \/ Pressed(now, "A")
Answered(s, now) ==
    LET guard == Guarded(s, now)
        close == [s EXCEPT !.guard = guard, !.phase = "closing"]
    IN  IF guard /\ Pressed(now, "A") /\ ~s.hold THEN [close EXCEPT !.confirmed = TRUE]
        ELSE IF guard /\ Pressed(now, "A") THEN [s EXCEPT !.guard = guard, !.since = 0]
        ELSE IF guard /\ HeldDown(now) /\ s.hold THEN
            (IF s.since >= HoldTicks THEN [close EXCEPT !.confirmed = TRUE] ELSE s)
        ELSE IF Released(now) THEN s
        ELSE IF Pressed(now, "B") THEN close ELSE s

\* deactivate_state: what was confirmed is started; onCancel is always null.
UpdateConfirm(now) ==
    /\ Back.kind = "confirm"
    /\ \/ LET moved == Moves(Back, Wide)
          IN  /\ Back.phase = "opening" /\ NoTask
              /\ Becomes(IF InPlace(moved, Wide) THEN [moved EXCEPT !.phase = "displaying"] ELSE moved)
       \/ Back.phase = "displaying" /\ NoTask /\ Becomes(Answered(Back, now))
       \/ LET moved == Moves(Back, Small)
          IN  /\ Back.phase = "closing"
              /\ \/ ~InPlace(moved, Small) /\ Becomes(moved) /\ NoTask
                 \/ InPlace(moved, Small) /\ ~Back.confirmed /\ LeavesTo(FadeOut) /\ NoTask
                 \/ /\ InPlace(moved, Small) /\ Back.confirmed /\ Back.spawns = "progress"
                    /\ LeavesTo(Progress) /\ NoTask
                 \/ /\ InPlace(moved, Small) /\ Back.confirmed /\ Back.spawns = "restore"
                    /\ LeavesTo(Restore) /\ NoTask
                 \/ /\ InPlace(moved, Small) /\ Back.confirmed /\ Back.spawns = "task" /\ FreeTasks # {}
                    /\ LeavesTo(TaskState(NewTask)) /\ StartsTask(NewTask)
    /\ UNCHANGED found

\* MainMenuState::update: a screen, the backup of all titles, the update found.
UpdateMenu(now) ==
    LET screen == Pressed(now, "A")
        all == ~screen /\ Pressed(now, "Y")
        update == ~screen /\ ~all /\ found
    IN  /\ Back.kind = "menu" /\ NoTask
        /\ found' = (found /\ ~update)
        /\ \/ screen /\ Shows(Screen)
           \/ all /\ Shows(FadeTo(Confirm(TRUE, "progress")))
           \/ update /\ Shows(FadeTo(Confirm(FALSE, "progress")))
           \/ ~screen /\ ~all /\ ~update /\ Stays

\* A screen of options: A asks for, or starts, one of its operations; restoring
\* a backup is always asked for.
Shown == {FadeTo(Confirm(h, s)) : h \in BOOLEAN, s \in {"task", "restore"}}
            \cup {FadeTo(Progress), Message}
UpdateScreen(now) ==
    /\ Back.kind = "screen" /\ UNCHANGED found
    /\ \/ Pressed(now, "A") /\ NoTask /\ \E s \in Shown : Shows(s)
       \/ Pressed(now, "A") /\ FreeTasks # {} /\ Shows(TaskState(NewTask)) /\ StartsTask(NewTask)
       \/ Pressed(now, "A") /\ FreeTasks # {} /\ Shows(Loading(NewTask, None)) /\ StartsTask(NewTask)
       \/ ~Pressed(now, "A") /\ Pressed(now, "B") /\ Leaves /\ NoTask
       \/ ~Pressed(now, "A") /\ ~Pressed(now, "B") /\ Stays /\ NoTask

Updates(now) ==
    \/ UpdateFade \/ UpdateTask \/ UpdateLoading \/ UpdateProgress
    \/ UpdateMessage(now) \/ UpdateConfirm(now) \/ UpdateMenu(now) \/ UpdateScreen(now)

\* JKSV::update and the first part of StateManager::update.
Buttons == {{}, {"A"}, {"B"}, {"Y"}, {"Plus"}}
Quits(now) == Pressed(now, "Plus") /\ BackIsClosable
Frame ==
    /\ step = "frame" /\ running /\ step' = "purge"
    /\ \E now \in Buttons :
        /\ aDown' = ("A" \in now)
        /\ running' = ~Quits(now)
        /\ \/ stack # None /\ Back.focus /\ Updates(now)
           \/ (stack = None \/ ~Back.focus) /\ Stays /\ NoTask /\ UNCHANGED found
    /\ UNCHANGED <<pushing, scaling>>

Unfocused(s) == s

\* The rest of it: states that left are erased, the last one gets the focus.
Focused(s) == IF s = <<>> THEN s ELSE [s EXCEPT ![Len(s)].focus = TRUE]
ActiveOf(s) ==
    LET kept[i \in 0..Len(s)] ==
            IF i = 0 THEN <<>>
            ELSE IF s[i].active THEN Append(kept[i - 1], s[i]) ELSE kept[i - 1]
    IN  kept[Len(s)]
Purge ==
    /\ step = "purge" /\ step' = "frame"
    /\ stack' = Focused(ActiveOf(stack))
    /\ UNCHANGED <<aDown, running, pool, pushing, found, scaling>>

\* The end of JKSV's constructor: the data is loaded under a fade from black.
LaunchesInitialization ==
    /\ step = "launch" /\ step' = "fade"
    /\ stack' = Push(stack, Loading(NewTask, <<MainMenu>>)) /\ StartsTask(NewTask)
    /\ UNCHANGED <<aDown, running, pushing, found, scaling>>
FadesFromBlack ==
    /\ step = "fade" /\ step' = "frame" /\ running' = TRUE
    /\ stack' = Push(stack, Fade(255, 0, None))
    /\ UNCHANGED <<aDown, pool, pushing, found, scaling>>
-----------------------------------------------------------------------------
\* A thread of the pool takes a job. The destructor of JKSV stops the pool.
TakesJob ==
    /\ jobs # <<>> /\ Cardinality(working) < Threads /\ (running \/ step \in {"launch", "fade"})
    /\ working' = working \cup {Head(jobs)} /\ jobs' = Tail(jobs)
    /\ UNCHANGED <<stack, aDown, running, step, busy, early, pushing, found, scaling>>

\* The function of a task completes it as the last it does, and returns.
TaskCompletes(t) ==
    /\ JobOf(t) \in working /\ t \in busy
    /\ busy' = busy \ {t} /\ working' = working \ {JobOf(t)}
    /\ UNCHANGED <<stack, aDown, running, step, jobs, early, pushing, found, scaling>>

\* In a restore the automatic backup, when it fails, completes the task and
\* returns to the restore, which goes on with the task until it returns.
RestoresFor(t) == \E s \in ToSet(stack) : s.kind = "progress" /\ s.restores /\ s.task = t
BackupFails(t) ==
    /\ JobOf(t) \in working /\ t \in busy /\ RestoresFor(t)
    /\ busy' = busy \ {t} /\ early' = early \cup {t}
    /\ UNCHANGED <<stack, aDown, running, step, jobs, working, pushing, found, scaling>>
RestoreReturns(t) ==
    /\ t \in early /\ early' = early \ {t} /\ working' = working \ {JobOf(t)}
    /\ UNCHANGED <<stack, aDown, running, step, jobs, busy, pushing, found, scaling>>

\* check_for_update.
UpdateChecked ==
    /\ UpdateJob \in working /\ working' = working \ {UpdateJob}
    /\ found' \in {found, TRUE}
    /\ UNCHANGED <<stack, aDown, running, step, jobs, busy, early, pushing, scaling>>

\* remote::initialize: no sign in is needed, or its task is made and its state
\* pushed behind a fade.
RemoteIsReady ==
    /\ RemoteJob \in working /\ pushing = None /\ working' = working \ {RemoteJob}
    /\ UNCHANGED <<stack, aDown, running, step, jobs, busy, early, pushing, found, scaling>>
SignInTakesFocus ==
    /\ RemoteJob \in working /\ pushing = None /\ FreeTasks # {}
    /\ pushing' = <<FadeTo(TaskState(NewTask))>> /\ StartsTask(NewTask)
    /\ stack' = IF stack = None THEN stack ELSE [stack EXCEPT ![Len(stack)].focus = FALSE]
    /\ UNCHANGED <<aDown, running, step, found, scaling>>
SignInPushed ==
    /\ pushing # None /\ pushing' = None /\ working' = working \ {RemoteJob}
    /\ stack' = Append(stack, [Head(pushing) EXCEPT !.focus = TRUE])
    /\ UNCHANGED <<aDown, running, step, jobs, busy, early, found, scaling>>

Init ==
    /\ stack = None /\ aDown = FALSE /\ running = FALSE /\ step = "launch"
    /\ jobs = <<RemoteJob>> /\ working = {} /\ busy = {} /\ early = {} /\ pushing = None /\ found = FALSE
    /\ scaling \in Scalings

MainThread == Frame \/ Purge \/ LaunchesInitialization \/ FadesFromBlack
Next ==
    \/ MainThread \/ TakesJob \/ UpdateChecked
    \/ \E t \in Task : TaskCompletes(t) \/ BackupFails(t) \/ RestoreReturns(t)
    \/ RemoteIsReady \/ SignInTakesFocus \/ SignInPushed

Spec == Init /\ [][Next]_vars

\* The main thread and the threads of the pool run; the user does as he likes.
FairSpec ==
    /\ Spec /\ WF_vars(MainThread) /\ WF_vars(TakesJob) /\ WF_vars(UpdateChecked)
    /\ WF_vars(RemoteIsReady \/ SignInTakesFocus) /\ WF_vars(SignInPushed)
    /\ \A t \in Task : WF_vars(TaskCompletes(t) \/ RestoreReturns(t))
-----------------------------------------------------------------------------
\* While JKSV runs, a task its job has still to use is owned by a state of the
\* stack: the job has a pointer to it (Task::Task, TaskState::update,
\* ProgressState::update_progress, FadeState::completed).  The code breaks this
\* in a restore whose automatic backup completed the task (early).
InUse == {t \in Task : JobOf(t) \in ToSet(jobs) \cup working /\ t \in busy \cup early}
TaskOutlivesJob == running => InUse \ early \subseteq Owned

\* A dialog that asks to hold A is never confirmed before it was on the screen
\* that long, with A down (ConfirmState::update_handle_input): the A that
\* opened it, still held, does not count.
HoldTakesTime ==
    [][\A i \in DOMAIN stack : i \in DOMAIN stack' /\ stack[i].kind = "confirm"
            /\ stack'[i].kind = "confirm" /\ stack'[i].confirmed /\ ~stack[i].confirmed
            /\ stack[i].hold
        => stack'[i].shown >= HoldTicks /\ aDown']_vars

\* JKSV always comes back to the user: fades, tasks and loading end, and what
\* is then on top has the focus (StateManager::update, FadeState,
\* ProgressState, Transition), or JKSV was left.
WaitsForUser ==
    stack # None /\ Last(stack).focus
        /\ \/ Last(stack).kind \in {"menu", "screen"}
           \/ Last(stack).kind \in {"message", "confirm"} /\ Last(stack).phase = "displaying"
ControlComesBack == []<>(WaitsForUser \/ (~running /\ step = "frame"))
=============================================================================
