----------------------------- MODULE PanelProofs -----------------------------
(***************************************************************************)
(* Theorems about Button and Panel, for any number of samples and any      *)
(* lateness of the timer: the sampler's four states implement the abstract *)
(* button of Press, and a pattern that was not raced is shown until it is  *)
(* over.                                                                   *)
(***************************************************************************)
EXTENDS Panel, TLAPS

-----------------------------------------------------------------------------
(* The debouncer.                                                          *)

\* The samples counted are among those that speak against the debounced state.
ButtonInv ==
    /\ ButtonTypeOK
    /\ btn \in {"idle", "pressed"} => samples = 0
    /\ btn = "pressing" => samples <= against
    /\ btn = "releasing" => samples + 1 <= against

LEMMA ButtonInvInit == ButtonInit => ButtonInv
<1> SUFFICES ASSUME ButtonInit
             PROVE  ButtonInv
  OBVIOUS
<1>1. 0 \in 0..(Debounce - 1) /\ 0 \in 0..LongPress /\ 0 \in 0..Debounce
  BY ButtonAssumption
<1>2. event \in {"none", "short", "long"} /\ btn \in {"idle", "pressing", "pressed", "releasing"}
  BY DEF ButtonInit
<1> QED BY <1>1, <1>2 DEF ButtonInit, ButtonInv, ButtonTypeOK

\* A sample counts when it differs from the debounced state.
LEMMA Counting ==
    ASSUME ButtonTypeOK
    PROVE  /\ Counted \in 0..Debounce /\ Counted >= against
           /\ (level <=> btn \in {"idle", "pressing"}) /\ against < Debounce => Counted = against + 1
           /\ (level <=> btn \in {"idle", "pressing"}) /\ against >= Debounce => Counted = Debounce
<1>1. /\ against \in 0..Debounce
      /\ Counted = IF (level <=> Down) THEN against
                   ELSE IF against < Debounce THEN against + 1 ELSE Debounce
  <2>1. (level = Down) = (level <=> Down)
    BY DEF ButtonTypeOK, Down
  <2> QED BY <2>1 DEF ButtonTypeOK, Counted
<1>2. (level <=> btn \in {"idle", "pressing"}) <=> ~(level <=> Down)
  BY DEF ButtonTypeOK, Down
<1> QED BY <1>1, <1>2, ButtonAssumption

LEMMA ButtonInvStep == ButtonInv /\ [ButtonNext]_btnVars => ButtonInv'
<1> SUFFICES ASSUME ButtonInv, [ButtonNext]_btnVars
             PROVE  ButtonInv'
  OBVIOUS
<1>0. Counted \in 0..Debounce /\ Counted >= against
  BY Counting DEF ButtonInv
<1> USE ButtonAssumption DEF ButtonInv, ButtonTypeOK
<1>1. CASE Contact
  BY <1>1 DEF Contact
<1>2. CASE Handled
  BY <1>2 DEF Handled
<1>3. ASSUME NEW d \in 1..MaxGap, Sample(d)
      PROVE  ButtonInv'
  <2>1. Age(d) \in 0..LongPress
    BY DEF Age
  <2>2. CASE Idle
    <3>1. level => Counted >= 1
      BY <2>2, Counting DEF Idle
    <3> QED BY <1>0, <1>3, <2>2, <3>1 DEF Sample, Idle
  <2>3. CASE Pressing
    <3>1. event' = "none" /\ UNCHANGED level
      BY <1>3, <2>3 DEF Sample, Pressing
    <3>2. level => Counted >= samples + 1
      BY <2>3, Counting DEF Pressing
    <3>3. CASE level /\ samples + 1 >= Debounce
      <4>1. long' \in BOOLEAN /\ level' \in BOOLEAN
        BY <2>3, <3>1, <3>3 DEF Pressing
      <4>2. btn' = "pressed" /\ held' = 0 /\ samples' = 0 /\ inverse' = 0 /\ against' = 0
        BY <2>3, <3>3 DEF Pressing
      <4> QED BY <3>1, <4>1, <4>2
    <3>4. CASE level /\ ~(samples + 1 >= Debounce)
      BY <1>0, <2>3, <3>1, <3>2, <3>4 DEF Pressing
    <3>5. CASE ~level /\ inverse + 1 >= Debounce
      BY <1>0, <2>3, <3>1, <3>5 DEF Pressing
    <3>6. CASE ~level /\ ~(inverse + 1 >= Debounce)
      BY <1>0, <2>3, <3>1, <3>6 DEF Pressing
    <3> QED BY <3>3, <3>4, <3>5, <3>6
  <2>4. CASE Pressed(d)
    <3>1. long' \in BOOLEAN
      BY <2>4 DEF Pressed
    <3>2. event' \in {"none", "short", "long"} /\ held' \in 0..LongPress /\ level' \in BOOLEAN
      BY <1>3, <2>1, <2>4 DEF Sample, Pressed
    <3>3. CASE level
      BY <1>0, <2>4, <3>1, <3>2, <3>3 DEF Pressed
    <3>4. CASE ~level
      <4>1. Counted >= 1
        BY <2>4, <3>4, Counting DEF Pressed
      <4> QED BY <1>0, <2>4, <3>1, <3>2, <3>4, <4>1 DEF Pressed
    <3> QED BY <3>3, <3>4
  <2>5. CASE Releasing(d)
    <3>1. ~level => Counted >= samples + 2 \/ Counted = Debounce
      BY <2>5, Counting DEF Releasing
    <3> QED BY <1>0, <1>3, <2>1, <2>5, <3>1 DEF Sample, Releasing
  <2> QED BY <1>3, <2>2, <2>3, <2>4, <2>5 DEF Sample
<1>4. CASE UNCHANGED btnVars
  BY <1>4 DEF btnVars
<1> QED BY <1>1, <1>2, <1>3, <1>4 DEF ButtonNext

LEMMA DebouncedStep ==
    ASSUME ButtonInv, [ButtonNext]_btnVars
    PROVE  [Debounced!Sample \/ Debounced!Reported \/ Debounced!Contact]_(Debounced!vars)
<1> USE ButtonAssumption DEF ButtonInv, ButtonTypeOK
<1>1. CASE Contact
  BY <1>1 DEF Contact, Debounced!Contact, Down
<1>2. CASE event # "none" /\ Handled
  BY <1>2 DEF Handled, Debounced!Reported, Down
<1>3. ASSUME NEW d \in 1..MaxGap, Sample(d)
      PROVE  Debounced!Sample
  <2>1. Counted = Debounced!Count
    BY DEF Counted, Debounced!Count
  <2>2. CASE Idle
    <3>1. Debounced!Hold
      BY <2>1, <2>2 DEF Idle, Debounced!Hold, Down
    <3> QED BY <1>3, <3>1 DEF Sample, Debounced!Sample
  <2>3. CASE Pressing
    <3>1. CASE level /\ samples + 1 >= Debounce
      <4>1. Debounced!Count >= Debounce
        BY <2>1, <2>3, <3>1, Counting DEF Pressing
      <4>2. Debounced!GoDown
        BY <2>3, <3>1, <4>1 DEF Pressing, Debounced!GoDown, Down
      <4> QED BY <1>3, <4>2 DEF Sample, Debounced!Sample
    <3>2. CASE ~(level /\ samples + 1 >= Debounce)
      <4>1. Debounced!Hold
        BY <2>1, <2>3, <3>2 DEF Pressing, Debounced!Hold, Down
      <4> QED BY <1>3, <4>1 DEF Sample, Debounced!Sample
    <3> QED BY <3>1, <3>2
  <2>4. CASE Pressed(d)
    <3>1. CASE level /\ ~long /\ Age(d) >= LongPress
      <4>1. Debounced!Long
        BY <2>1, <2>4, <3>1 DEF Pressed, Debounced!Long, Down
      <4> QED BY <1>3, <4>1 DEF Sample, Debounced!Sample
    <3>2. CASE ~(level /\ ~long /\ Age(d) >= LongPress)
      <4>1. long' = long
        BY <2>4, <3>2 DEF Pressed
      <4>2. event' = "none" /\ UNCHANGED Down
        BY <2>4, <3>2 DEF Pressed, Down
      <4>3. Debounced!Hold
        BY <2>1, <2>4, <4>1, <4>2 DEF Pressed, Debounced!Hold
      <4> QED BY <1>3, <4>3 DEF Sample, Debounced!Sample
    <3> QED BY <3>1, <3>2
  <2>5. CASE Releasing(d)
    <3>1. CASE ~level /\ samples + 1 >= Debounce
      <4>1. Debounced!Count >= Debounce
        BY <2>1, <2>5, <3>1, Counting DEF Releasing
      <4>2. Debounced!GoUp
        BY <2>5, <3>1, <4>1 DEF Releasing, Debounced!GoUp, Down
      <4> QED BY <1>3, <4>2 DEF Sample, Debounced!Sample
    <3>2. CASE ~(~level /\ samples + 1 >= Debounce)
      <4>1. Debounced!Hold
        BY <2>1, <2>5, <3>2 DEF Releasing, Debounced!Hold, Down
      <4> QED BY <1>3, <4>1 DEF Sample, Debounced!Sample
    <3> QED BY <3>1, <3>2
  <2> QED BY <1>3, <2>2, <2>3, <2>4, <2>5 DEF Sample
<1>4. CASE UNCHANGED btnVars
  BY <1>4 DEF btnVars, Debounced!vars, Down
<1> QED BY <1>1, <1>2, <1>3, <1>4 DEF ButtonNext

\* The sampler alone implements the abstract button.
THEOREM ButtonDebounces == ButtonSpec => Debounces
<1>1. ButtonInit => Debounced!Init
  BY ButtonAssumption DEF ButtonInit, Debounced!Init, Down
<1>2. ButtonInv /\ [ButtonNext]_btnVars
        => [Debounced!Sample \/ Debounced!Reported \/ Debounced!Contact]_(Debounced!vars)
  BY DebouncedStep
<1> QED BY <1>1, <1>2, ButtonInvInit, ButtonInvStep, PTL DEF ButtonSpec, Debounces, Debounced!Spec

-----------------------------------------------------------------------------
(* The front panel.                                                        *)

\* Where the esp_timer task is between two writes, what it has left to do; an
\* endless pattern leaves no repetitions to count.
Shown ==
    /\ pc[Timer] = "start"   => ~blinking /\ active \in Patterns
    /\ pc[Timer] = "release" => override /\ blinking /\ active = "ok" /\ repeats = 0
    /\ pc[Timer] = "stop"    => ~override /\ blinking /\ active = "ok" /\ repeats = 0
    /\ pc[Timer] \notin {"start", "release", "stop"} =>
          /\ override <=> blinking
          /\ blinking <=> active \in Endless \/ (active = "ok" /\ repeats > 0)
          /\ active \in Endless => repeats = 0

PanelInv == TypeOK /\ ButtonInv /\ (~raced => Shown)

LEMMA PanelInvInit == Init => PanelInv
<1> SUFFICES ASSUME Init
             PROVE  PanelInv
  OBVIOUS
<1>1. ButtonInv
  BY ButtonInvInit DEF Init
<1>2. TypeOK
  <2>1. /\ override \in BOOLEAN /\ blinking \in BOOLEAN /\ lit \in BOOLEAN /\ raced \in BOOLEAN
        /\ arg \in [Task -> BOOLEAN]
    BY DEF Init
  <2>2. 0 \in 0..OkCount
    BY PanelAssumption
  <2> QED BY <1>1, <2>1, <2>2 DEF Init, TypeOK, ButtonInv, Task, Ctrl, Httpd, Timer
<1>3. Shown
  BY PanelAssumption DEF Init, Shown, Endless, Task, Timer
<1> QED BY <1>1, <1>2, <1>3 DEF PanelInv

LEMMA ButtonSteps == [Next]_vars => [ButtonNext]_btnVars
<1> SUFFICES ASSUME [Next]_vars
             PROVE  [ButtonNext]_btnVars
  OBVIOUS
<1>1. CASE UNCHANGED vars
  BY <1>1 DEF vars
<1>2. ASSUME NEW d \in 1..MaxGap, Poll(d)
      PROVE  ButtonNext
  BY <1>2 DEF Poll, ButtonNext
<1>3. CASE ShortPress \/ LongPressed
  BY <1>3 DEF ShortPress, LongPressed, ButtonNext
<1>4. CASE Bounce
  BY <1>4 DEF Bounce, ButtonNext
<1> QED
  BY <1>1, <1>2, <1>3, <1>4
  DEF Next, Ticking, Callback, Wake, Look, Show, BlinkOff, BlinkOn, Release, Stop, StartBlink,
      Toggle, Pattern, TimerPattern, SetRelay, SetMode

LEMMA PanelInvStep == PanelInv /\ [Next]_vars => PanelInv'
<1> SUFFICES ASSUME PanelInv, [Next]_vars
             PROVE  PanelInv'
  OBVIOUS
<1>0. ButtonInv' /\ ButtonTypeOK'
  BY ButtonSteps, ButtonInvStep DEF PanelInv, ButtonInv
<1> DEFINE Stages == {"idle", "look", "show", "start", "release", "stop", "toggle"}
           Typed ==
             /\ override \in BOOLEAN /\ active \in Patterns \cup {"none"} /\ blinking \in BOOLEAN
             /\ repeats \in 0..OkCount /\ lit \in BOOLEAN
             /\ relay \in BOOLEAN /\ byRelay \in BOOLEAN /\ raced \in BOOLEAN
             /\ pc \in [Task -> Stages]
             /\ pc[Ctrl] \in {"idle", "look", "show"} /\ pc[Httpd] = "idle"
             /\ arg \in [Task -> BOOLEAN]
<1>T. Typed /\ (~raced => Shown)
  BY DEF PanelInv, TypeOK
<1>D. Ctrl \in Task /\ Timer \in Task /\ Httpd \in Task /\ Ctrl # Timer /\ Ctrl # Httpd /\ Timer # Httpd
  BY DEF Task, Ctrl, Httpd, Timer
<1>P. \A pat : Repeats(pat) \in 0..OkCount /\ (pat \in Endless => Repeats(pat) = 0)
              /\ Repeats("ok") > 0 /\ "none" \notin Patterns
  BY PanelAssumption DEF Repeats, Endless
<1> SUFFICES Typed' /\ (~raced' => Shown')
  BY <1>0 DEF PanelInv, TypeOK
<1> USE <1>T, <1>D
<1>1. CASE Wake
  BY <1>1 DEF Wake, Goto, ledVars, shown, Shown
<1>2. ASSUME NEW t \in {Ctrl, Timer}, Look(t)
      PROVE  Typed' /\ (~raced' => Shown')
  <2>1. Eval \in BOOLEAN
    BY DEF Eval
  <2>2. arg' \in [Task -> BOOLEAN]
    BY <1>2, <2>1 DEF Look
  <2> QED BY <1>2, <2>2 DEF Look, At, Goto, ledVars, shown, Shown
<1>3. ASSUME NEW t \in {Ctrl, Timer}, Show(t)
      PROVE  Typed' /\ (~raced' => Shown')
  BY <1>3 DEF Show, At, Goto, shown, Shown
<1>4. ASSUME NEW pat \in Patterns, Pattern(pat)
      PROVE  Typed' /\ (~raced' => Shown')
  <2>1. raced' \in BOOLEAN
    BY <1>4 DEF Pattern
  <2>2. ~raced' => ~raced /\ pc[Timer] \notin {"start", "release", "stop"}
    BY <1>4 DEF Pattern
  <2>3. pat \in Endless \/ pat = "ok"
    BY DEF Endless
  <2> QED BY <1>4, <1>P, <2>1, <2>2, <2>3 DEF Pattern, shown, Shown, Endless
<1>5. ASSUME NEW pat \in Patterns, Claim(pat)
      PROVE  Typed' /\ (~raced' => Shown')
  BY <1>5 DEF Claim, Goto, shown, Shown
<1>6. CASE StartBlink
  <2>1. ~raced => active \in Endless \/ active = "ok"
    BY <1>6 DEF StartBlink, At, Shown, Endless
  <2> QED BY <1>6, <1>P, <2>1 DEF StartBlink, At, Goto, shown, Shown, Endless
<1>7. CASE BlinkOff
  BY <1>7 DEF BlinkOff, shown, Shown
<1>8. CASE BlinkOn
  <2>1. repeats' \in 0..OkCount
    BY <1>8, PanelAssumption DEF BlinkOn
  <2>2. CASE repeats = 1
    BY <1>8, <2>1, <2>2 DEF BlinkOn, At, Goto, shown, Shown
  <2>3. CASE repeats # 1
    BY <1>8, <2>1, <2>3 DEF BlinkOn, At, Goto, shown, Shown
  <2> QED BY <2>2, <2>3
<1>9. CASE Release
  BY <1>9 DEF Release, At, Goto, shown, Shown
<1>10. CASE Stop
  <2>1. Typed'
    BY <1>10 DEF Stop, At, Goto, shown
  <2>2. ~raced => ~override /\ active = "ok" /\ active \notin Endless /\ repeats = 0
    BY <1>10 DEF Stop, At, Shown, Endless
  <2>3. ~blinking' /\ pc'[Timer] = "look" /\ UNCHANGED <<override, active, repeats, raced>>
    BY <1>10 DEF Stop, Goto
  <2>4. ~raced' => Shown'
    BY <2>2, <2>3 DEF Shown, Endless
  <2> QED BY <2>1, <2>4
<1>11. CASE ShortPress
  <2>1. (~relay) \in BOOLEAN
    OBVIOUS
  <2> QED BY <1>11, <2>1 DEF ShortPress, At, Goto, ledVars, shown, Shown
<1>12. CASE Toggle
  BY <1>12 DEF Toggle, At, Goto, ledVars, Shown
<1>13. ASSUME UNCHANGED <<override, active, blinking, repeats, lit, pc, arg, raced>>,
              relay' \in BOOLEAN, byRelay' \in BOOLEAN
       PROVE  Typed' /\ (~raced' => Shown')
  BY <1>13 DEF Shown
<1>14. CASE LongPressed
  <2>1. "fast" \in Patterns
    BY PanelAssumption
  <2> QED BY <1>5, <1>13, <1>14, <2>1 DEF LongPressed, ledVars, shown
<1>15. ASSUME NEW b \in BOOLEAN, SetRelay(b) \/ SetMode(b)
       PROVE  Typed' /\ (~raced' => Shown')
  BY <1>13, <1>15 DEF SetRelay, SetMode, ledVars
<1>16. CASE Bounce \/ (\E d \in 1..MaxGap : Poll(d)) \/ UNCHANGED vars
  BY <1>13, <1>16 DEF Bounce, Poll, vars, ledVars, shown
<1>17. ASSUME NEW pat \in Patterns, TimerPattern(pat)
       PROVE  Typed' /\ (~raced' => Shown')
  BY <1>5, <1>17 DEF TimerPattern
<1> QED
  BY <1>1, <1>2, <1>3, <1>4, <1>6, <1>7, <1>8, <1>9, <1>10, <1>11, <1>12, <1>14, <1>15, <1>16, <1>17
  DEF Next, Ticking, Callback

LEMMA PanelInvariant == Spec => []PanelInv
BY PanelInvInit, PanelInvStep, PTL DEF Spec

\* Every variable of the panel has its type (board.c:41-72).
THEOREM TypeCorrect == Spec => []TypeOK
BY PanelInvariant, PTL DEF PanelInv

\* A pattern that was not set in between two writes of the esp_timer task is shown
\* until it is over, for any patterns and any length of the one for success
\* (board.c:129-185).
THEOREM PatternIsShown == Spec => []PatternShown
<1>1. PanelInv => PatternShown
  BY DEF PanelInv, Shown, PatternShown
<1> QED BY <1>1, PanelInvariant, PTL

\* The button of the panel implements the abstract one (board.c:386-453).
THEOREM PanelDebounces == Spec => Debounces
<1>1. Init => ButtonInit
  BY DEF Init
<1> QED BY <1>1, ButtonSteps, ButtonDebounces, PTL DEF Spec, ButtonSpec

\* Whatever patterns are set in between its steps, the timer that runs on when
\* the LED is released is about to be stopped.
LEMMA StopStep == TypeOK /\ StopComing /\ [Next]_vars => StopComing'
<1> SUFFICES ASSUME TypeOK, StopComing, [Next]_vars
             PROVE  StopComing'
  OBVIOUS
<1> USE DEF StopComing, At, Goto
<1>0. Ctrl \in Task /\ Timer \in Task /\ Ctrl # Timer /\ Httpd # Timer
  BY DEF Task, Ctrl, Httpd, Timer
<1>1. ASSUME UNCHANGED <<override, blinking>>, pc'[Timer] = pc[Timer] \/ pc[Timer] # "stop"
      PROVE  StopComing'
  BY <1>1
<1>2. CASE Ticking
  BY <1>0, <1>1, <1>2 DEF Ticking, Wake, Look, Show, ledVars, TypeOK
<1>3. CASE Look(Timer) \/ Show(Timer) \/ Toggle \/ ShortPress \/ BlinkOff \/ BlinkOn
  BY <1>1, <1>3 DEF Look, Show, Toggle, ShortPress, BlinkOff, BlinkOn, ledVars
<1>4. CASE Release
  BY <1>0, <1>4 DEF Release, TypeOK
<1>5. CASE Stop \/ StartBlink
  BY <1>5 DEF Stop, StartBlink
<1>6. ASSUME NEW pat, Claim(pat) \/ Pattern(pat) PROVE StopComing'
  BY <1>6 DEF Claim, Pattern
<1>7. CASE LongPressed
  BY <1>1, <1>6, <1>7 DEF LongPressed, ledVars
<1>8. CASE Bounce \/ (\E d \in 1..MaxGap : Poll(d)) \/ UNCHANGED vars
           \/ (\E b \in BOOLEAN : SetRelay(b) \/ SetMode(b))
  BY <1>1, <1>8 DEF Bounce, Poll, SetRelay, SetMode, vars, ledVars
<1> QED
  BY <1>2, <1>3, <1>4, <1>5, <1>6, <1>7, <1>8 DEF Next, Callback, TimerPattern

\* While no pattern overrides the LED, what the pin shows is what led_update
\* evaluated from the user's selection: no blink is left over.
THEOREM LedIsLeftAlone == Spec => []StopComing /\ LedIsTheUsers
<1> DEFINE Users ==
             lit' # lit /\ ~override /\ ~override' =>
               \/ \E t \in {Ctrl, Timer} : pc[t] = "show" /\ lit' = arg[t]
               \/ pc'[Timer] = "start"
<1>1. Init => StopComing
  BY DEF Init, StopComing
<1>2. PanelInv => TypeOK
  BY DEF PanelInv
<1>3. TypeOK /\ StopComing /\ [Next]_vars => [Users]_vars
  <2> SUFFICES ASSUME TypeOK, StopComing, [Next]_vars, lit' # lit, ~override, ~override'
               PROVE  \/ \E t \in {Ctrl, Timer} : pc[t] = "show" /\ lit' = arg[t]
                      \/ pc'[Timer] = "start"
    OBVIOUS
  <2>1. CASE \E t \in {Ctrl, Timer} : Show(t)
    BY <2>1 DEF Show, At
  <2>2. CASE BlinkOff \/ BlinkOn
    BY <2>2 DEF BlinkOff, BlinkOn, At, StopComing
  <2>3. ASSUME NEW pat, Claim(pat) PROVE pc'[Timer] = "start"
    BY <2>3 DEF Claim, Goto, TypeOK, Task, Timer
  <2> QED
    BY <2>1, <2>2, <2>3
    DEF Next, Ticking, Callback, Wake, Look, Release, Stop, StartBlink, ShortPress, Toggle,
        LongPressed, Bounce, Poll, Pattern, TimerPattern, SetRelay, SetMode, vars, ledVars
<1> QED
  BY <1>1, <1>2, <1>3, StopStep, PanelInvariant, PTL DEF Spec, LedIsTheUsers
=============================================================================
