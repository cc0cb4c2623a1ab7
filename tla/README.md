# Verification of the Simurosot strategy

This directory holds TLA+ models of the robot-soccer strategy in
`src/SimuroSot`: a library that the simulator calls once a frame, which filters
what the simulator reports, decides what each of five robots should do, and
sets the speeds of their wheels. TLC checks the models on small instances;
the TLA+ proof system proves some of the properties for every value of the
constants.

Each module says in its first comment what it models. `PROJECT.json` lists the
runs, maps every definition to the lines it stands for, names for every property
a plausible bug that breaks it, and lists the hazards the properties are for.

    tlc -workers 2 -config MCTester.cfg MCTester.tla
    tlapm TAttackProofs.tla

## The system

`Strategy` (Strategy.cpp) is called for every frame. It lets the Kalman filter
read the environment and write the positions, velocities and angles into the
`BeliefState` (`kFilter.addInfo`, `kFilter.update`), computes the predicates
of the belief (`state.update`) and runs `Tester::run`, which gives each robot a
tactic. A tactic reads the belief through a pointer and executes a skill of
`SkillSet`; a skill works out wheel speeds and ends in `Comm::sendCommand`,
which writes them into the environment. All of it runs in one thread: there is
no concurrency inside a frame. What makes the program hard is what survives
from one frame to the next, in many places, while the field changes at will.
The one thing a frame waits for is outside: the receiver's tactic sends a
message to the debug console, another process that starts and ends on its own.

| Component | State between frames | Operations | Modelled in |
|---|---|---|---|
| State filter (Utils/kalman) | pose, velocity, variance and gain of each body | `addInfo`, `update` | `KalmanPosition`, `KalmanAngle`, `Strategy` |
| Belief (Core/beliefState) | positions; the latches `ballOurGoal`, `ballOppGoal`; goal counts | `update` | `BallLocation`, `BeliefState` |
| Match (Core/tester.hpp) | the tactics, as static objects | `run` | `LineUp`, `Tester` |
| Tactic MidField | `iState` | `execute` | `TMidField` |
| Tactic Attack | `iState` | `execute` | `TAttack` |
| Tactic AttackLingo | `iState` | `execute` | `TAttackLingo` |
| Tactic CoverGoal | `sID`, `sParam`, `charge`, `pPoint` | `execute` | `TCoverGoal` |
| Goalkeeper | `ticks` and `flag` of its oscillation, static | `execute`, `goalKeeping`, `oscillation` | `DirectPlay`, `GoalKeeping` |
| Receiver | none | `execute` | `DirectPlay` |
| TestSkill | the last three places of the ball, static, one history for all robots | `testSkill` | `LineUp`, `TestSkill` |
| GoToPoint, TurnToAngle | none | `_goToPoint`, `turnToAngle` | `GoToPoint` |
| GoToPointDW | two static wheel speeds | `_goToPointDW` | `GoToPointDW` |
| Local avoidance | the invalid intervals, within one call | `plan`, `setInvalid`, `getLimits` | `Angles`, `AngleChooser`, `LocalAvoidance` |
| Commands | wheel speeds in the environment | `sendCommand` | `Commands` |
| Entry points (Strategy.cpp) | whether the library is loaded | load, `Create`, `Strategy`, `Destroy`, unload | `Plugin`; elsewhere a frame is one step |
| Debug link (winDebugger, ConsoleDebugger) | the sockets of the client and the console, the messages between them | connect, `Accept`, `SendMessages`, `RecieveMessage` | `Plugin`, `Strategy` |

How they interact: the filter writes the belief, the predicates extend it, the
tactics only read it, and the skills only write wheel speeds. A robot that gets
no command in a frame keeps the wheel speeds of an earlier one; a robot that
gets several follows the last.

What is hard, and what would make each part correct:

* *Filter.* It starts off the field and its gains depend on each other: it must
  come to report where a body is, in bounded time, from either start and across
  the wrap of the angles.
* *Belief.* The scans for the nearest robots stop early, in the order of the
  robots. Goals are counted once through latches that a ball crossing the field
  may leave set.
* *Tactics.* A state entered for one field is acted on in a later frame, after
  the field or the tactic in charge of the robot has changed; cases that only
  change state can hand the robot to each other for ever; cases fall through,
  later commands overrule earlier ones; skills and parameters of earlier frames
  are used again.
* *Match.* Robots change tactics from frame to frame, and a tactic resumes in
  the state it was left in.
* *Skills.* Obstacles around the ball must not make it unreachable; a turn must
  end where the skill stops; a ramp of wheel speeds that all robots share must
  stay bounded; a history of the ball that several robots add to, with gaps and
  twice in a frame, must become right again; a goalkeeper sent by four rules that
  look at three lines must still stand in the way of a shot.
* *Debug link.* `send` blocks when nobody reads. The console serves one
  connection of however many are made, while either process is killed and started
  at any time: a frame must not wait for ever.
* *Avoidance.* Intervals of directions are merged in place on a circle: nothing
  clear may be blocked, nothing blocked may be taken while there is a gap.

## The modules

A frame of a tactic is one step: `Next == Tick /\ state' \in Beliefs /\
Execute(state')`. The belief of a frame is any of the constant set `Beliefs`, so
a run covers every sequence of them; what the robots and the opponents do
between frames is left open, which includes every motion of theirs. `Execute`
is the disjunction of the cases, and `sent` is the sequence of commands of the
frame. A command is a skill and the reason its parameters were chosen (its
*role*); coordinates of targets are abstracted.

* `Field`: dimensions, as the `SELECT` macro and `int` constants leave them,
  geometry, and the scene a frame starts from. An angle of a robot is reduced
  to the outcome of the tests made of it.
* `Commands`: commands and sequences of them.
* `BallLocation`, `BeliefState`: `computeBallLocation`, the side predicates and
  `checkForGoal`. `ScoreBoard` is the abstract board: a goal counts once until
  the ball is back in play. `BeliefState` implements it (`KeepsTheScore`, with
  the board armed if neither latch is set).
* `Tactic`, `TacticStates`: what the tactics, and those that are state machines,
  share. `TMidField`, `TAttack`, `TAttackLingo`, `TCoverGoal`: the tactics, for
  one robot `botID`. `TCoverGoal` predicts the ball with the code's table of
  factors and the distance between robot and ball, in whole millimetres.
* `DirectPlay`: the goalkeeper, the receiver and TestSkill, as functions from
  the belief to the commands of a frame.
* `LineUp`: the tests of `Tester::run` that depend on the belief of the frame
  alone, and which robots execute TestSkill in it (`Callers`).
* `Tester`: composes eight instances of the tactics and the direct play into a
  match. Each action gives a robot one tactic and leaves its others as they are.
* `GoalKeeping`: the point `goalKeeping` sends the goalkeeper to, in
  millimetres, and the static counter of `oscillation`.
* `TestSkill`: the static history of the ball and the destination predicted
  from it, with the calls of a frame that `LineUp` makes.
* `Angles`, `AngleChooser`, `LocalAvoidance`: a turn is `2 * PI` directions.
  `AngleChooser` is the set of intervals with `setInvalid` and `getLimits`;
  `LocalAvoidance` adds obstacles one by one (`Avoid`) and then takes a
  direction (`Steer`).
* `GoToPoint`, `GoToPointDW`: two of the skills. `Skills` follows one of
  `GoToPoint`, `GoToPointDW`, `GoalKeeping`, `TestSkill` and `LocalAvoidance`.
* `KalmanPosition`, `KalmanAngle`: the recursion of `addInfo` in scaled
  integers, for one coordinate and one orientation; none of the thirty-two
  coordinates and orientations reads another.
* `Plugin`: the simulator's process with the library, the console's process, and
  the connections between them. A frame is three steps here, with the message in
  the middle. A connection is the number of the load that made it; the backlog of
  the console's socket holds one, as its `listen(1)` says.
* `Strategy` follows one of a coordinate, an orientation and the connection.

`Strategy` and `Skills` put side by side parts that share no state, so that one
run checks them all; they claim no interaction between them.

## The runs

Eight runs pass and four are refuted as the code is written.

| Run | Question | Bounds |
|---|---|---|
| `belief` | Are goals counted as an abstract board counts them, and what does "nearest" mean when a scan stops early? | nine places of the ball (both goals, beside them, the latch lines to the millimetre, the middle), four formations, `MaxGoals` goals |
| `midfield` | Do commands fit the ball, and when is the robot left alone? | five places of the ball on either side of every line, 240 scenes |
| `attack` | The spin over three frames, the swarms, the livelocks | robot 1, who alone forms every swarm |
| `attack_lingo` | Which commands of a frame may overrule which? | robot 4, each part of the field the cases tell apart, the edge of the strip |
| `cover_goal` | Where are stale skills and points used, and is the goalkeeper given way? | eleven places of the ball, at rest or at 2 m/s to either goal, five of the robot, a goalkeeper in its goal and out of it |
| `match` | Is every robot driven, from whatever states the tactics were left in? | beliefs that give each robot each of its tactics |
| `strategy` | Does the filter settle? Who is served by the console, and who is blocked? | two moves at any time, two places on either side of the limit at which an estimate is given up, a turn across the wrap; three loads (one served, one in the backlog, one refused), room for two messages |
| `skills` | Does a turn end, is the ball reachable, how fast can the ramp get, is a shot covered, is a gap in the history forgotten? What do the merged intervals contain? | three scenes around the ball; the largest, a small and no change of the wheels; 86 views of the goalkeeper; three balls a slow move apart, one a jump away, and three formations, with no, one and two calls in a frame; `Period = 3` and `Cycle = 6` for the code's 15 and 1500; a turn of 64 directions, up to four of sixteen obstacles in any order |
| `midfield_charge`, `cover_params`, `skills_dest`, `skills_edge` | the four divergences below | as the run of the same module |

The bounds are enough in this sense: a tactic compares positions only with each
other and with lines of the field, and the sets of beliefs hold a place on each
side of each comparison it makes, so that every disjunct of every case is taken
(the coverage of each run says so) and every pair of beliefs can follow each
other. The filter is linear between its limits. What the intervals do depends
on the order of their ends, and four obstacles are more than a merge looks at. Three
frames with a call are as many as TestSkill remembers. The backlog holds one
connection, so a third load meets every state of it; a fourth would meet the same.
The oscillation depends on its two numbers only through their quotient, and
`SwingsEvenly` is proved for all of them. For the properties that are proved the bounds do not matter.

**Fairness.** The liveness properties assume that frames keep coming
(`WF_counter(Tick)`; `counter` is the parity of the frame counter of
Strategy.cpp, so that a frame in which nothing else changes is still a step).
The simulator calls `Strategy` for every frame it simulates, whatever the last
one did. Nothing is assumed of the choice of the beliefs; the liveness properties
say what happens *if* the belief stays as it is (`<>[][UNCHANGED state]_vars`),
which is how a livelock shows: the same field, and a robot that is never
commanded. The filter's ask what happens once the body rests.

For the connection, `Plugin!Fairness` is weak fairness of what a running process
does by itself: the console's `Accept` and `RecieveMessage`, which are loops that
do nothing else, and the steps of a frame, `BeginFrame`, `SendMessages` and
`FinishFrame`. Nothing is assumed of loads, unloads, starts and kills: a console
may never be started, and a simulator may never be restarted.

**Livelocks.** `FrozenIsDriven` and `AllDriven` name the beliefs in which a robot
is never commanded (`Livelock`, `MayIdle`) and say there are no others. That
those beliefs exist is itself a result: see below.

## The proofs

Eight modules of proofs. They rest on no assumption but those on the constants
(the `ASSUME`s of the modules), which TLC evaluates in the runs.

* `BeliefStateProofs`, for every set of scenes and every bound on the score:
  `TypeCorrect`, `LatchCorrect`, `ScoreCorrect` (the refinement of the board:
  initial states map to initial states, and each step to a step of the board or
  a stutter), `SecondFrameCorrect`, `NearestCorrect`. The last rests on a lemma
  about scans: comparing one more robot keeps a first least one, which is
  applied five times instead of an induction.
* `TMidFieldProofs`, for every robot and every set of beliefs: `TypeCorrect`,
  `CommandCorrect`, `SilenceCorrect`. One lemma, `FrameEffect`, says what a frame
  of any case does: it switches and is silent, or stays and sends one command
  that fits the belief it was chosen from.
* `TAttackProofs`: `TypeCorrect`, `SwarmCorrect`, `SpinCorrect`,
  `SilenceCorrect`, `SwarmFrameCorrect`. `SpinFollowsAcross` is not inductive: it
  relates the command of one frame to the last frame, and a spin may be resumed
  from its state. The invariant adds `SpinHasReason`: in a state that spins, the
  last frame spun or saw the robot across the ball. `SwarmFrameCorrect` rests on
  `PlacesExclude`: the case that `FORM_SWARM` runs on into has a place only ahead
  of the team mate, `FORM_SWARM` only behind him, so that what runs on adds no
  command and changes the state. That the robot nearest to
  the ball is never sent behind itself needs no memory: a place behind a team
  mate is strictly ahead of it or behind it, whoever it is.
* `TCoverGoalProofs`, for every robot and every set of beliefs: `TypeCorrect`,
  `StaleCorrect`, `GuardCorrect`. `FinishEffect` says what the
  rules at the end of `execute` make of a branch's choice, `PointGiven` that
  away from our goal a prediction is always ahead of the robot or behind it, so
  the branch for our half assigns a point, and `KeeperCameOut` that the early
  return, four tests away from the guard it evades, meets the goalkeeper only
  outside our goal area.
* `TAttackLingoProofs`, for every robot and every set of beliefs: `TypeCorrect`,
  `SwarmCorrect`, `OverruledCorrect`. A frame runs through up to three cases, each
  of which may append a command, so the lemmas say of each case what it appends
  and when a later one can follow; the type invariant is that `DEFEND` is never
  entered.
* `TesterProofs`, for every set of beliefs: `TypeCorrect`, `MidFieldCorrect`,
  `SpinCorrect`. A tactic's theorems do not carry over to the match, in which the
  belief changes between two frames of the tactic: a robot's tactic resumes with
  what it kept from a frame some time ago. The inductive invariant therefore says
  only what survives that: each instance is in its own states (`MembersInv`) and
  the commands of each robot fit the belief of their frame (`AllFit`: a spin only
  with the ball in reach, the place on the line only for robot 0, four commands
  at most). One lemma for each tactic and robot says that a frame's commands
  fit whatever state it starts in, and one for each robot that the others keep
  theirs.
* `SkillsProofs`: `TopSpeedCorrect`, for every set of changes of up to 15 ticks.
  The limits the code tests never bind; what bounds the ramp is that ticks kept
  are taken for cm/s, so that a tenth of the speed is lost in every frame:
  `|ramp| <= 3103` is inductive because (3103 + 30 * 11.07) / 1.107 < 3104, and
  the two wheels differ the less the more their changes add up. `SwingCorrect`,
  for every period and cycle, related or not: the invariant is that the frames
  held are `1 + (ticks - 1) % Period`. `ReachableCorrect`, for every scene and
  destination: every obstacle is more than three radii of a robot from the ball, so
  that a destination within a radius of one is, by the triangle inequality on
  squares (`ThreeRadii`), more than two from the ball.
  `CoverCorrect`, for every view: the two divisions and the clamps between a shot
  and the point of the goalkeeper, each with its truncation bounded (`TruncatedRounds`),
  add up to less than the radius of a robot. `HistoryCorrect`: `HistoryInv` says
  which of the three places kept are healed after one, two and three frames with
  calls, for any callers. `FollowsCorrect` adds that the places of a healed history
  are a slow ball's, so that the lead is 6 mm at most.
  `OverblocksCorrect` and `ExactCorrect`, for every turn, every set of obstacles and
  any number of them: the invalid directions *hold* the blocked ones, which means
  they are the same, or a part of them where every direction is blocked (`PlanInv`).
  That relation is transitive and survives adding directions, so each of
  the steps of `setInvalid` (insert, sweep, close, merge two) has a lemma of its
  own. The sweep is a fold; that the recursive function in the definition of
  `FoldLeft` exists, and what it keeps, is shown by taking a least counterexample
  (`Least`, from the well-foundedness of the natural numbers).
  `NearestCorrect` follows the intervals themselves. `FewInv` says that while up to
  three obstacles leave a gap there are no more intervals than obstacles, apart and
  in order, and one of them contains the sector of each obstacle. It is inductive
  because `setInvalid` with up to three intervals merges all that meet and leaves
  the others (`setInvalidFew`), wherever a third is inserted (`FewSettle`). The ends
  of an interval that is not the whole turn are then edges of obstacles
  (`LimitIsEdge`), and no clear direction is nearer to the goal than the nearest of
  them (`NearerIsNearest`). That part of the property holds of any number of
  obstacles, since what the intervals cover is enough for it.
* `StrategyProofs`: `TypeCorrect`, for every set of places and turns, every half
  turn, every number of loads and every room in a connection. It bounds the filter:
  the variance rises to 375 at most, where the share it loses is the noise it
  gains (`VarianceBounded`), an estimate stays within a field of the centre or is
  given up, and an orientation within the turn, since the gain takes less than
  the whole of half a turn. `SettledCorrect`, for every set of places up to two
  fields wide and every number of moves, from 52 frames on: error and velocity
  together are bounded by an energy, `k * e^2 + 1000 * v^2` for the variance `k`,
  of which a frame leaves `1000 / (k + 1000)` and what the division truncates
  (`FrameEnergy`). `Fading` is the inductive invariant: the variance has risen to
  307 four frames after a move (`VarianceRises`), from where every frame takes an
  eighth off the swing (`SwingFades`), so that six frames halve it (`Bound`);
  before, it does not grow (`SwingLasts`). What is left after 52 frames is 282 mm.
  (Energies are beyond the 32 bits of TLC's integers, so no run evaluates `Fading`.)
  For the two places of the run TLC finds 24 frames enough. `FirstCorrect`:
  `FirstIsServed` alone is not inductive:
  a connection accepted after the first one is ruled out because a console that
  serves or has one waiting has had a first (`HasFirst`).

Only model-checked: the liveness properties (`FrozenIsDriven`, `AllDriven`,
`AngleSettles`, `TurnSettles`, `FirstComerPlays`; fairness is out of the prover's
reach). Every invariant and every action property of the passing runs is proved,
`SettledInTime` for `Settling >= 52` where the run has 24.

Some properties need a count the code does not keep: `TestSkill` tells three frames
with calls by `run`, `Plugin` the first connection by `first`, `GoalKeeping` the
frames on a side by `held`, and `KalmanPosition` the frames at rest by `still`.

## Where the code and its comments disagree

1. *MidField does not defend* (`midfield_charge`). tMidField.hpp:240 says
   "Ball is with opp bot who is charging towards goal. So defend the goal", but
   the test before it (226) hands over to ATTACKING, which hands back.
2. *CoverGoal executes a skill with the parameters of another* (`cover_params`).
   The branch at tCoverGoal.hpp:161 assigns `sParam` and not `sID`, against
   tactic.h:169, "Parameters of the selected skill to be executed".
3. *An opponent at the destination is an obstacle* (`skills_dest`).
   skillSet.cpp:157 compares the destination with our robot of the same number,
   against the comment above it.
4. *An obstacle at exactly SAFE_RADIUS blocks every direction* (`skills_edge`).
   LocalAvoidance.cpp:149 leaves it half an angle of 0, so that both its edges are
   the same direction, and insideInterval (intersection.cpp:169) takes an interval
   whose ends are equal for the whole turn, against intersection.cpp:185,
   "invalidates SMALLER sector between 2 angles". The robots are at whole
   millimetres, so that a distance of exactly 600 occurs (360 and 480, say). The
   other properties of the plan leave such obstacles out (`Wide`).

Seen while modelling, and kept in the models as the code has it:

* beliefState.cpp:160-181: `fieldCentre` is never assigned, so the side predicates
  compare with the default coordinate; tAttack.hpp:225, tAttackLingo.hpp:115 and
  beliefState.cpp:100 index our robots with numbers of opponents (`OppositeNear`).
* tAttack.hpp:221, "Ball is not with bot so go to ball first": APPROACHING may
  form a swarm in which there is no place, and be given the robot back (`Livelock`).
* tAttack.hpp:588 and tAttackLingo.hpp:251: a missing `break`. In the first the
  second case never has a place where the first has one, so the swarm ends in the
  frame it acts in (`SwarmIsOneFrame`); in the second later commands overrule the
  guard of the goalkeeper (`OverruledWithReason`).
* tester.hpp:306: robots 2 and 4 get nothing when they are equally near to the
  ball (`Tie`).
* intersection.cpp:185: once the obstacles cover every direction, intervals
  may be lost (`GapCoverExact` holds while they leave a gap). With four of them
  the direction taken may be into an obstacle: an interval that wraps around can
  keep another inside it, which `getLimits` finds first (`TakesNearestClear`).
* skillSet.cpp:537, "120ticks": the ramp of `_goToPointDW` reaches 155.
* tCoverGoal.hpp:156: TestSkill is called for robot 1 too, so the history it
  keeps for robots 2 and 4 may hold a ball twice. The factors of its prediction
  are small: with a healed history a ball below 3 m/s is led by 6 mm at most
  (`FollowsBall`). A place beyond a side wall is moved by half a field, to the
  middle (sTestSkill.cpp:128).
* sGoalKeeping.cpp:48: with the ball in their half its way is followed to a line
  597 mm before the one the goalkeeper stands on; with the ball far out its way is
  not looked at, which `CoversTheShot` excepts. Its oscillation gives one side a
  single frame where the count starts again (`SwingsEvenly`).
* tReceiveBall.hpp:101 and 195: the loop over the opponents ends before the last.
* sTestSkill.cpp calls `_goToPointPolar`, which asks the planner and then works
  from the destination again.
* Server.cpp accepts one connection and leaves the socket listening: a second
  load of the library connects, nobody reads it, and `send`, in the middle of a
  frame, blocks as soon as the buffers are full; robots 1, 2 and 4 then keep their
  wheel speeds. `FirstComerPlays` says that it never happens to the first.
* Strategy.cpp:45: `Create` sets back the frame counter only.

## Not modelled

* Skills that no tactic of the match executes, tactics that are not played, the
  curve planner (compiled only without `LOCAL_AVOID`), `Robot` and its thread, the
  helpers of `Tactic`: reached by nothing that runs.
* `_goToPointPolar`: a control law on floats, from a distance and an angle to two
  wheel speeds. It keeps nothing between calls.
* The numbers of targets of the tactics and of the receiver: the roles stand for
  them. The search of `_goToPointDW` for the best wheel speeds: any reachable ones
  may be the best.
* The simulator's record of the environment: only the order of the commands in
  it matters.
* What the messages to the console say, a Winsock that fails to start, logging,
  vendored libraries (dlib and alglib, most of the lines of `src`), build files.

## Plan

Built, in this order: the belief and the score; the tactics and the match;
avoidance; the filter; GoToPoint and GoToPointDW; their proofs; the goalkeeper's
point, TestSkill's history and the line-up; the connection; the proofs of
`TAttackLingo`, the match, the filter's bounds, the distances of the skills and
the intervals; of the direction taken among them and of the filter's swings.

Left: the liveness properties, which only TLC checks; `_goToPointPolar` and the
curve planner, which would need the arithmetic of floats.
