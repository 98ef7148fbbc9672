# HoldToSpeak: a TLA+ development

HoldToSpeak is a push-to-talk dictation program for Windows: hold two keys, speak, release, and the
words appear at the cursor. Recognition runs in a local sidecar process. This directory holds
TLA+ modules that model the program's concurrent core, TLC configurations that check them on small
instances, and TLAPS proofs that hold for every value of the constants. Paths below are relative to
the repository root.

## 1. Inventory

Threads and processes:

```
 OS keyboard hook --HotkeyEvent--> hotkey forwarder --begin/end/cancel--> capture ring <-- audio callback
   |                                      |                                   ^
   | key-down count (InputWitness)        | Utterance, CycleMode, Quit        | take_utterance
   v                                      v                                   |
 pipeline thread <----PipeMsg channel---- tray thread, console thread, ctrl handler
   |  probe target -> sidecar call over two pipes -> spacing -> route chain (clipboard / keystrokes)
   v
 sidecar process: pin the runtime library, load, READY caps, one reply line per request line, learn, __quit__
```

| Component | State | Operations | Hard part | What makes it correct |
|---|---|---|---|---|
| Capture ring, `crates/nib-audio` | ring, `total_samples`, `rec_start_abs`, `recording`, `pending` | callback push and trim, begin, end, cancel, take | three threads, the forwarder takes no lock, frozen absolute indices | a released hold is handed over once, whole and exact, however late; the ring shrinks again |
| Sidecar client, `crates/nib-asr` | child, pipes, caps | spawn, request (restart and replay once), learn, drop | crash at any point, partial lines, hangs | each call returns its own whole reply or nothing; no process is left behind; caps follow the process |
| Sidecar process, `crates/nib-asr-sidecar` | models, dictionary | load, transcribe, learn, quit | aborts inside native code | one line per request; a learn is saved before it is acknowledged |
| Pipeline, `crates/nib-pipeline` | mode and its published copy, spacing memory | utterance, cycle, set, learn, quit | the user keeps acting while it blocks | only good transcripts are typed, once and in order; no stray and no missing space; the WAV is removed; Quit ends it once the calls return |
| Mode policy, `crates/nib-cleanup/src/lib.rs` | none | clamp, next, effective mode | | the shown mode can be served |
| Injection policy, `nib-platform`, `nib-inject`, `nib-target` | none | route chain, fallback | | a password field ends the chain |
| Win32 injector, clipboard, `crates/nib-win32/src/{inject,state}.rs` | the system clipboard | save, set, paste, restore | other applications share it, calls fail, the target reads later | the user's clipboard survives; the paste is the text |
| Keyboard hook, `crates/nib-win32/src/hook.rs` | modifier flags, latches, `RECORDING`, `WIN_LEAKED` | one handler per key event | swallowed keys, missed key-ups, chords | a hold ends with its keys; no key is stuck; a chord fires once |
| Target probe, `crates/nib-win32/src/{target,uia}.rs` | none | snapshot, warm | a time box; the answer is late or missing | a password field that answers is never typed into |
| Model store, `crates/nib-models` | files | resume, verify, unpack, rename | a crash between any two steps | a complete model or a retry that works |
| Dictionary, tidy, `crates/nib-cleanup` | replacements, file | load, learn, apply; tidy | order of rules, round trip | what was learned is what is read back; only fillers go |
| Configuration, `crates/nib-config` | two files | load, write the template | half of a file is wrong | one bad line costs one setting; hook and forwarder agree on the chords |
| Composition root, `crates/nib-core` | what runs, `shutdown_done` | start-up, retry, teardown, fatal exits | close handler against teardown | it always ends; each start has what it needs |
| Tray, autostart, runtime library | icon, Run entry, bound DLL | add and remove, get and set, pin | threads that start late, calls that fail | |
| Overlay, bench, packaging | | | | see section 7 |

Components and their status are listed one by one in `PROJECT.json`, with every hazard at its line.

## 2. Modules

| Module | Models | Uses |
|---|---|---|
| `PushToTalk` | abstract: samples are heard, holds begin and end, each completed hold is handed over with all its samples | |
| `CaptureRing` | `crates/nib-audio` and the forwarder's calls into it | instantiates `PushToTalk` (`Implements`) |
| `CaptureRingProofs` | theorems about `CaptureRing` | |
| `SidecarService` | abstract: a call returns its own reply or nothing | |
| `Sidecar` | `crates/nib-asr`, the protocol loop of `crates/nib-asr-sidecar`, the start-up retry of `crates/nib-core` | instantiates `SidecarService` (`ImplementsService`) |
| `SidecarProofs` | theorems about `Sidecar`, the refinement of `SidecarService` among them | |
| `Pipeline` | `crates/nib-pipeline` with the mode, route and probe policy it calls | relies on what `SidecarService` promises |
| `PipelineProofs` | theorems about `Pipeline` | |
| `KeyHook` | `crates/nib-win32/src/hook.rs` and `hotkey_forwarder` | |
| `Desktop` | `clipboard_paste` and the route loop, the clipboard, the target, the user | extends `KeyHook` |
| `DesktopProofs` | theorems about `Desktop`, and about `KeyHook` inside it | |
| `ModelStore` | `crates/nib-models` | |
| `Config` | `crates/nib-config`, the command line, the hook's unpacking of bindings | |
| `Startup` | `main` of `crates/nib-core`, the engine's start, `crates/nib-ortload-sys`, autostart, tray, console handler | extends `ModelStore` and `Config` |
| `StartupProofs` | theorems about `Startup`, the model store and the configuration inside it | extends `FoldFacts` |
| `Lists` | filtering a list, for `Config` and `Text` | |
| `Text` | text as the clean-up tells it apart | extends `Lists` |
| `Dictionary`, `Tidy` | `crates/nib-cleanup/src/dictionary.rs`, `tidy.rs` | extend `Text` |
| `Cleanup` | what the engine does with a transcript and a lesson | extends `Dictionary` and `Tidy` |
| `CleanupProofs` | theorems about `Cleanup`: lessons and the dictionary | extends `FoldFacts` |
| `TidyProofs` | theorems about `Cleanup`: what the tidying leaves out and how it ends | extends `CleanupProofs` |
| `FoldFacts` | induction, sequences and folds | |
| `MCCaptureRing`, `MCSidecar`, `MCPipeline`, `MCDesktop`, `MCStartup`, `MCCleanup` | constants for TLC | |

### CaptureRing

One action is what a thread does between two points at which another thread can be seen. The
callback owns the mutex from the push to the end of the trim, but its two loads in `trim_if_idle`
are separate actions, because the forwarder changes `recording` and `pending` without the mutex.
`begin_utterance` is `BeginLoad`, `BeginStore`; `end_utterance` is `EndCount`, `EndClear`,
`EndFreeze`; `take_raw` is `TakeCopy` (under the mutex) and `TakeRelease` (after it). A sample is its
own absolute index, so what a copy contains can be compared with what was spoken. All atomics are
`SeqCst` in the code, which is why interleaving is the right model. `down`, `slip` and
`presses` are history variables. `MaxSlip` limits the samples pushed inside one `begin_utterance`:
the gap is a handful of instructions, but nothing in the code limits it, so the properties state the
loss as a function of the actual slip, and the refinement gives `PushToTalk` a `Slack`: the samples
at the start of a hold that may be missing, `MaxSlip` less the look-back. With a slip within the
look-back it is 0, and every sample of a hold is handed over.

`start_abs` and `end_abs` are loaded in one action (`EndFreeze`): only the forwarder writes
`rec_start_abs`, so the two loads cannot be told apart from one.

### Sidecar

`pc` is where the client's thread is (`spawn`, `handshake`, `waitExit`, `idle`, `await`, `failed`,
`reap`, and the ends `gone` and `fatal`). Each process has fresh pipes. A process loads, serves, works
and replies one line at a time; `Crash` can happen in every phase and may leave a partial line, `Wedge`
stops it for good, a start can fail before the process exists, and a line may not be valid UTF-8. Each
of these costs one of `MaxFaults`. A line is its meaning (READY with or without `llm`, noise, the reply
to request r, partial, garbled); a reply carries the number of its request, so that a reply taken for
another request would show. The dictionary file is `saved`: how often each learn was appended. A READY
whose line end is cut off is accepted by the code; for the client that is a READY followed by the end
of the process. That the WAV path and mode are written out as one line is abstracted.

### Pipeline

Text is the number of its utterance and whether a space goes before it. The thread stops at `probeApp`,
`probeControl`, `asr`, `space`, `inject` and `learn`, the points where `on_utterance` and `on_learn`
wait for something or read something the user can change, and between any two of them the user can
type, move the focus by key (both counted by the hook, `hook.rs:191`) or click (not counted by
anything). `behind` is the ground truth the program cannot see: the controls whose caret is right
behind our own last text. `log` records for every utterance that had a transcript what was decided and
what was true at that moment. `unseen` marks what neither the target key nor the witness can tell: a
click, a key between the witness reading and the keystrokes, or text that went to another application
than the one probed. A transcript never starts or ends in whitespace (the client trims the line), so
`prev_ended_ws` is only ever `None` or `Some(false)`. With `default_routes` and what
`Win32Injector::inject` answers, every chain that does not refuse ends in a route that always says
`Inserted`; `NotInserted` keeps the other outcome, and no run reaches it.

`asr` and `learn` are calls into the sidecar, which need not return. `RemoveWav` is `remove_file`, whose
result the code does not look at: `kept` remembers that the system refused, and the recording then
stays until the next one is written over it. `ForcedExit` ends the process at any point, as the
console handler does when the teardown takes longer than its three seconds. What is sent behind a
Quit is never received and is left out. `told` is the password field, if any, that UI Automation said
it had been asked about.

The probe stops twice (`ForegroundExe`, then the control's password flag and the integrity level),
and each of the three reads can come back empty: a UI Automation query that does not answer in its
time box is `None`, and so is an integrity level that cannot be read.

### KeyHook and Desktop

`HookProc` is one key event: note the modifier, heal the other groups from `GetAsyncKeyState`, look for
a chord, disarm, note typing, follow the edges of the push-to-talk combo, mask a leaked Win, swallow or
pass on. `phys` is what is physically down, `os` what the system and the applications believe, `flag`
what the hook believes; the three really differ, because a key-down may be swallowed and its key-up
passed on. Windows does not say whether a key whose press a hook swallowed shows as down in
`GetAsyncKeyState`, so `AsyncDown` is any set in between. `MissedRelease` and `MissedDown` are events
that never reach the hook (secure desktop, time-out): a key-up, or a key-down or one of its repeats.
`lost` and `slipped` remember them. `gesture` is the shell's rule for the Start menu, as far as the
dummy key of the code depends on it. Windows delivers our own keys tagged, and the hook lets them pass,
so `SendKey` changes `os` only.

`Desktop` is the pipeline's thread inside `inject_with_fallback`, stopped between any two clipboard
calls and between any two keys it sends, while the user types, releases and copies. A clipboard call
fails before or after it has emptied the clipboard. `due` are the utterances whose paste the target was
told of and has not carried out, `age` how long ago that was. Time passes in `Tick`: `Restore` comes
`Settle` ticks after the paste, the 150 ms of the code, and whether the target has read by then is not
looked at; neither does the next utterance wait for it. That a target reads within `Lag` ticks is an
assumption about other programs, and `NeverStalePaste` claims something only for `Lag < Settle`; a
target that needs longer does insert the user's old text. `TargetReads` inserts whatever the clipboard
holds at that moment. `owner`, `copied` and `failed` are history.

### ModelStore, Config and Startup

The archive is `Size` chunks in order, a file that hashes right is exactly that sequence, and 0 is any
other chunk. Each step of `ensure_model` is an action, `Killed` can come between any two, and the files
stay as they were written, in the order they were written: the end of the process, not of the power.
What a power failure makes of files nobody synced is outside. Reads, writes, the request, the unpacking
and the rename can fail, and so can the removals whose result the code does not look at (of a file that
is too long, of one with the wrong hash, of the archive after the install); `staging` has what the
unpacking under way has written, since what an earlier one left is removed or written over. `Config`
takes the lines of the two files already split into key and value (lower case, trimmed, without comment
and quotes); a hotkey's value is its parts between the plus signs. `Startup` walks `main` in the order
of the code: template, autostart, arguments, model, engine, capture, hotkeys, console handler, tray,
serving, teardown; the engine's own start (`pin_beside_exe` and the model), the console handler and the
tray run beside it. Every fault of network, disk, runtime library or user costs one of `MaxFaults`, an
edit of a file too. `Busy` may last for ever: nothing in the code bounds an utterance. `fatal` ends
with the Enter of a user (`FatalEnter`), who owes none, or with its time limit (`FatalTimeout`). The
settings are carried to where `main` uses them, with two fields that are read for others: `autostart`,
and `silence_rms`, which nobody uses (the pipeline asks the environment variable `NIB_SILENCE_RMS`).

### Text, Dictionary, Tidy and Cleanup

Text is a sequence of pieces: a maximal run of word characters, or one mark; a piece knows its lower
case form and whether it begins with a capital. That is as fine as the rules look: they ask for
whole words, edges of words, marks, numbers and capitals. Each list of the code (fillers, discourse
markers, trailers, terminators, closers) has a few members. The loops of the code are folds, one
step per token. `Cleanup` strings them together as the native engine does, over several utterances
with lessons and restarts in between; the Python engine and the optional language model are not
modelled.

## 3. Runs

| Run | Question | Bounds | Distinct states |
|---|---|---|---|
| `ring` | accounting, mapping and content of every copy under every interleaving; refinement of `PushToTalk` with fairness; the ring shrinks | look-back 2, chunks 0..2, 6 samples, 3 holds, slip 3 (more than the look-back) | 1.5 million |
| `sidecar` | restart, replay, capabilities, shutdown, service | 3 calls, 4 faults | 125 thousand |
| `pipeline` | what is typed, spacing, the file, the published mode, and that Quit ends the thread | 3 messages, 2 user actions, 3 controls | 3.6 million |
| `desktop` | keyboard and clipboard against user, target and failing calls | 6 key events of 3 keys, 2 chords on one key, 2 utterances, 3 route chains, channels of 1, a target that takes 1 tick, a sleep of 2 | 3.6 million |
| `startup` | launches with files, faults and kills; the ways out | archive of 2 chunks, 2 files, 3 faults, 4 + 4 configuration files, 4 command lines, 3 load attempts, 2 polls | 302 thousand |
| `cleanup` | dictionary and tidying in each mode, lessons and restarts | 18 stretches of speech and 5 lessons, 3 of them together | 65 thousand |
| `ring_fixed`, `pipeline_mode`, `pipeline_elevated`, `pipeline_landing`, `desktop_paste`, `startup_mode` | claims the code does not keep | | |

Why the bounds are enough for the interesting cases. Ring: three holds let one utterance be copied, one
wait and one be recorded at the same time; six samples with a look-back of two force trims between
them; slip 3 exceeds the look-back, so a truncated hold does occur and the refinement has a slack of 1.
Sidecar: four faults make a start fail twice, or a restart and the request after it fail; three calls
show a request after a failed restart. Pipeline: spacing needs two utterances and one command or
utterance between them, and two user actions move away and back. Desktop: a target that takes one tick
of the two that the injector sleeps reads before or after it is asked again, but never after the
restore; two keys of a binding and a chord key go down, repeat and up in six events, and after the
release that ends a hold two more remain for the paste to meet; two chords on one key with different
modifiers share it. Startup: three faults cut a download short, spoil what is fetched next and kill the
launch that installs, or edit a file and then fail twice. Cleanup: three stretches put a filler or
phrase at the start, between and at the end, next to each of the others. The mutants listed in
`PROJECT.json` show for every property that the bounds suffice to break it.

Deadlock is checked for none of `sidecar`, `pipeline*` and `desktop*`. The threads of the first two
really stop (`gone`, `fatal`, `stopped`) or wait for a user who owes nothing, and for a hung
process; in the last the user stops typing at the bound. It is checked in the ring runs, where the
callback can always push an empty chunk, in `startup`, where there is always a next launch, and in
`cleanup`.

### What the runs show

* `PendingBalanced`, `StableMapping`, `LossBounded`, `DeliveredExact`, `SpeechKept`: pending counts
  exactly the released utterances not yet given up; index mapping is never off; a waiting utterance
  loses at most what slipped past `begin_utterance`, never anything after it; a copy is a contiguous
  window ending at the release and contains all speech whenever the slip is within the look-back.
* `Implements`, `RingShrinks`: every completed hold is eventually handed over, once and in order;
  no history of holds and cancels makes the ring grow for good.
* `NoStrayProcess`, `CapsOfRunningProcess`, `AckedLearnSaved`, `ImplementsService`,
  `RequestReturns`: see the comments in `Sidecar`. `RequestReturns` names its two exceptions, a hung
  process (no read timeout) and the handshake that waits for an exit that does not come
  (`crates/nib-asr/src/lib.rs:149-154`: an undecodable line counts as EOF).
* `OnlyWhatMayBeTyped`: a transcript lands in a password field only if UI Automation was asked about
  another control or did not answer in time, and rewritten in a terminal or an editor only if that is
  not the executable the probe read. That is as much as the code keeps of what the documents say;
  run `pipeline_landing` shows the rest.
* `WavGone`: a whole recording is gone before the next message is taken, unless the system refused
  to remove it or the process was ended in the middle. In those two cases the file stays in the
  temporary directory, which `PRIVACY.md:11-13` does not mention; nothing in the code could help the
  second.
* `OrderKept`, `NoStraySpace`, `NoGluedWords`, `PublishedModeServable`, `QuitStops`: see the comments in
  `Pipeline`. `QuitStops` holds if the sidecar's calls return, which is what `RequestReturns` is about.
* `HoldNeedsKeys`, `LatchFollowsKey`, `FiresOnce`, `HoldMasksWin`, `NoStuckKey`: whatever is swallowed,
  repeated or sent by the injector, and whichever key-downs and key-ups never reach the hook, holds,
  latches and the system's keys follow the keys that are physically down. The exceptions are in the
  formulas: an event that the hook judges while the injector holds a Ctrl of its own, the latch of a
  chord whose key-up never reached the hook (its next press fires nothing), and a Win whose key-down
  never did (nothing masks it).
* `NeverStalePaste`: a target that reads within the delay before the restore never inserts anything
  older than the dictation it was told to paste, also when the next utterance is pasted meanwhile. It
  may insert what the user copied during the paste, or nothing if a clipboard call failed.
* `ClipboardGivenBack`: text the user had copied is back when the injector is done, unless the user
  copied something in between or a clipboard call failed. An image is not given back.
* `InstalledComplete`, `OfflineOnceInstalled`, `RetriesSucceed`: no launch, wherever it is cut off,
  leaves half a model that counts as installed, network use after an install, or a directory that a
  retry cannot get out of.
* `ChordMeaning`, `TypoDegradesOne`: every chord the hook reports means what the last sensible line
  says; a value that means nothing costs its own setting only, whichever it is. What it costs differs:
  the value of an earlier line stays, or the default is taken, or Polish for a mode; of the last, run
  `startup_mode` makes a finding.
* `NothingHangs`: a fatal error and a closing console end the process, with nobody at the keyboard
  (the time limit does it; without `FatalTimeout` the property is violated) and an utterance that never
  ends.
* `LearnRoundTrip`, `OnlyFillersGo`, `ClosedOnce`: a lesson means after a restart what it meant
  before, unless its text has the marks of the file format; the tidying drops bare fillers and
  phrases that punctuation sets off, and nothing else, also where dictionary, discourse pass and
  filler pass meet; what it types ends like a sentence, and it doubles no terminator if the tokens
  heard are ordinary ones.

### Findings

1. `ring_fixed`: the ring is not of fixed size (`PRIVACY.md:10`): it grows while a key is held or an
   utterance waits.
2. `pipeline_mode`: a restart inside `on_learn` can leave Email shown without an LLM; only
   `on_utterance` clamps again (`crates/nib-pipeline/src/lib.rs:297-298` against `377-381`).
3. `pipeline_elevated`: text dictated into an elevated window is reported as inserted; the branch
   that says "text kept" is never reached (`README.md:44-45`).
4. `pipeline_landing`: the target is probed before the transcription and nothing looks again, so a
   password field focused meanwhile is typed into (`README.md:40-41`, `crates/nib-win32/src/uia.rs:8`).
   A query that UI Automation does not answer in time has the same outcome, which the comment at
   `uia.rs:84-86` accepts.
5. `pipeline_landing`, the same trace: the mode is decided for the target probed, so a terminal or
   editor focused meanwhile gets rewritten text (`README.md:38-39`).
6. `desktop_paste`: the injector sends a bare V because the hook's flag says that Ctrl is held, but
   the hook has swallowed that Ctrl's key-down, so the application sees a V
   (`crates/nib-win32/src/inject.rs:35-42`, `hook.rs:216-219`). It takes Win pressed before Ctrl, and
   Ctrl still held when the paste is sent.
7. `startup_mode`: a mode in `settings.toml` that means nothing becomes Polish without a warning
   (`crates/nib-cleanup/src/lib.rs:111`), where `crates/nib-config/src/settings.rs:5` and the template
   (`:45`) promise the default, which is auto.

## 4. Fairness

* Ring (`FairSpec`): weak fairness of the callback's steps, because the device keeps calling and a
  callback that started runs to its end; of the steps inside `begin_utterance`, `end_utterance` and
  `take_raw` once started, because threads run; strong fairness of `TakeCopy`, because the lock it
  waits for is free after every chunk and the thread comes back for every queued utterance. No
  fairness for presses, releases and cancels.
* Sidecar: weak fairness of the client's thread and of a process that neither died nor hangs. None
  for requests, faults and shutdown.
* Pipeline (`FairSpec`): weak fairness of what the thread does on its own (`Work`). A call into the
  sidecar reads a line without a time limit (`crates/nib-asr/src/lib.rs:218`), so `CallReturns` has no
  fairness, and `QuitStops` has it as its premise. None for senders, the user and `ForcedExit`.
* Startup (`FairSpec`): weak fairness of the main thread, the engine, the console handler and the tray
  thread, because the system runs what can run; the main thread's includes the next launch, which
  stands for a user who keeps using the program. It includes `FatalTimeout`. None for the end of an
  utterance, for Quit, for the Enter that a fatal error waits for, for the console and for faults.
* Desktop and Cleanup have safety properties only.

## 5. Proofs

`CaptureRingProofs`, `SidecarProofs`, `PipelineProofs`, `DesktopProofs`, `StartupProofs`,
`CleanupProofs` and `TidyProofs` hold the theorems; each extends the module it is about, so that
what is proved is the specification the runs check. `FoldFacts` holds lemmas. All rest on the named
assumptions of those modules and on nothing else, with one exception named below (`HoldsMaskWin`). The
bounds of the runs are constants too: a theorem holds for every value of them. `TypeInvariant` is
`Spec => []TypeOK` in every module whose run checks a `TypeOK`.

### FoldFacts: what a loop computes, for every input

The readers of files and the clean-up are folds over sequences of any length, and what they compute
needs induction. The library's induction theorems take an operator as a parameter, which the installed
provers cannot instantiate, so the induction principle is proved here in a form they can use: with a
set for the property. `Minimal` (every nonempty set of subsets of a finite set has a minimal one) comes
from the well-founded order of the library; `UpTo` is induction on `0..n` and `BuiltUp` on sequences by
`Append`. `FoldLeft` is, in the community modules, a choice of a table over all sets of indices;
`Table` shows that such a table exists and `TableTrace` that on the initial intervals it is the
sequence of the values the loop runs through. For each fold of the model there is a pair of lemmas on
that pattern: its trace, and its value on `<<>>` and on `Append(s, e)` (`KeepSnoc`, `HotkeysSnoc`,
`SettingsSnoc`, `SplitSnoc`, `MishearSnoc`, `LoadSnoc`, `WordsSnoc`, `JoinSnoc`). The module also has
what the proofs need about filtered and joined sequences: what `KeepIn` keeps depends only on which
elements are in its set (`KeepLocal`), and a loop that appends is not disturbed by what is in front
(`AppendJoin`).

### CaptureRingProofs

For every look-back, chunk set and bound that are natural numbers:

* `TypeInvariant`, `PendingNeverLeaks`, `MappingStable`, `LossIsBounded`, `DeliveryIsExact`,
  `SpeechIsKept`: the safety invariants of run `ring`.
* `CaptureImplements`: `Spec => PTT!Spec`: every step of the code is a step of `PushToTalk` or a
  stutter, with a slack of `MaxSlip` less the look-back.

`StableMapping`, `LossBounded` and `DeliveredExact` are not inductive: whether a trim
may cut depends on what the callback has already loaded. `ThreadsAgree` is the strengthening: it says
what each thread's position implies about the flags (`recording` is set exactly while the forwarder
is between its store and its clear), and above all that a callback which loaded `recording = FALSE`
before the store still owns the lock, so that no sample has been pushed since the start was frozen.
`IInv == Counted /\ StableMapping /\ ThreadsAgree /\ LossBounded /\ DeliveredExact`
is proved inductive with one lemma per action; `SpeechKept` follows from it without induction. The
refinement uses the same invariant: `EndFreeze` maps to `Release`, `Cancel` to `Abandon`,
`BeginLoad` to `Press`, `CbPush` to `Hear` (of an empty chunk: a stutter), `TakeCopy` to `HandOver`.

### SidecarProofs

For every number of calls and faults:

* `TypeInvariant`, `NoProcessStrays`, `CapsAreCurrent`, `AckedIsSaved`: the invariants of run `sidecar`.
* `ClientImplements`: `Spec => ImplementsService`: a call returns its own whole reply or nothing.

What the client reads is decided long before it reads it, so none of this is inductive. `Processes`
says that the only process that can be alive is the one spawned last, and none is while the client is
about to spawn. `Conversation` says what can be in the two pipes at each point: before READY nothing
but noise (`Greeting`); between calls nothing at all (`Quiet`); during a call exactly one of the
request, its reply, a garbled line, or the rest of a line whose writer died (`Asked`). That a reply is
never left over for the next request is what makes the replay after a restart safe. `Appends` counts
the lines in the dictionary file: a try appends at most once, there are at most two tries, and an
answer stands for at least one. In the refinement `Request` maps to `Call`; `ReadReply`, `GiveUp` and a
restart that fails map to `Return`; `HandshakeReady` maps to `Start` or `Restart`, which is where
`has_llm` changes; all else is a stutter.

### PipelineProofs

For every set of applications, controls, literal targets and elevated windows:

* `TypeInvariant`, `RecordingsAreRemoved`, `PublishedIsServable`, `OnlyTranscripts`, `OrderIsKept`,
  `SpacesAreNotStray`, `WordsAreNotGlued`: all safety properties of run `pipeline`.

Each says exactly what its invariant says, exceptions included: `RecordingsAreRemoved` names the removal
that the system refuses and the process that is ended, `OnlyTranscripts` the control that was not
asked about or gave no answer.

`Asked` carries what the utterance found out earlier to the point where text is typed (a literal
target is asked for verbatim text, a password field has the chain that refuses). `Ordered` bounds the
log by the utterance in work. The spacing properties need `Placed`: as long as the witness still
reads what it read at the last insertion and nothing invisible happened, the focused control is the
one probed and the spacing memory is true of it; and from the decision to the keystrokes, what the
space was decided on still holds. The witness only grows, which is what makes an equal reading mean
that nothing was typed.

### DesktopProofs

For every keyboard, binding, list of chords and set of route chains:

* `TypeInvariant`; `LatchesFollowKeys`, `ChordsFireOnce`, `HoldsNeedTheirKeys`, `NoKeyIsStuck`,
  `HoldsMaskWin`: the hook.
* `PastesAreFresh`, `ClipboardComesBack`: the injector.

`HoldsMaskWin` assumes that Win is in the binding, as it is in the default: with another binding a Win
pressed during a hold is passed on like any key, and its release opens the Start menu. `NothingStuck`
says that a key the system takes to be down is held, or has its key-up in what the injector has still
to send; it is inductive because every key-down in a script is followed by its key-up (`Balanced`) and
because no key-up is ever swallowed. `Masked` ties a Win that could open the Start menu to
`WIN_LEAKED`. `Fed` says that what a target would get if it read now, and what it has got, is the
dictation it was told of or something newer. No guard keeps the restore from coming too early; what
does is time: during the sleep every paste that is due is at least as old as the sleep is long
(`Aged`), so when `Settle` ticks are over and no paste is due for more than `Lag`, none is due at all.
`Kept` has the user's text on the clipboard or in the injector's hands. `Queued` types the channel,
which `ChordsFireOnce` counts by.

### StartupProofs

For every archive size, set of files with a sentinel, number of faults, attempts and polls, and every
content of the settings:

* `TypeInvariant`.
* `WhatLooksInstalledIs`, `InstalledStaysOffline`: a model that is taken for installed is complete,
  and no launch after it goes to the network.
* `ChordsMeanWhatTheFileSays`, `TyposDegradeOne`: for files of every length and content.

`InstalledComplete` alone says nothing of a directory without its sentinel. `Installed` adds that the
directory is empty or whole, because only the rename fills it, and that `ensure_model` fetches only
where it has just found none.

The two properties of the files are induction over their lines. `SlotsFollow(s)` says that after the
lines `s` each slot of the table holds the binding of the last line that sets it, or the default;
`HoldBound(s)`, that the push-to-talk slot is never empty, which is what makes the `CHOOSE` in
`StartHook` a choice of the one binding there is. `HookIs` unrolls the list of chords over the three
slots, so that the i-th action is the action of the i-th binding. `OffByTypos` relates the settings of
the whole file to those of the file without its senseless lines: they agree but in the fields that are
looked up after reading and that a senseless line names (mode, style, sidecar), whatever order the
lines have; a switch and the number keep what an earlier line said.

### CleanupProofs

For every vocabulary, set of lessons and dictionary file made of pieces:

* `LessonsSurvive`: `Spec => []LearnRoundTrip`.

The invariant says beside the property that the file consists of texts and that the dictionary is one.
The step is `ReadBack`: the line that `learn` appends has its two sides trimmed and an arrow between
spaces, so reading it trims nothing (`TrimAgain`), finds that arrow first because the term has none
(`FirstArrowIs`), gets the two sides back (`SidesOfLine`), and splits no comma off (`SplitWhole`); as
loading is a fold, the entries before it stay as they are (`LoadSnoc`).

### TidyProofs

For every vocabulary of texts, dictionary and lesson, and utterances of every length:

* `OnlyFillersAreDropped`: `Spec => []OnlyFillersGo`.
* `SentencesCloseOnce`: `Spec => []ClosedOnce`.

The state is simple here and the algorithm is not. The invariant, `DictionaryInv /\ SpeechInv`, says
that the dictionary is one, what was spoken is text, and that what was typed is the `Reply` to it; each
property then is a statement about `AutoTidy` and `PolishTidy` for every text. The first needs a set
`kept` of the tokens heard, and the words of the answer.

* `JoinedTokens`: joining tokens with spaces and splitting the text again gives the tokens back, so
  that each pass of `polish_tidy` works on the tokens the pass before it left.
* `auto_tidy` keeps what is not `Dropped`. `UnfilledSaid` shows that the tokens it puts out have the
  words of the kept ones: the mark it hands back has none, and capitals do not change a word
  (`AutoSaid`). `DroppedBare` is that each dropped token is a bare filler.
* `strip_discourse` is a loop that jumps. Its trace is described by where it stands and what it has
  kept (`Skips`, `Stays`, `Goes`); `Kinds` says that a step keeps the token, or leaves the output
  alone, or drops a whole phrase, and `Pausing` that the loop's comma flag is a comma on the last
  token kept or on one dropped since, which is what `Scaffolding` calls set off. `PolishKept` composes
  it with the `auto_tidy` that follows: a filler which is dropped there has the neighbours it had in
  the whole utterance, or they went before it (`NoNumberBeside`, `PolishBare`).

The proof changed the property. `OnlyFillersGo` used to say that a capital filler goes only before a
word in small letters or a mark; in `Um And stuff.` the discourse pass drops `Um` although `And` has a
capital, because `and stuff` goes as well. `BareFiller` names that case now, and the vocabulary of run
`cleanup` has it.

The second is about marks instead of words, so nothing of the first carries over but the traces.

* `Stop` says that a text ends in a terminator, a colon or a semicolon with only closing quotes and
  brackets behind it. `CloseSentence` makes that true of every text but one of closers alone
  (`CloseStops`), and splitting the text and joining it again does not undo it (`TokensStop`,
  `JoinStop`).
* `Joint(t, D)` says what stands behind a terminator in `t`: no pause, and another terminator only if
  the pair is in `D`. Each pass keeps it for the `D` of the utterance: splitting and joining
  (`TokensJoint`, `JoinJoint`), the marks a dropped phrase or filler hands over (`StripFine`,
  `UnfilledJoint`), capitals (`CapitalsMarks`) and the closing itself (`CloseJoint`).

This proof too changed its property: `ClosedOnce` used to claim the second half for every text, and
that is false. The filler in `cat um?,!` hands over `?` and `!` without the comma between them, and
one like `um."!` its marks without the quote; a text that ends in `.,` gets a full stop for its comma,
behind the one it has. Such tokens are not how a transcript looks. `Ordinary` excludes them: no pause
directly behind a terminator, and in a filler nothing but terminators behind the first one.

### Only model-checked

Liveness, which is outside the reach of the prover: `Implements` with its fairness, `RingShrinks`,
`RequestReturns`, `QuitStops`, `RetriesSucceed`, `NothingHangs`.

## 6. Plan

Done: the capture ring, the sidecar, the pipeline, the keyboard hook with the clipboard, first-run
acquisition and start-up, the dictionary and the tidying; proofs of all their safety properties and
of both refinements. Left:

1. Two instances of the program on one models directory.
2. The overlay's frame loop, which polls `listening` every 16 or 60 ms, against the forwarder.

Violation runs are kept for claims the repository itself makes.

## 7. Not modelled

* Rendering, spectra and fonts of the overlay (floating point, no protocol). Its frame loop only
  reads what other threads write.
* Resampling and WAV encoding (signal processing); what speech is recognised; the optional language
  model and the Python engine.
* The priming thread of the probe (it only makes later queries faster) and reading text back from a
  control (bench only).
* Drawing of tray icon and menu, the lookup of directories, the ownership of the console.
* The splitting of configuration lines: quotes, comments and case. A trailing comment is a comment in
  `settings.toml` and part of the value in `hotkeys.toml`.
* Two instances at once: nothing in the code keeps a second one out. A partial download they share
  fails its hash. Worse, the second removes the staging directory before it unpacks
  (`crates/nib-models/src/lib.rs:108`); when the first is unpacking or about to rename, it may put an
  incomplete directory in place, with or without the sentinel.
* Power failures: `Killed` ends the process, and what it wrote stays. The code syncs nothing.
* `process::exit` with an engine that hangs: `NoStrayProcess` is about restarts and `Drop`; a fatal
  error or the console handler leave without `Drop`, and the engine then ends by reading the end of
  its input, if it still reads.
* Commas before a dropped filler: `cat, um.` becomes `Cat,.` (`tidy.rs:101` closes a dangling comma,
  but not behind the handed-over full stop). `ClosedOnce` is about terminators.
* The injection matrix (a measuring harness), the stub crates (`nib-proto`, `nib-diag`, `nib-hw`,
  `nib-license`, `nib-llm`, `nib-vad`, `nib-hookd`, `nib-probe`) and the build tooling.
