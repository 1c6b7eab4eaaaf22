------------------------------ MODULE ScoreBook -------------------------------
(***************************************************************************)
(* What a miner's work earns it on the chain: the ScoreBook and            *)
(* submit_weights (validator/weights.py), driven by the validator's loop   *)
(* (neurons/validator.py), while miners register on the chain, the file    *)
(* system loses writes and the validator crashes.                          *)
(*                                                                         *)
(* Scores are whole numbers up to Top, and an effective score is counted in*)
(* units that make every step of the moving average exact.                 *)
(***************************************************************************)
EXTENDS Integers, Sequences, FiniteSets, SequencesExt

CONSTANTS
    Hotkeys,
    Uids,
    Window,     \* BITSWARM_SCORE_WINDOW
    Top,        \* the score 1.0
    Num, Den,   \* BITSWARM_EMA_ALPHA = Num / Den
    Tempo,      \* tempo_seconds, in ticks
    Corrupt,    \* a scorebook.json that is no JSON, or whose values are no lists of numbers
    NoObject,   \* one that is valid JSON but no object, as [] or null
    FirstFiles, \* what scorebook.json may hold when the validator first starts
    FirstOwner, \* the hotkeys registered then
    Outcomes,   \* what a task may be worth to a miner, before it is clamped
    MaxCrashes, MaxLost, MaxMoves   \* bounds on crashes, failing writes, registrations

ASSUME WindowAssumption == Window \in Nat \ {0}
ASSUME AlphaAssumption == Num \in 1 .. Den /\ Den \in Nat /\ Top \in Nat
ASSUME ChainAssumption ==
    /\ FirstOwner \in [Uids -> Hotkeys]
    /\ Outcomes \subseteq Int /\ Tempo \in Nat
ASSUME FilesAssumption ==
    /\ FirstFiles \subseteq {Corrupt, NoObject} \cup [Hotkeys -> Seq(0 .. Top)]
    /\ {Corrupt, NoObject} \cap [Hotkeys -> Seq(0 .. Top)] = {}
    /\ Corrupt # NoObject

VARIABLES
    owner,      \* the chain: the hotkey registered at a uid
    metagraph,  \* the validator's copy of it
    pc,
    due,        \* the scores of a finished task still to be recorded
    book,       \* the recorded scores of each hotkey, oldest first
    file,       \* scorebook.json
    unsaved,    \* records since the last write that succeeded
    age,        \* ticks since last_weights_at, no more than Tempo
    vector,     \* the weights being submitted, as a function of the uid
    crashes, lost, moves

chainVars == <<owner, moves>>
bookVars == <<book, file, unsaved, lost>>
weightVars == <<age, vector>>
vars == <<chainVars, metagraph, pc, due, bookVars, weightVars, crashes>>

Empty == [h \in Hotkeys |-> <<>>]
NoVector == [u \in {} |-> 0]
NothingDue == [h \in {} |-> 0]

\* history[-window:]
Newest(history, n) == SubSeq(history, IF Len(history) > n THEN Len(history) - n + 1 ELSE 1,
                           Len(history))

\* raw.items() of a value that is no object is an AttributeError, which is not caught: the
\* process ends where it starts.
Starts(f) == f # NoObject

\* Any other file that does not load is as good as none.
Load(f) == IF f = Corrupt THEN Empty ELSE [h \in Hotkeys |-> Newest(f[h], Window)]

\* Mutation: alpha does not enter the average.
BlendLatest(ema, score) == score

Blend(ema, score) == (Num * score + (Den - Num) * ema) \div Den

Unit == Den ^ Window

\* Oldest to newest.
Ema(history) ==
    LET ema[n \in 1 .. Len(history)] ==
            IF n = 1 THEN history[1] * Unit ELSE Blend(ema[n - 1], history[n] * Unit)
    IN  ema[Len(history)]
Effective(b, h) == IF b[h] = <<>> THEN 0 ELSE Ema(b[h])

\* Mutation: as long as one miner has no score, nobody gets a weight.
WeightVectorOfAll(b, keys) ==
    IF \E u \in Uids : Effective(b, keys[u]) = 0 THEN NoVector
    ELSE [u \in Uids |-> Effective(b, keys[u])]

\* Before they are normalised.
WeightVector(b, keys) ==
    [u \in {v \in Uids : Effective(b, keys[v]) > 0} |-> Effective(b, keys[u])]

Init ==
    /\ owner = FirstOwner
    /\ metagraph = owner
    /\ file \in FirstFiles
    /\ IF Starts(file) THEN pc = "sync" /\ book = Load(file) ELSE pc = "down" /\ book = Empty
    /\ due = NothingDue
    /\ unsaved = 0
    /\ age = Tempo /\ vector = NoVector
    /\ crashes = 0 /\ lost = 0 /\ moves = 0

\* A sync that fails leaves the copy as it is.
Sync ==
    /\ pc = "sync"
    /\ metagraph' \in {owner, metagraph}
    /\ pc' = "task"
    /\ UNCHANGED <<chainVars, due, bookVars, weightVars, crashes>>

\* A miner is paid for all its subtasks of the task at once; no task, a failed one and one
\* nobody scored in are the same here.
RunTask ==
    /\ pc = "task"
    /\ \E keys \in SUBSET {metagraph[u] : u \in Uids} : due' \in [keys -> Outcomes]
    /\ pc' = "record"
    /\ UNCHANGED <<chainVars, metagraph, bookVars, weightVars, crashes>>

Clamp(score) == IF score < 0 THEN 0 ELSE IF score > Top THEN Top ELSE score

Record ==
    /\ pc = "record"
    /\ \E h \in DOMAIN due :
          /\ book' = [book EXCEPT ![h] = Newest(Append(@, Clamp(due[h])), Window)]
          /\ due' = [k \in DOMAIN due \ {h} |-> due[k]]
    /\ unsaved' = unsaved + 1
    /\ pc' = "dump"
    /\ UNCHANGED <<chainVars, metagraph, file, lost, weightVars, crashes>>

\* Mutation: the book is written over the old file.
DumpInPlace ==
    /\ pc = "dump"
    /\ file' = Corrupt
    /\ pc' = "replace"
    /\ UNCHANGED <<chainVars, metagraph, due, book, unsaved, lost, weightVars, crashes>>

\* json.dump to the temporary file, which nobody reads.
Dump ==
    /\ pc = "dump"
    /\ pc' = "replace"
    /\ UNCHANGED <<chainVars, metagraph, due, bookVars, weightVars, crashes>>

Replace ==
    /\ pc = "replace"
    /\ file' = book
    /\ unsaved' = 0
    /\ pc' = "record"
    /\ UNCHANGED <<chainVars, metagraph, due, book, lost, weightVars, crashes>>

\* An OSError of the open, the dump or the rename is dropped.
PersistFails ==
    /\ pc \in {"dump", "replace"}
    /\ lost < MaxLost
    /\ lost' = lost + 1
    /\ pc' = "record"
    /\ UNCHANGED <<chainVars, metagraph, due, book, file, unsaved, weightVars, crashes>>

\* The weights are computed from the copy of the metagraph the loop has.
Weigh ==
    /\ pc = "record" /\ due = NothingDue
    /\ LET weights == WeightVector(book, metagraph)
       IN  IF age < Tempo \/ weights = NoVector
           THEN pc' = "sync" /\ UNCHANGED vector
           ELSE pc' = "submit" /\ vector' = weights
    /\ UNCHANGED <<chainVars, metagraph, due, bookVars, age, crashes>>

Accepted ==
    /\ pc = "submit"
    /\ age' = 0
    /\ vector' = NoVector
    /\ pc' = "sync"
    /\ UNCHANGED <<chainVars, metagraph, due, bookVars, crashes>>

\* set_weights returns False or raises: the next round of the loop tries again.
Rejected ==
    /\ pc = "submit"
    /\ vector' = NoVector
    /\ pc' = "sync"
    /\ UNCHANGED <<chainVars, metagraph, due, bookVars, age, crashes>>

Crash ==
    /\ pc # "down" /\ crashes < MaxCrashes
    /\ crashes' = crashes + 1
    /\ pc' = "down"
    /\ book' = Empty /\ due' = NothingDue /\ vector' = NoVector
    /\ UNCHANGED <<chainVars, metagraph, file, unsaved, lost, age>>

\* A new process: last_weights_at is 0.0 again.
Restart ==
    /\ pc = "down" /\ Starts(file)
    /\ book' = Load(file) /\ unsaved' = 0
    /\ metagraph' = owner
    /\ age' = Tempo
    /\ pc' = "sync"
    /\ UNCHANGED <<chainVars, due, file, lost, vector, crashes>>

Tick ==
    /\ age < Tempo
    /\ age' = age + 1
    /\ UNCHANGED <<chainVars, metagraph, pc, due, bookVars, vector, crashes>>

\* The chain gives a uid to another hotkey.
Register ==
    /\ moves < MaxMoves
    /\ \E u \in Uids, h \in Hotkeys :
          /\ \A v \in Uids : owner[v] # h
          /\ owner' = [owner EXCEPT ![u] = h]
    /\ moves' = moves + 1
    /\ UNCHANGED <<metagraph, pc, due, bookVars, weightVars, crashes>>

Next ==
    \/ Sync \/ RunTask \/ Record \/ Dump \/ Replace \/ PersistFails
    \/ Weigh \/ Accepted \/ Rejected \/ Crash \/ Restart \/ Tick \/ Register

Loop == Sync \/ RunTask \/ Record \/ Dump \/ Replace \/ Weigh \/ Accepted \/ Rejected \/ Restart

\* The loop runs on (every wait in it has a timeout), time passes, the service manager
\* restarts the validator, and a chain that is asked again and again answers yes.
Spec == Init /\ [][Next]_vars /\ WF_vars(Loop) /\ WF_vars(Tick) /\ SF_vars(Accepted)

-----------------------------------------------------------------------------
(* Properties                                                              *)

\* Type invariant.
TypeOK ==
    /\ owner \in [Uids -> Hotkeys] /\ metagraph \in [Uids -> Hotkeys]
    /\ pc \in {"sync", "task", "record", "dump", "replace", "submit", "down"}
    /\ DOMAIN due \subseteq Hotkeys
    /\ \A h \in Hotkeys : book[h] \in BoundedSeq(0 .. Top, Window)
    /\ DOMAIN vector \subseteq Uids
    /\ age \in 0 .. Tempo

\* Whenever the validator dies, the file lacks no score but those recorded since the last
\* write that succeeded: no write that fails or is cut short costs an older one.
SavedButTheLast ==
    pc # "down" =>
        \A h \in Hotkeys :
            LET saved == Load(file)[h]
            IN  \E n \in 0 .. unsaved :
                    /\ n <= Len(book[h])
                    /\ LET old == SubSeq(book[h], 1, Len(book[h]) - n)
                       IN  IsSuffix(old, saved) /\ (Len(old) = Len(saved) \/ Len(book[h]) = Window)

\* One task moves the effective score of a miner that has a history by no more than alpha,
\* and by what the score that drops out of the window still counted for.
Distance(a, b) == IF a < b THEN b - a ELSE a - b
DampedSwing ==
    [][\A h \in Hotkeys :
          book[h] # <<>> /\ pc' # "down" =>
              Distance(Effective(book, h), Effective(book, h)')
                  <= Top * (Num * Den ^ (Window - 1) + (Den - Num) ^ Window)]_vars

\* As long as one of its miners has earned something, a validator keeps submitting weights.
Earned == \E u \in Uids : Effective(book, metagraph[u]) > 0
WeightsKeepComing == <>[]Earned => []<>(age = 0)

==============================================================================
