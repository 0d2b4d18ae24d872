---------------------------- MODULE JournalStore ----------------------------
(* JournalStore: the entries in memory, the file they are saved in after      *)
(* every change, and its two siblings, which recovery may read instead.  One  *)
(* mutex covers every operation, so a save is a sequence of steps in which    *)
(* only a failing call or the end of the process can come between.            *)
EXTENDS StoreFiles, Integers, FiniteSets, FiniteSetsExt

CONSTANTS
  MaxId,           \* bound: the ids that are handed out
  Notes,           \* those of manual notes; the others are activities
  MaxRecords,      \* what a file may hold
  Limits,          \* the values of max_entries the user chooses from
  MaxGeneration,   \* bound on the saves
  MaxJournalFaults \* bound: faults between two saves that succeed, and make up for them

(* What a file that reads says.                                               *)
JournalImages == [gen : Nat, entries : SUBSET Nat, next : Nat \ {0}, sealed : BOOLEAN]

ASSUME JournalAssumption ==
  /\ Missing \notin JournalImages /\ Torn \notin JournalImages /\ Missing # Torn
  /\ MaxId \in Nat
  /\ Notes \subseteq 1..MaxId /\ Limits \subseteq Nat \ {0} /\ MaxRecords \in Nat
  /\ MaxGeneration \in Nat /\ MaxJournalFaults \in Nat

VARIABLES
  held,      \* the fields of JournalStore
  onDisk,    \* journal.bin, its ".tmp" and its ".bak"
  saving,    \* the step of the operation that runs
  settings,  \* what the settings file says of the journal
  promised   \* ghost: what the saves that returned to their caller promise

journalVars == <<held, onDisk, saving, settings, promised>>

Ids == 1..MaxId
Idle == [step |-> "idle"]
Down == [step |-> "down"]

Blank == [entries |-> {}, next |-> 1, gen |-> 0, bad |-> {}, limit |-> MaxRecords,
          protect |-> FALSE, atRest |-> FALSE, skip |-> FALSE]

JournalInit ==
  /\ settings = [protect |-> FALSE, limit |-> MaxRecords]
  /\ held = Blank
  /\ onDisk = [path |-> Missing, temp |-> Missing, bak |-> Missing]
  /\ saving = Idle
  /\ promised = [kept |-> {}, gone |-> {}, saved |-> FALSE, faults |-> 0, plain |-> FALSE]

JournalAt(step) == saving.step = step
JournalFault == promised.faults < MaxJournalFaults
Faulty == [promised EXCEPT !.faults = @ + 1]

(* scan_candidates and the order load() prefers them in.                      *)
Names == {"path", "temp", "bak"}
Valid(d) == {f \in Names : Readable(d[f])}
AnyPresent(d) == \E f \in Names : Present(d[f])
Priority(f) == CASE f = "path" -> 3 [] f = "temp" -> 2 [] OTHER -> 1
Better(f, g) ==
  LET Wanted(h) == onDisk[h].sealed = settings.protect
  IN \/ onDisk[f].gen > onDisk[g].gen
     \/ /\ onDisk[f].gen = onDisk[g].gen
        /\ \/ Wanted(f) /\ ~Wanted(g)
           \/ Wanted(f) = Wanted(g) /\ Priority(f) >= Priority(g)
Best == CHOOSE f \in Valid(onDisk) : \A g \in Valid(onDisk) : Better(f, g)

(* enforce_limit_locked: the oldest entries go.                               *)
Newest(S, n) == {i \in S : Cardinality({k \in S : k >= i}) <= n}
Enforced(j) == [j EXCEPT !.entries = Newest(@, j.limit)]

(* serialize_file, serialize_payload: refuses too many entries, and a text or *)
(* a source it cannot encode.                                                 *)
Storable(j) == Cardinality(j.entries) <= MaxRecords /\ j.entries \cap j.bad = {}

(* The first save of a process looks for the generation on disk.                *)
Numbered(j) ==
  IF j.gen # 0 THEN j
  ELSE [j EXCEPT !.gen = Max({0} \union {onDisk[f].gen : f \in Valid(onDisk)})]
ScanRefuses(j) == j.gen = 0 /\ AnyPresent(onDisk) /\ Valid(onDisk) = {}
Image(j) == [gen |-> j.gen + 1, entries |-> j.entries, next |-> j.next, sealed |-> j.protect]

(* An exception ends the operation, and the start of the process when it is   *)
(* the load that throws.                                                      *)
JournalThrown(back, next) ==
  IF next = "loaded" THEN saving' = Down /\ held' = Blank
  ELSE saving' = Idle /\ held' = back

(* save_locked(): j is what is written, back what stays in memory when that   *)
(* fails, next what the caller does after it.                                 *)
Save(j, back, next) ==
  /\ promised' = [promised EXCEPT !.kept = @ \cap j.entries]
  /\ \/ /\ Storable(j) /\ ~ScanRefuses(j) /\ Numbered(j).gen < MaxGeneration
        /\ saving' = [step |-> "write", new |-> Numbered(j), back |-> Numbered(back),
                      next |-> next]
        /\ UNCHANGED held
     \/ /\ ~Storable(j) \/ ScanRefuses(j)
        /\ JournalThrown(Numbered(back), next)

-----------------------------------------------------------------------------
(* The operations.  Memory changes before the save, and stays so when it      *)
(* fails.                                                                     *)
Change(j) == Save(j, j, "idle") /\ UNCHANGED <<onDisk, settings>>

AddEntry(bad) ==
  /\ JournalAt("idle") /\ held.next \in Ids
  /\ Change(Enforced([held EXCEPT !.entries = @ \union {held.next}, !.next = @ + 1,
                                     !.bad = @ \union (IF bad THEN {held.next} ELSE {})]))

EraseAll(S) ==
  /\ JournalAt("idle") /\ S # {}
  /\ Change([held EXCEPT !.entries = @ \ S])
Erase(i) == EraseAll({i} \cap held.entries)
ClearNotes == EraseAll(held.entries \cap Notes)
PruneBefore(i, kind) == EraseAll({k \in held.entries \cap kind : k < i})

SetMaxEntries(n) ==
  /\ JournalAt("idle") /\ n # held.limit
  /\ LET j == Enforced([held EXCEPT !.limit = n])
     IN \/ j.entries # held.entries /\ Save(j, j, "settings")
        \/ /\ j.entries = held.entries
           /\ held' = j /\ saving' = [step |-> "settings"] /\ UNCHANGED promised
  /\ UNCHANGED <<onDisk, settings>>

(* All of the import or none of it: memory is replaced once it is on disk.      *)
ImportEntries(n, bad) ==
  /\ JournalAt("idle") /\ held.next + n - 1 \in Ids
  /\ LET new == held.next..(held.next + n - 1)
         j == Enforced([held EXCEPT !.entries = @ \union new, !.next = @ + n,
                                       !.bad = @ \union (IF bad THEN new ELSE {})])
     IN Save(j, held, "idle")
  /\ UNCHANGED <<onDisk, settings>>

SetProtection(on) ==
  /\ JournalAt("idle") /\ (on # held.protect \/ on # held.atRest)
  /\ Save([held EXCEPT !.protect = on], held, "settings")
  /\ UNCHANGED <<onDisk, settings>>

-----------------------------------------------------------------------------
(* write_atomic.                                                              *)
Go(step) == saving' = [saving EXCEPT !.step = step]

WriteJournalTemp ==
  /\ JournalAt("write")
  /\ onDisk' = [onDisk EXCEPT !.temp = Image(saving.new)]
  /\ Go(IF ~Present(onDisk.path) THEN "publish"
        ELSE IF saving.new.skip THEN "discard" ELSE "drop")
  /\ UNCHANGED <<held, settings, promised>>

DropBackup ==
  /\ JournalAt("drop")
  /\ onDisk' = [onDisk EXCEPT !.bak = Missing] /\ Go("rotate")
  /\ UNCHANGED <<held, settings, promised>>

Rotate ==
  /\ JournalAt("rotate")
  /\ onDisk' = [onDisk EXCEPT !.bak = onDisk.path, !.path = Missing] /\ Go("publish")
  /\ UNCHANGED <<held, settings, promised>>

(* After a recovery the primary is not worth a backup.                        *)
DiscardPrimary ==
  /\ JournalAt("discard")
  /\ onDisk' = [onDisk EXCEPT !.path = Missing] /\ Go("publish")
  /\ UNCHANGED <<held, settings, promised>>

(* The rest of save_locked, but for the siblings in plaintext.                *)
SavedMut(j) == [j EXCEPT !.gen = @ + 1, !.atRest = j.protect]
Saved(j) == [j EXCEPT !.gen = @ + 1, !.skip = FALSE, !.atRest = j.protect]

After(next) == saving' = [step |-> IF next = "loaded" THEN "idle" ELSE next]
(* Ghost: what a save promises, and whether it makes up for the faults before *)
(* it.  It does not when the settings on file say otherwise of the protection *)
(* than the journal, because their own save failed: the next load takes the   *)
(* protection from them.                                                      *)
SettingsAgree(j) == saving.next = "settings" \/ settings.protect = j.protect
Promise(j) ==
  [kept |-> j.entries, gone |-> promised.gone \union (1..(j.next - 1) \ j.entries),
   saved |-> TRUE, faults |-> IF SettingsAgree(j) THEN 0 ELSE promised.faults,
   plain |-> promised.plain]

PublishJournal ==
  /\ JournalAt("publish")
  /\ onDisk' = [onDisk EXCEPT !.path = onDisk.temp, !.temp = Missing]
  /\ held' = Saved(saving.new)
  /\ promised' = Promise(held')
  /\ IF held'.protect THEN Go("tidy") ELSE After(saving.next)
  /\ UNCHANGED settings

(* remove_plaintext_alternates; a sibling that cannot be removed is left.     *)
Plain(f) == Readable(f) /\ ~f.sealed
TidyMut(d) == [d EXCEPT !.temp = IF Plain(@) THEN Missing ELSE @]
Tidy(d) == [d EXCEPT !.temp = IF Plain(@) THEN Missing ELSE @,
                     !.bak = IF Plain(@) THEN Missing ELSE @]
RemovePlaintextAlternates ==
  /\ JournalAt("tidy")
  /\ \/ onDisk' = Tidy(onDisk) /\ promised' = [promised EXCEPT !.plain = FALSE]
     \/ /\ JournalFault /\ Tidy(onDisk) # onDisk
        /\ promised' = [Faulty EXCEPT !.plain = TRUE] /\ UNCHANGED onDisk
  /\ After(saving.next)
  /\ UNCHANGED <<held, settings>>

(* The commands that set a journal option save the settings last.             *)
SaveSettings ==
  /\ JournalAt("settings")
  /\ \/ /\ settings' = [protect |-> held.protect, limit |-> held.limit]
        /\ UNCHANGED promised
     \/ JournalFault /\ promised' = Faulty /\ UNCHANGED settings
  /\ saving' = Idle
  /\ UNCHANGED <<held, onDisk>>

-----------------------------------------------------------------------------
(* What a write that was cut short, or not begun, leaves.                     *)
LeftInTemp ==
  {onDisk.temp} \union (IF JournalAt("write") THEN {Torn, Image(saving.new)} ELSE {})

(* A call fails; the exception leaves the files as they are.                  *)
JournalSaveFails ==
  /\ saving.step \in {"write", "rotate", "discard", "publish"} /\ JournalFault
  /\ \E f \in LeftInTemp :
       /\ onDisk' = [onDisk EXCEPT !.temp = f]
       /\ promised' = [Faulty EXCEPT !.plain = @ \/ (saving.back.protect /\ Plain(f))]
  /\ JournalThrown(saving.back, saving.next)
  /\ UNCHANGED settings

Kill ==
  /\ ~JournalAt("down") /\ JournalFault
  /\ \E f \in LeftInTemp :
       onDisk' = [onDisk EXCEPT !.temp = f]
  /\ saving' = Down /\ held' = Blank /\ promised' = Faulty
  /\ UNCHANGED settings

Quit ==
  /\ JournalAt("idle") /\ saving' = Down /\ held' = Blank
  /\ UNCHANGED <<onDisk, settings, promised>>

(* load(), in the constructor of App; an exception ends the start.            *)
Restored(b) ==
  [entries |-> b.entries, next |-> b.next, gen |-> b.gen, bad |-> {},
   limit |-> Min({settings.limit, MaxRecords}), protect |-> settings.protect,
   atRest |-> b.sealed, skip |-> FALSE]

LoadEmpty ==
  /\ JournalAt("down") /\ ~AnyPresent(onDisk)
  /\ held' = Restored([entries |-> {}, next |-> 1, gen |-> 0, sealed |-> settings.protect])
  /\ saving' = Idle
  /\ UNCHANGED <<onDisk, settings, promised>>

Load ==
  /\ JournalAt("down") /\ Valid(onDisk) # {}
  /\ LET j == Enforced([Restored(onDisk[Best]) EXCEPT !.skip = Best # "path"])
     IN IF j.atRest # j.protect
        THEN Save(j, j, "loaded")
        ELSE /\ held' = j
             /\ promised' = [promised EXCEPT !.kept = @ \cap j.entries]
             /\ saving' = IF j.protect THEN [step |-> "tidy", next |-> "idle"] ELSE Idle
  /\ UNCHANGED <<onDisk, settings>>

JournalNext ==
  \/ \E b \in BOOLEAN : AddEntry(b) \/ SetProtection(b) \/ \E n \in 1..2 : ImportEntries(n, b)
  \/ \E i \in Ids : Erase(i) \/ PruneBefore(i, Notes) \/ PruneBefore(i, Ids \ Notes)
  \/ ClearNotes \/ \E n \in Limits : SetMaxEntries(n)
  \/ WriteJournalTemp \/ DropBackup \/ Rotate \/ DiscardPrimary \/ PublishJournal
  \/ RemovePlaintextAlternates \/ SaveSettings
  \/ JournalSaveFails \/ Kill \/ Quit \/ LoadEmpty \/ Load

JournalSpec == JournalInit /\ [][JournalNext]_journalVars

-----------------------------------------------------------------------------
(* What a save that returned wrote can be read back by the next process, and  *)
(* what it removed stays removed, with up to MaxJournalFaults failing calls   *)
(* and kills, of that process or of the ones after it, since the last save    *)
(* that made up for those before (SettingsAgree): some candidate is valid,    *)
(* and the best one is no older.                                              *)
Keeps(S) == promised.kept \subseteq S /\ promised.gone \cap S = {}
JournalKept ==
  /\ JournalAt("down") /\ promised.saved => Valid(onDisk) # {} /\ Keeps(onDisk[Best].entries)
  /\ JournalAt("idle") => Keeps(held.entries)

(* With protection on and in effect, no file holds the entries in plaintext   *)
(* once an operation is over, unless a sibling could not be removed, the      *)
(* attempt to switch protection off failed, or the last start recovered from  *)
(* a sibling: load() does not look at the primary it passed over, and in      *)
(* plaintext that stays until the next save.                                  *)
NoPlaintextLeft ==
  JournalAt("idle") /\ held.protect /\ held.atRest /\ ~promised.plain /\ ~held.skip
    => \A f \in Names : ~Plain(onDisk[f])
=============================================================================
