---------------------------- MODULE ClipboardStore ----------------------------
(* ClipboardStore: the texts that were copied, newest first, within a number  *)
(* of entries and a number of bytes; pinned entries are not given up for new  *)
(* ones.  Every method holds the mutex.                                       *)
EXTENDS Integers, Sequences, FiniteSets, FiniteSetsExt

CONSTANTS
  Texts,                     \* the texts that are copied, trimmed and not empty
  Bytes,                     \* text_bytes() of each
  MaxEntries, MaxTextBytes,  \* max_entries_, max_text_bytes_
  MaxItemBytes,              \* max_item_text_bytes_
  MaxCaptures                \* bound on next_id_

ASSUME ClipboardAssumption ==
  /\ Bytes \in [Texts -> Nat \ {0}] /\ MaxCaptures \in Nat
  /\ MaxEntries \in Nat \ {0} /\ MaxTextBytes \in Nat /\ MaxItemBytes \in Nat

VARIABLES
  clips,      \* entries_, newest first
  textBytes,  \* text_bytes_
  nextClip,   \* next_id_
  pins        \* ghost: the entries that were pinned, and not since unpinned or erased

clipboardVars == <<clips, textBytes, nextClip, pins>>

ClipboardInit == clips = <<>> /\ textBytes = 0 /\ nextClip = 1 /\ pins = {}

ClipIds(s) == {s[i].id : i \in DOMAIN s}

(* The entries with one of these numbers, in their order.                     *)
Among(s, ids) ==
  LET kept[n \in 0..Len(s)] ==
        IF n = 0 THEN <<>>
        ELSE IF s[n].id \in ids THEN Append(kept[n - 1], s[n]) ELSE kept[n - 1]
  IN kept[Len(s)]

(* The others.                                                                *)
Removed(s, ids) == Among(s, ClipIds(s) \ ids)

SizeOf(s) ==
  LET size[n \in 0..Len(s)] == IF n = 0 THEN 0 ELSE size[n - 1] + Bytes[s[n].text]
  IN size[Len(s)]

(* enforce_limits_locked: while a limit is exceeded, the oldest entry that is *)
(* not pinned goes.                                                           *)
RemovableMut(clip) == TRUE
Removable(clip) == ~clip.pinned
Loose(s) == {i \in DOMAIN s : Removable(s[i])}
Oldest(s, n) == {s[i].id : i \in {k \in Loose(s) : Cardinality({l \in Loose(s) : l >= k}) <= n}}
OverLimits(s, bytes) == Len(s) > MaxEntries \/ bytes > MaxTextBytes

(* What is left of s, of so many bytes, after that.                           *)
Enforce(s, bytes) ==
  LET left(n) == Removed(s, Oldest(s, n))
      size(n) == bytes - SizeOf(Among(s, Oldest(s, n)))
      enough(n) == ~OverLimits(left(n), size(n)) \/ n = Cardinality(Loose(s))
      count == Min({n \in 0..Cardinality(Loose(s)) : enough(n)})
  IN clips' = left(count) /\ textBytes' = size(count)

(* record_text: a text that is known comes to the front, pinned as it was.    *)
Fits(text) == Bytes[text] <= MaxItemBytes /\ Bytes[text] <= MaxTextBytes
Holding(text) == {i \in DOMAIN clips : clips[i].text = text}

RecordKnown(text) ==
  /\ Fits(text)
  /\ \E i \in Holding(text) : clips' = <<clips[i]>> \o Removed(clips, {clips[i].id})
  /\ UNCHANGED <<textBytes, nextClip, pins>>

RecordNew(text) ==
  /\ Fits(text) /\ Holding(text) = {} /\ nextClip <= MaxCaptures
  /\ Enforce(<<[id |-> nextClip, text |-> text, pinned |-> FALSE]>> \o clips,
             textBytes + Bytes[text])
  /\ nextClip' = nextClip + 1
  /\ UNCHANGED pins

SetPinned(id, pinned) ==
  /\ id \in ClipIds(clips)
  /\ Enforce([i \in DOMAIN clips |->
                IF clips[i].id = id THEN [clips[i] EXCEPT !.pinned = pinned] ELSE clips[i]],
             textBytes)
  /\ pins' = IF pinned THEN pins \union {id} ELSE pins \ {id}
  /\ UNCHANGED nextClip

Drop(ids) ==
  /\ clips' = Removed(clips, ids)
  /\ textBytes' = textBytes - SizeOf(Among(clips, ids))
  /\ pins' = pins \ ids
  /\ UNCHANGED nextClip

EraseClip(id) == id \in ClipIds(clips) /\ Drop({id})
ClearUnpinned == Drop({clips[i].id : i \in {k \in DOMAIN clips : ~clips[k].pinned}})
ClearAll == clips' = <<>> /\ textBytes' = 0 /\ pins' = {} /\ UNCHANGED nextClip

ClipboardNext ==
  \/ \E text \in Texts : RecordKnown(text) \/ RecordNew(text)
  \/ \E id \in 1..MaxCaptures :
       EraseClip(id) \/ \E pinned \in BOOLEAN : SetPinned(id, pinned)
  \/ ClearUnpinned \/ ClearAll

ClipboardSpec == ClipboardInit /\ [][ClipboardNext]_clipboardVars

-----------------------------------------------------------------------------
(* The running count of bytes is the size of what is held; the limits are     *)
(* exceeded only by pinned entries, with nothing else left; no text is held   *)
(* twice; and what the user pinned is there until the user unpins or erases   *)
(* it, whatever was copied since.                                             *)
ClipboardAccounted ==
  /\ textBytes = SizeOf(clips)
  /\ OverLimits(clips, textBytes) => \A i \in DOMAIN clips : clips[i].pinned
  /\ \A i, k \in DOMAIN clips : i # k => clips[i].text # clips[k].text
  /\ pins = {clips[i].id : i \in {k \in DOMAIN clips : clips[k].pinned}}
=============================================================================
