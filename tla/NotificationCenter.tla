-------------------------- MODULE NotificationCenter --------------------------
(* NotificationCenter and the pump of App that shows what it holds: any       *)
(* thread publishes a notification and then posts a message to the window;    *)
(* the window takes one notification per message, and sets a timer for as     *)
(* long as there are more.                                                    *)
EXTENDS Integers, Sequences, FiniteSets, SequencesExt

CONSTANTS
  Publishers,      \* threads that publish; "ui" is the window's
  RetentionLimit,  \* retention_limit_
  MaxNotices,      \* bound: notifications published
  MaxToggles       \* bound: "settings notifications on" and "off"

ASSUME NotificationAssumption ==
  RetentionLimit \in Nat \ {0} /\ MaxNotices \in Nat /\ MaxToggles \in Nat

VARIABLES
  unseen,    \* pending_, as ids, oldest first
  history,   \* history_, newest first
  tally,     \* total_published_, which is next_id_ - 1, and total_dropped_
  posting,   \* the threads that published and have not posted yet
  inbox,     \* notification_ready_messages in the window's queue
  pumpTimer, \* the pump's timer is set
  pumping,   \* pump_notifications has taken a notification and not looked for more
  showing,   \* settings_.notifications_enabled
  toggles,
  seen       \* ghost: what became of each notification that is not pending

noticeVars == <<unseen, history, tally, posting, inbox, pumpTimer, pumping, showing,
                toggles, seen>>

NoticeInit ==
  /\ unseen = <<>> /\ history = <<>> /\ tally = [published |-> 0, dropped |-> 0]
  /\ posting = {} /\ inbox = 0 /\ pumpTimer = FALSE /\ pumping = FALSE
  /\ showing \in BOOLEAN /\ toggles = 0
  /\ seen = [shown |-> <<>>, discarded |-> {}, overrun |-> {}, quiet |-> {}]

UiIdle == ~pumping /\ "ui" \notin posting

(* publish(): the oldest go beyond the limit, from the history and from what  *)
(* is pending, and both are counted as dropped.                               *)
KeptPendingMut(s) == IF Len(s) > RetentionLimit THEN Front(s) ELSE s
KeptPending(s) == IF Len(s) > RetentionLimit THEN Tail(s) ELSE s
KeptHistory(s) == IF Len(s) > RetentionLimit THEN Front(s) ELSE s
Surplus(s) == IF Len(s) > RetentionLimit THEN 1 ELSE 0

(* load_enabled_plugins and the constructor of App publish without a message. *)
Notify(t, posts) ==
  /\ t \notin posting /\ (t = "ui" => UiIdle) /\ (posts \/ t = "ui")
  /\ tally.published < MaxNotices
  /\ LET id == tally.published + 1
         pending == Append(unseen, id)
         recent == <<id>> \o history
     IN /\ unseen' = KeptPending(pending) /\ history' = KeptHistory(recent)
        /\ tally' = [published |-> id,
                     dropped |-> tally.dropped + Surplus(pending) + Surplus(recent)]
        /\ seen' = [seen EXCEPT !.overrun = @ \union (ToSet(pending) \ ToSet(unseen')),
                                !.quiet = IF posts THEN @ ELSE @ \union {id}]
  /\ posting' = IF posts THEN posting \union {t} ELSE posting
  /\ UNCHANGED <<inbox, pumpTimer, pumping, showing, toggles>>

PostReady(t) ==
  /\ t \in posting
  /\ posting' = posting \ {t} /\ inbox' = inbox + 1
  /\ UNCHANGED <<unseen, history, tally, pumpTimer, pumping, showing, toggles, seen>>

(* pump_notifications(): a notification is taken even when none are shown.    *)
Pump ==
  /\ pumpTimer' = FALSE /\ pumping' = TRUE
  /\ IF unseen = <<>> THEN UNCHANGED <<unseen, seen>>
     ELSE /\ unseen' = Tail(unseen)
          /\ seen' = IF showing THEN [seen EXCEPT !.shown = Append(@, Head(unseen))]
                     ELSE [seen EXCEPT !.discarded = @ \union {Head(unseen)}]
  /\ UNCHANGED <<history, tally, posting, showing, toggles>>
OnReady == UiIdle /\ inbox > 0 /\ inbox' = inbox - 1 /\ Pump
OnTimer == UiIdle /\ pumpTimer /\ UNCHANGED inbox /\ Pump

SetsTimerMut == pumpTimer' = FALSE
SetsTimer == pumpTimer' = (unseen # <<>>)
LookForMore ==
  /\ pumping /\ pumping' = FALSE
  /\ SetsTimer
  /\ UNCHANGED <<unseen, history, tally, posting, inbox, showing, toggles, seen>>

(* settings notifications on|off: when the settings cannot be saved, no       *)
(* message is posted.                                                         *)
Toggle(on) ==
  /\ UiIdle /\ toggles < MaxToggles
  /\ showing' = on /\ toggles' = toggles + 1
  /\ inbox' \in (IF on /\ unseen # <<>> THEN {inbox, inbox + 1} ELSE {inbox})
  /\ UNCHANGED <<unseen, history, tally, posting, pumpTimer, pumping, seen>>

ClearHistory ==
  /\ UiIdle /\ history # <<>>
  /\ history' = <<>>
  /\ UNCHANGED <<unseen, tally, posting, inbox, pumpTimer, pumping, showing, toggles, seen>>

NoticeNext ==
  \/ \E t \in Publishers : PostReady(t) \/ \E posts \in BOOLEAN : Notify(t, posts)
  \/ OnReady \/ OnTimer \/ LookForMore
  \/ \E on \in BOOLEAN : Toggle(on)
  \/ ClearHistory

(* Threads go on, and the window handles its messages and timers.             *)
NoticeFairness ==
  /\ \A t \in Publishers : WF_noticeVars(PostReady(t))
  /\ WF_noticeVars(OnReady \/ OnTimer \/ LookForMore)

NoticeSpec == NoticeInit /\ [][NoticeNext]_noticeVars /\ NoticeFairness

-----------------------------------------------------------------------------
Published == 1..tally.published
Ascending(s) == \A i, k \in DOMAIN s : i < k => s[i] < s[k]

(* Nothing that was published is lost without a count, shown twice or shown   *)
(* out of order: what is neither pending nor shown was overrun by newer ones  *)
(* or taken while notifications were off, and what is pending are the newest  *)
(* of those that are not.                                                     *)
NoticesAccounted ==
  /\ Ascending(unseen) /\ Ascending(seen.shown)
  /\ LET gone == ToSet(seen.shown) \union seen.discarded \union seen.overrun
     IN ToSet(unseen) = Published \ gone /\ \A i \in ToSet(unseen), k \in gone : k < i
  /\ \A i \in DOMAIN history : history[i] = tally.published + 1 - i
  /\ Len(unseen) <= RetentionLimit /\ Len(history) <= RetentionLimit
  /\ tally.dropped >= Cardinality(seen.overrun) /\ tally.dropped <= 2 * tally.published

(* A notification that was followed by a message does not stay pending, as    *)
(* long as threads go on: however publishing falls between taking one and     *)
(* looking for more, there is a message or a timer for what is left.          *)
NoticesLeave ==
  \A i \in 1..MaxNotices :
    (i \in ToSet(unseen) /\ i \notin seen.quiet) ~> (i \notin ToSet(unseen))
=============================================================================
