-------------------------------- MODULE Clock --------------------------------
(***************************************************************************)
(* Time stamps.  Every thread logs (rlog calls getTime(), rui.h) and some   *)
(* have a datetime object (datetime.cpp).  Both go through localtime(),     *)
(* which fills one static tm for the whole process: under the C library's  *)
(* lock, but its callers read it when the lock is released.                 *)
(*                                                                          *)
(* A moment is a number of hours, and in the summer the local time is one   *)
(* hour ahead.  A tm is a record; hour stands for the fields of the date    *)
(* and the time.  The order in which the fields of a tm are written and     *)
(* read is left open.                                                       *)
(***************************************************************************)
EXTENDS Integers

CONSTANTS
  Threads,
  Keepers,     \* those of them that have a datetime
  NoThread,
  Moments,     \* the times of calls, and of the strings that are parsed
  NoMoment,
  Summer       \* the moments of daylight saving time

ASSUME ClockAssumption ==
  /\ Keepers \subseteq Threads /\ NoThread \notin Threads
  /\ Moments \subseteq Int /\ NoMoment \notin Moments

Fields == {"hour", "tm_isdst"}

VARIABLES
  tm_lock,     \* the thread that is filling the static tm
  tmbuf,       \* the static tm
  stamp,       \* thread -> [pc, load, second, todo, tm]: the next step of its
               \* call; whether a datetime made it; the time asked for; the
               \* fields left to be written or read; what was read
  m_tm,        \* keeper -> the tm of its datetime
  span,        \* history: thread -> the moments written to tmbuf from its
               \* call to the end of its reading
  seasons,     \* history: keeper -> the moments that m_tm has its season from
  meant        \* history: keeper -> the moment of the string m_tm was set to

clockVars == <<tm_lock, tmbuf, stamp, m_tm, span, seasons, meant>>

Ahead(summer) == IF summer THEN 1 ELSE 0
LocalOf(m) == [hour |-> m + Ahead(m \in Summer), tm_isdst |-> m \in Summer]

(* mktime() believes the tm_isdst it is given.                              *)
Mktime(tm) == tm.hour - Ahead(tm.tm_isdst)

Idle == [pc |-> "idle", load |-> FALSE, second |-> 0, todo |-> {}, tm |-> LocalOf(0)]

ClockInit ==
  /\ tm_lock = NoThread
  /\ tmbuf = LocalOf(0)
  /\ stamp = [th \in Threads |-> Idle]
  /\ \E m \in Moments :
       /\ m_tm = [th \in Keepers |-> LocalOf(m)]
       /\ seasons = [th \in Keepers |-> {m}]
  /\ span = [th \in Threads |-> {}]
  /\ meant = [th \in Keepers |-> NoMoment]

(* getTime() or load_from_second(): time(), then the call of localtime().   *)
Call(th, m) ==
  /\ stamp[th].pc = "idle"
  /\ \E load \in {FALSE, (th \in Keepers)} :
       stamp' = [stamp EXCEPT ![th].pc = "call", ![th].load = load, ![th].second = m]
  /\ UNCHANGED <<tm_lock, tmbuf, m_tm, span, seasons, meant>>

(* Into localtime(): its moment is added to the span of whoever reads.      *)
Locked(th) ==
  /\ tm_lock' = th
  /\ stamp' = [stamp EXCEPT ![th].pc = "fill", ![th].todo = Fields]
  /\ span' = [o \in Threads |->
                CASE o = th -> {stamp[th].second}
                  [] o # th /\ span[o] # {} -> span[o] \cup {stamp[th].second}
                  [] OTHER -> {}]

(* Mutant: localtime() without its lock.                                    *)
LocaltimeUnlocked(th) ==
  /\ stamp[th].pc = "call"
  /\ Locked(th)
  /\ UNCHANGED <<tmbuf, m_tm, seasons, meant>>

Localtime(th) ==
  /\ stamp[th].pc = "call" /\ tm_lock = NoThread
  /\ Locked(th)
  /\ UNCHANGED <<tmbuf, m_tm, seasons, meant>>

(* The static tm is filled; with the last field the lock is released.       *)
Fill(th) ==
  \E f \in stamp[th].todo :
    /\ stamp[th].pc = "fill"
    /\ tmbuf' = [tmbuf EXCEPT ![f] = LocalOf(stamp[th].second)[f]]
    /\ IF stamp[th].todo = {f}
       THEN /\ tm_lock' = NoThread
            /\ stamp' = [stamp EXCEPT ![th].pc = "read", ![th].todo = Fields]
       ELSE /\ stamp' = [stamp EXCEPT ![th].todo = @ \ {f}]
            /\ UNCHANGED tm_lock
    /\ UNCHANGED <<m_tm, span, seasons, meant>>

(* strftime() of getTime() or the assignment to m_tm reads it.              *)
Read(th) ==
  \E f \in stamp[th].todo :
    /\ stamp[th].pc = "read"
    /\ stamp' = [stamp EXCEPT ![th].tm[f] = tmbuf[f], ![th].todo = @ \ {f},
                   ![th].pc = IF stamp[th].todo = {f} THEN "done" ELSE @]
    /\ UNCHANGED <<tm_lock, tmbuf, m_tm, span, seasons, meant>>

(* The line is printed, or the datetime has its copy.                       *)
Done(th) ==
  /\ stamp[th].pc = "done"
  /\ stamp' = [stamp EXCEPT ![th] = Idle]
  /\ span' = [span EXCEPT ![th] = {}]
  /\ IF stamp[th].load
     THEN /\ m_tm' = [m_tm EXCEPT ![th] = stamp[th].tm]
          /\ seasons' = [seasons EXCEPT ![th] = span[th]]
          /\ meant' = [meant EXCEPT ![th] = NoMoment]
     ELSE UNCHANGED <<m_tm, seasons, meant>>
  /\ UNCHANGED <<tm_lock, tmbuf>>

(* Mutant: m_tm is zeroed before strptime().                                *)
LoadZeroed(th, m) ==
  /\ stamp[th].pc = "idle"
  /\ m_tm' = [m_tm EXCEPT ![th] = [hour |-> LocalOf(m).hour, tm_isdst |-> FALSE]]
  /\ meant' = [meant EXCEPT ![th] = m]
  /\ UNCHANGED <<tm_lock, tmbuf, stamp, span, seasons>>

(* load_from_string(): strptime() leaves tm_isdst alone.                    *)
LoadFromString(th, m) ==
  /\ stamp[th].pc = "idle"
  /\ m_tm' = [m_tm EXCEPT ![th].hour = LocalOf(m).hour]
  /\ meant' = [meant EXCEPT ![th] = m]
  /\ UNCHANGED <<tm_lock, tmbuf, stamp, span, seasons>>

(* to_time_t(): mktime() also puts m_tm right for what it returns.          *)
ToTimeT(th) ==
  LET second == Mktime(m_tm[th]) IN
  /\ stamp[th].pc = "idle" /\ meant[th] # NoMoment
  /\ m_tm' = [m_tm EXCEPT ![th] = LocalOf(second)]
  /\ seasons' = [seasons EXCEPT ![th] = {second}]
  /\ meant' = [meant EXCEPT ![th] = NoMoment]
  /\ UNCHANGED <<tm_lock, tmbuf, stamp, span>>

ClockNext ==
  \/ \E th \in Threads :
       \/ \E m \in Moments : Call(th, m)
       \/ Localtime(th) \/ Fill(th) \/ Read(th) \/ Done(th)
  \/ \E th \in Keepers :
       \/ \E m \in Moments : LoadFromString(th, m)
       \/ ToTimeT(th)

ClockSpec == ClockInit /\ [][ClockNext]_clockVars

-----------------------------------------------------------------------------
(* Although the threads share one tm, every field that a log line shows or  *)
(* a datetime copies is right for the thread's own call, or for the call of *)
(* a thread that overlapped it: without an overlap the stamp is exact, and  *)
(* with one its fields come from those calls alone.                         *)
StampTraced ==
  \A th \in Threads : stamp[th].pc = "done" =>
    \A f \in Fields : \E m \in span[th] : stamp[th].tm[f] = LocalOf(m)[f]

(* What to_time_t() returns for a string is the moment the string names,    *)
(* whenever the object was built in the season of that moment and no thread *)
(* of another season was in localtime() meanwhile.                          *)
ParsedTimeRight ==
  \A th \in Keepers :
    /\ meant[th] # NoMoment
    /\ \A m \in seasons[th] : m \in Summer <=> meant[th] \in Summer
    => Mktime(m_tm[th]) = meant[th]
=============================================================================
