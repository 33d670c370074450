----------------------------- MODULE SchedHistory -----------------------------
(***************************************************************************)
(* Sched with a history variable: which levels could have been served when *)
(* a CPU called get_proc().  It states what the priorities promise.        *)
(***************************************************************************)
EXTENDS Sched

VARIABLE
    eligible   \* eligible[c]: at the last call of get_proc() by c, the levels
               \* with a ready process and slots left

historyVars == <<schedVars, eligible>>

\* Levels that get_proc() may serve without refilling the slots.
EligibleLevels == {k \in Level : ~Empty(k) /\ slot[k] > 0}

HistoryInit == SchedInit /\ eligible = [c \in CPU |-> {}]

HistoryNext ==
    \/ /\ ~Overrun
       /\ \E p \in Proc : AddProc(p)
       /\ UNCHANGED eligible
    \/ /\ ~Overrun
       /\ \E c \in CPU :
             \/ GetProc(c) /\ eligible' = [eligible EXCEPT ![c] = EligibleLevels]
             \/ (GetStep(c) \/ PutProc(c) \/ FreeProc(c)) /\ UNCHANGED eligible
    \/ Undefined /\ UNCHANGED eligible

HistorySpec == HistoryInit /\ [][HistoryNext]_historyVars

HistoryFairSpec ==
    /\ HistorySpec
    /\ \A c \in CPU : WF_historyVars(HistoryNext /\ Serve(c))

\* With one CPU, get_proc() serves the most urgent level that was eligible when
\* it was called, or one more urgent that the loader has filled since; and it
\* returns NULL only if no level was eligible.
HighestPriorityFirst ==
    [][\A c \in CPU : gpc[c] # "idle" /\ gpc'[c] = "idle" =>
          \A k \in eligible[c] : proc'[c] # NULL /\ prio[proc'[c]] <= k]_historyVars

=============================================================================
