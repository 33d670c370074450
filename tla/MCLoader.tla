------------------------------- MODULE MCLoader -------------------------------
(* Instance of Loader for TLC: files in the right format and what is left of *)
(* them when a token is missing, replaced, or the file ends early.           *)
EXTENDS Loader, SequencesExt

Num(n) == [kind |-> "num", val |-> n]
Word(w) == [kind |-> "word", val |-> w]

Damaged(f) ==
    {f}
    \cup {RemoveAt(f, n) : n \in DOMAIN f}
    \cup {SubSeq(f, 1, n) : n \in 0..Len(f)}
    \cup {[f EXCEPT ![n] = Word("x")] : n \in DOMAIN f}

\* A configuration with one swap device and two lines, of which num are used.
Config(num, ram, swap) ==
    <<Num(2), Num(1), Num(num), Num(ram), Num(swap),
      Num(0), Word("s0"), Num(4), Num(6), Word("s1"), Num(3)>>

\* The sample input/sched_0, which has neither sizes nor priorities.
Legacy == <<Num(2), Num(1), Num(2), Num(0), Word("s0"), Num(4), Word("s1")>>

MCConfigs == Damaged(Config(2, 7, 4)) \cup {Config(1, 3, 1), Config(0, 2, 6), Legacy}

Insts == {<<Word("calc")>>, <<Word("free"), Num(1)>>, <<Word("alloc"), Num(5), Num(1)>>,
          <<Word("read"), Num(1), Num(4), Num(2)>>}

\* All files of up to four tokens, and texts of up to two instructions under a
\* size of up to three.
Sample == {Num(0), Num(1), Num(2), Word("calc"), Word("free"), Word("alloc"), Word("write")}

MCPrograms ==
    UNION {[1..n -> Sample] : n \in 0..4}
    \cup UNION {Damaged(<<Num(9), Num(size)>> \o FlattenSeq(text)) :
              size \in 0..3, text \in {<<>>} \cup Insts \X Insts \cup {<<t>> : t \in Insts}}

=============================================================================
