----------------------------- MODULE LoaderProofs -----------------------------
(***************************************************************************)
(* Proofs about module Loader, for every set of files, every number of     *)
(* processes and of swap devices, and every page size.                     *)
(***************************************************************************)
EXTENDS Loader, TLAPS

Facts == INSTANCE ProofFacts

-----------------------------------------------------------------------------
(* fscanf() *)

Format == Seq({"num", "word"})

\* The tokens from position k on.
Rest(f, k) == SubSeq(f, k, Len(f))

RestFacts(f, k, g) ==
    /\ g \in Seq(Token) /\ Len(g) = Len(f) + 1 - k
    /\ \A n \in 1..Len(g) : k + n - 1 \in 1..Len(f) /\ g[n] = f[k + n - 1]

\* The tokens that are left are the tokens of the file from k on.
LEMMA RestElements ==
    ASSUME NEW f \in Seq(Token), NEW k \in 1..(Len(f) + 1), NEW g, g = Rest(f, k)
    PROVE  RestFacts(f, k, g)
<1>1. PICK l \in Nat : l = Len(f) /\ k \in 1..(l + 1)
  OBVIOUS
<1>2. Len(g) = l + 1 - k /\ g \in Seq(Token)
  BY <1>1 DEF Rest
<1>3. ASSUME NEW n \in 1..(l + 1 - k) PROVE g[n] = f[k + n - 1] /\ k + n - 1 \in 1..l
  BY <1>1 DEF Rest
<1> QED
  BY <1>1, <1>2, <1>3 DEF RestFacts

\* What is left of what was left.
LEMMA RestOfRest ==
    ASSUME NEW f \in Seq(Token), NEW k \in 1..(Len(f) + 1), NEW m \in Nat, k + m <= Len(f) + 1
    PROVE  Rest(Rest(f, k), m + 1) = Rest(f, k + m)
<1>1. PICK l, g, h, h2 :
         /\ l \in Nat /\ l = Len(f) /\ g = Rest(f, k) /\ h = Rest(g, m + 1) /\ h2 = Rest(f, k + m)
         /\ k \in 1..(l + 1) /\ k + m <= l + 1
  OBVIOUS
<1>2. RestFacts(f, k, g)
  BY <1>1, RestElements
<1>3. Len(g) = l + 1 - k /\ g \in Seq(Token) /\ \A n \in 1..Len(g) : g[n] = f[k + n - 1]
  BY <1>1, <1>2 DEF RestFacts
<1>4. m + 1 \in 1..(Len(g) + 1) /\ k + m \in 1..(l + 1)
  BY <1>1, <1>3
<1>5. RestFacts(g, m + 1, h)
  BY <1>1, <1>3, <1>4, RestElements
<1>6. RestFacts(f, k + m, h2)
  BY <1>1, <1>4, RestElements
<1>7. Len(h) = l + 1 - (k + m) /\ h \in Seq(Token) /\ Len(h2) = l + 1 - (k + m) /\ h2 \in Seq(Token)
  <2>1. (l + 1 - k) + 1 - (m + 1) = l + 1 - (k + m)
    BY <1>1
  <2>2. h \in Seq(Token) /\ Len(h) = Len(g) + 1 - (m + 1)
    BY <1>5 DEF RestFacts
  <2>3. h2 \in Seq(Token) /\ Len(h2) = Len(f) + 1 - (k + m)
    BY <1>6 DEF RestFacts
  <2> QED
    BY <1>1, <1>3, <2>1, <2>2, <2>3
<1>8. ASSUME NEW n \in 1..Len(h) PROVE h[n] = h2[n]
  <2>1. n \in Nat /\ n > 0 /\ n <= l + 1 - (k + m) /\ n \in 1..Len(h2)
    BY <1>7
  <2>2. h[n] = g[m + 1 + n - 1] /\ m + 1 + n - 1 \in 1..Len(g) /\ h2[n] = f[k + m + n - 1]
    BY <1>5, <1>6, <2>1 DEF RestFacts
  <2>3. g[m + 1 + n - 1] = f[k + (m + 1 + n - 1) - 1]
    BY <1>3, <2>2
  <2>4. k + (m + 1 + n - 1) - 1 = k + m + n - 1
    BY <2>1
  <2> QED
    BY <2>2, <2>3, <2>4
<1>9. h = h2
  BY <1>7, <1>8
<1> QED
  BY <1>1, <1>9

\* The conversions of a format succeed up to the first that fails.
MatchedFacts(f, format, k) ==
    /\ k \in 0..Len(format)
    /\ \A n \in 1..k : Converts(f, n, format[n])
    /\ k < Len(format) => ~Converts(f, k + 1, format[k + 1])

\* Matched is defined: some conversion is the first that fails, or none is.
LEMMA MatchedType ==
    ASSUME NEW f, NEW format \in Format
    PROVE  MatchedFacts(f, format, Matched(f, format))
<1>1. PICK l \in Nat : l = Len(format)
  BY DEF Format
<1> DEFINE T == {k \in 0..l : k < l => ~Converts(f, k + 1, format[k + 1])}
<1>2. T \in SUBSET Nat /\ T # {}
  <2>1. l \in T
    OBVIOUS
  <2>2. T \subseteq Nat
    OBVIOUS
  <2> QED
    BY <2>1, <2>2
<1>3. PICK x \in T : \A y \in T : x <= y
  BY <1>2, Facts!LeastElement
<1>4. ASSUME NEW n \in 1..x PROVE Converts(f, n, format[n])
  <2>1. n - 1 \in 0..l /\ n - 1 < x /\ n - 1 < l /\ (n - 1) + 1 = n
    BY <1>3
  <2>2. n - 1 \notin T
    BY <1>3, <2>1
  <2> QED
    BY <2>1, <2>2
<1>5. MatchedFacts(f, format, x)
  BY <1>1, <1>3, <1>4 DEF MatchedFacts
<1>6. \E k \in 0..Len(format) :
          /\ \A n \in 1..k : Converts(f, n, format[n])
          /\ k < Len(format) => ~Converts(f, k + 1, format[k + 1])
  BY <1>5, Zenon DEF MatchedFacts
<1> QED
  BY <1>6, Zenon DEF Matched, MatchedFacts

\* All of them succeed on a file that has the format.
LEMMA MatchedAll ==
    ASSUME NEW f, NEW format \in Format, \A n \in 1..Len(format) : Converts(f, n, format[n])
    PROVE  Matched(f, format) = Len(format)
<1>1. PICK l \in Nat, k \in Nat : l = Len(format) /\ k = Matched(f, format) /\ k <= l /\ MatchedFacts(f, format, k)
  BY MatchedType DEF Format, MatchedFacts
<1>2. ~(k < l)
  <2> SUFFICES ASSUME k < l PROVE FALSE
    OBVIOUS
  <2>1. k + 1 \in 1..l
    OBVIOUS
  <2> QED
    BY <1>1, <2>1 DEF MatchedFacts
<1> QED
  BY <1>1, <1>2

\* A token that is read as a number is one.
LEMMA ScannedNum ==
    ASSUME file \in Seq(Token), NEW format \in Format, NEW n \in 1..Len(format), format[n] = "num",
           NEW old \in Int
    PROVE  Scanned(format, n, old) \in Int
<1>1. PICK k \in Nat : k = Matched(file, format) /\ MatchedFacts(file, format, k)
  BY MatchedType DEF MatchedFacts, Format
<1>2. CASE n > k
  BY <1>1, <1>2 DEF Scanned
<1>3. CASE ~(n > k)
  <2>1. n \in 1..k
    BY <1>1, <1>3 DEF Format
  <2>2. n <= Len(file) /\ "num" \in {file[n].kind, "word"}
    BY <1>1, <2>1 DEF MatchedFacts, Converts
  <2>3. file[n] \in Token /\ file[n].kind = "num"
    BY <2>1, <2>2
  <2>4. file[n].val \in Int
    BY <2>3 DEF Token
  <2> QED
    BY <1>1, <1>3, <2>4 DEF Scanned
<1> QED
  BY <1>2, <1>3

\* fscanf() leaves tokens in the file.
LEMMA ScanType ==
    ASSUME file \in Seq(Token), NEW format \in Format, Scan(format)
    PROVE  file' \in Seq(Token) /\ failed' \in BOOLEAN
<1>1. PICK k \in Nat : k = Matched(file, format)
  BY MatchedType DEF MatchedFacts, Format
<1> QED
  BY <1>1 DEF Scan

\* A format of n numbers.
LEMMA NumsFormat ==
    ASSUME NEW n \in Nat
    PROVE  Nums(n) \in Format /\ Len(Nums(n)) = n /\ \A m \in 1..n : Nums(n)[m] = "num"
  BY DEF Nums, Format

-----------------------------------------------------------------------------
(* The devices *)

LoadType ==
    /\ stage \in {"header", "memory", "lines", "format", "open", "size", "text", "exit"}
    /\ file \in Seq(Token) /\ source \in Seq(Token) /\ failed \in BOOLEAN
    /\ config \in [time_slot : Int, num_cpus : Int, num_processes : Int, memramsz : Int,
                   memswpsz : [1..PAGING_MAX_MMSWP -> Int]]
    /\ i \in Nat \ {0}

\* The devices are made when the configuration is read, and then stay.
NotMadeYet == stage \in {"header", "memory", "lines", "format"} => devices = <<>>

DevicesInv == LoadType /\ NotMadeYet /\ DevicesReady

\* A device that was made from a size.
Ready(dev, size) ==
    size >= 2 * PAGING_PAGESZ =>
        /\ dev.end = "NULL"
        /\ \A n \in DOMAIN dev.fpn : dev.fpn[n] = n - 1
        /\ Len(dev.fpn) * PAGING_PAGESZ \in (size - PAGING_PAGESZ + 1)..size

\* MEMPHY_format() makes the frames that fit into the size, all of them.
LEMMA FormattedReady ==
    ASSUME NEW size \in Int
    PROVE  Ready(Formatted(size), size)
<1> SUFFICES ASSUME size >= 2 * PAGING_PAGESZ PROVE Ready(Formatted(size), size)
  BY DEF Ready
<1>1. PICK d \in Nat \ {0} : d = PAGING_PAGESZ
  BY LoaderAssumption
<1>2. PICK q \in Int, r \in 0..(d - 1) : q = size \div d /\ size = d * q + r
  BY Facts!DivMod
<1>3. q >= 2
  <2>1. 2 * d <= d * q + r
    BY <1>1, <1>2
  <2>2. q < 2 => q <= 1
    BY <1>2
  <2>3. q <= 1 => q * d <= 1 * d
    BY <1>2, Facts!TimesMonotone
  <2>4. q * d = d * q /\ d * q \in Int
    BY <1>2, Facts!TimesMonotone
  <2> QED
    BY <1>2, <2>1, <2>2, <2>3, <2>4
<1>4. ~(q <= 0) /\ q # 1 /\ q \in Nat
  BY <1>2, <1>3
<1>5. Formatted(size) = [fpn |-> [n \in 1..q |-> n - 1], end |-> "NULL"]
  BY <1>1, <1>2, <1>4 DEF Formatted
<1>6. /\ Formatted(size).end = "NULL"
      /\ Formatted(size).fpn = [n \in 1..q |-> n - 1]
  BY <1>5
<1>7. Len([n \in 1..q |-> n - 1]) = q
  BY <1>4
<1>8. q * d \in (size - d + 1)..size
  <2>1. q * d = d * q /\ d * q \in Int
    BY <1>2, Facts!TimesMonotone
  <2> QED
    BY <1>2, <2>1
<1> QED
  BY <1>1, <1>6, <1>7, <1>8 DEF Ready

\* Each device that main() makes is ready.
LEMMA InitDevicesReady ==
    ASSUME LoadType, InitDevices
    PROVE  DevicesReady'
<1> DEFINE made == [s \in 1..PAGING_MAX_MMSWP |-> Formatted(config.memswpsz[s])]
<1>1. PICK M \in Nat : M = PAGING_MAX_MMSWP
  BY LoaderAssumption
<1>2. devices' = <<Formatted(config.memramsz)>> \o made /\ UNCHANGED config
  BY DEF InitDevices
<1>3. \E S : made \in Seq(S) /\ Formatted(config.memramsz) \in S
  <2> WITNESS {Formatted(config.memramsz)} \cup {made[s] : s \in 1..M}
  <2> QED
    BY <1>1
<1>4. PICK S : made \in Seq(S) /\ Formatted(config.memramsz) \in S
  BY <1>3
<1>5. Len(made) = M /\ \A s \in 1..M : made[s] = Formatted(config.memswpsz[s])
  BY <1>1
<1> HIDE DEF made
<1>6. PICK x, t : x = Formatted(config.memramsz) /\ t = made /\ x \in S /\ t \in Seq(S)
  BY <1>4
<1>7. /\ <<x>> \o t \in Seq(S) /\ Len(t) = M /\ Len(<<x>> \o t) = M + 1
      /\ (<<x>> \o t)[1] = x /\ \A n \in 2..(M + 1) : (<<x>> \o t)[n] = t[n - 1]
  BY <1>5, <1>6, Facts!ConsElements
<1>8. DOMAIN devices' = 1..(M + 1) /\ devices'[1] = x /\ \A n \in 2..(M + 1) : devices'[n] = t[n - 1]
  BY <1>2, <1>6, <1>7
<1>9. config.memramsz \in Int /\ \A s \in 1..M : config.memswpsz[s] \in Int
  BY <1>1 DEF LoadType
<1>10. ASSUME NEW d \in DOMAIN devices'
       PROVE  Ready(devices'[d], IF d = 1 THEN config'.memramsz ELSE config'.memswpsz[d - 1])
  <2>1. CASE d = 1
    BY <1>2, <1>6, <1>8, <1>9, <2>1, FormattedReady
  <2>2. CASE d # 1
    <3>1. d \in 2..(M + 1) /\ d - 1 \in 1..M
      BY <1>8, <2>2
    <3>2. devices'[d] = Formatted(config.memswpsz[d - 1])
      BY <1>5, <1>6, <1>8, <3>1
    <3> QED
      BY <1>2, <1>9, <2>2, <3>1, <3>2, FormattedReady
  <2> QED
    BY <2>1, <2>2
<1> QED
  BY <1>10 DEF DevicesReady, Ready

\* Numbers that are read into the configuration.
LEMMA NumsScanned ==
    ASSUME file \in Seq(Token), NEW l \in Nat, NEW n \in 1..l
    PROVE  Scanned(Nums(l), n, 0) \in Int
<1>1. PICK format : format = Nums(l) /\ format \in Format /\ Len(format) = l /\ format[n] = "num"
  BY NumsFormat
<1>2. Scanned(format, n, 0) \in Int
  BY <1>1, ScannedNum
<1> QED
  BY <1>1, <1>2

\* Every call of fscanf() leaves a rest of the file.
LEMMA ScanStep ==
    ASSUME LoadType, NEW format, Scan(format),
           \/ \E l \in Nat : format = Nums(l) \/ format = <<"word">> \o Nums(l)
           \/ format = <<"num", "word", "num">>
    PROVE  file' \in Seq(Token) /\ failed' \in BOOLEAN
<1>1. format \in Format
  <2>1. <<"num", "word", "num">> \in Format /\ <<"word">> \in Format
    BY DEF Format
  <2>2. ASSUME NEW l \in Nat PROVE Nums(l) \in Format /\ <<"word">> \o Nums(l) \in Format
    BY <2>1, NumsFormat DEF Format
  <2> QED
    BY <2>1, <2>2
<1> QED
  BY <1>1, ScanType DEF LoadType

\* Every step keeps the types of what the proofs need.
LEMMA LoadTypeStep ==
    ASSUME LoadType, Next
    PROVE  LoadType'
<1>0. /\ file \in Seq(Token) /\ config \in [time_slot : Int, num_cpus : Int, num_processes : Int, memramsz : Int,
                   memswpsz : [1..PAGING_MAX_MMSWP -> Int]]
      /\ i \in Nat \ {0} /\ i + 1 \in Nat \ {0} /\ 1 \in Nat \ {0} /\ <<>> \in Seq(Token)
  BY DEF LoadType
<1>1. CASE ReadHeader
  <2>1. PICK a, b, c : a = Scanned(Nums(3), 1, 0) /\ b = Scanned(Nums(3), 2, 0) /\ c = Scanned(Nums(3), 3, 0)
    OBVIOUS
  <2>2. a \in Int /\ b \in Int /\ c \in Int
    BY <1>0, <2>1, NumsScanned
  <2>3. config' = [config EXCEPT !.time_slot = a, !.num_cpus = b, !.num_processes = c]
    BY <1>1, <2>1 DEF ReadHeader
  <2>4. config' \in [time_slot : Int, num_cpus : Int, num_processes : Int, memramsz : Int,
                     memswpsz : [1..PAGING_MAX_MMSWP -> Int]]
    BY <1>0, <2>2, <2>3
  <2>5. Scan(Nums(3)) /\ stage' = "memory" /\ UNCHANGED <<source, i>>
    BY <1>1 DEF ReadHeader
  <2> QED
    BY <2>4, <2>5, ScanStep DEF LoadType
<1>2. CASE ReadMemory
  <2>1. PICK M \in Nat : M = PAGING_MAX_MMSWP
    BY LoaderAssumption
  <2>2. PICK a, w : a = Scanned(Nums(1 + M), 1, 0) /\ w = [s \in 1..M |-> Scanned(Nums(1 + M), s + 1, 0)]
    OBVIOUS
  <2>3. a \in Int
    BY <1>0, <2>1, <2>2, NumsScanned
  <2>4. ASSUME NEW s \in 1..M PROVE Scanned(Nums(1 + M), s + 1, 0) \in Int
    <3>1. s + 1 \in 1..(1 + M)
      OBVIOUS
    <3> QED
      BY <1>0, <3>1, NumsScanned
  <2>5. w \in [1..M -> Int]
    BY <2>2, <2>4
  <2>6. config' = [config EXCEPT !.memramsz = a, !.memswpsz = w]
    BY <1>2, <2>1, <2>2 DEF ReadMemory
  <2>7. config' \in [time_slot : Int, num_cpus : Int, num_processes : Int, memramsz : Int,
                     memswpsz : [1..PAGING_MAX_MMSWP -> Int]]
    BY <1>0, <2>1, <2>3, <2>5, <2>6
  <2>8. Scan(Nums(1 + M)) /\ stage' = "lines" /\ UNCHANGED <<source, i>> /\ 1 + M \in Nat
    BY <1>2, <2>1 DEF ReadMemory
  <2> QED
    BY <2>7, <2>8, ScanStep DEF LoadType
<1>3. CASE ReadLine
  <2>1. Scan(<<"num", "word", "num">>) /\ i' = i + 1 /\ UNCHANGED <<stage, source, config>>
    BY <1>3 DEF ReadLine
  <2> QED
    BY <1>0, <2>1, ScanStep DEF LoadType
<1>4. CASE ConfigRead
  BY <1>4 DEF ConfigRead, LoadType
<1>5. CASE InitDevices
  <2>1. /\ stage' = "open" /\ file' = <<>> /\ source' = <<>> /\ failed' = FALSE /\ i' = 1
        /\ UNCHANGED config
    BY <1>5 DEF InitDevices, Forget
  <2> QED
    BY <1>0, <2>1 DEF LoadType
<1>6. CASE Open
  <2>1. CASE stage' = "exit" /\ UNCHANGED <<file, source, failed>>
    BY <1>6, <2>1 DEF Open, LoadType
  <2>2. CASE /\ stage' = "size" /\ file' = source' /\ failed' = FALSE
             /\ source' \in IF ld_processes[i].path = Unset THEN {<<>>} ELSE Programs
    <3>1. source' \in Seq(Token)
      BY <1>0, <2>2, LoaderAssumption
    <3> QED
      BY <1>6, <2>2, <3>1 DEF Open, LoadType
  <2> QED
    BY <1>6, <2>1, <2>2 DEF Open
<1>7. CASE ReadSize
  <2>1. Scan(Nums(2)) /\ stage' = "text" /\ UNCHANGED <<source, config, i>>
    BY <1>7 DEF ReadSize
  <2> QED
    BY <2>1, ScanStep DEF LoadType
<1>8. CASE ReadInst
  <2>1. PICK op \in Opcode : Scan(<<"word">> \o Nums(Args(op))) /\ UNCHANGED <<stage, source, config, i>>
    BY <1>8 DEF ReadInst
  <2>2. Args(op) \in Nat
    BY DEF Args, Opcode
  <2> QED
    BY <2>1, <2>2, ScanStep DEF LoadType
<1>9. CASE UnknownOpcode
  BY <1>9 DEF UnknownOpcode, LoadType
<1>10. CASE Hand
  <2>1. /\ stage' = "open" /\ file' = <<>> /\ source' = <<>> /\ failed' = FALSE /\ i' = i + 1
        /\ UNCHANGED config
    BY <1>10 DEF Hand, Forget
  <2> QED
    BY <1>0, <2>1 DEF LoadType
<1>11. CASE Over
  BY <1>11 DEF Over, vars, LoadType
<1> QED
  BY <1>1, <1>2, <1>3, <1>4, <1>5, <1>6, <1>7, <1>8, <1>9, <1>10, <1>11 DEF Next

\* They hold when main() starts.
LEMMA LoadTypeInit == Init => LoadType
<1> SUFFICES ASSUME Init PROVE LoadType
  OBVIOUS
<1>1. [s \in 1..PAGING_MAX_MMSWP |-> 0] \in [1..PAGING_MAX_MMSWP -> Int]
  OBVIOUS
<1>2. config \in [time_slot : Int, num_cpus : Int, num_processes : Int, memramsz : Int,
                  memswpsz : [1..PAGING_MAX_MMSWP -> Int]]
  BY <1>1 DEF Init
<1>3. source \in Seq(Token)
  BY LoaderAssumption DEF Init
<1>4. stage = "header" /\ file = source /\ failed = FALSE /\ i = 1
  BY DEF Init
<1>5. i \in Nat \ {0}
  BY <1>4
<1> QED
  BY <1>2, <1>3, <1>4, <1>5 DEF LoadType

\* The devices that the program runs with begin as Paging assumes, whatever the
\* configuration file says about them, if they have two frames or more: every
\* frame of the device is in its free list, once and in order.
THEOREM DevicesAlwaysReady == Spec => []DevicesReady
<1>1. Init => DevicesInv
  BY LoadTypeInit DEF Init, DevicesInv, NotMadeYet, DevicesReady
<1>2. DevicesInv /\ [Next]_vars => DevicesInv'
  <2> SUFFICES ASSUME DevicesInv, [Next]_vars PROVE DevicesInv'
    OBVIOUS
  <2>0. LoadType /\ LoadType'
    BY LoadTypeStep DEF DevicesInv, LoadType, vars
  <2>1. CASE ReadHeader \/ ReadMemory \/ ReadLine \/ ConfigRead
    <3>1. devices = <<>> /\ devices' = <<>>
      BY <2>1 DEF DevicesInv, NotMadeYet, ReadHeader, ReadMemory, ReadLine, ConfigRead
    <3> QED
      BY <2>0, <3>1 DEF DevicesInv, NotMadeYet, DevicesReady
  <2>2. CASE InitDevices
    BY <2>0, <2>2, InitDevicesReady DEF DevicesInv, NotMadeYet, InitDevices
  <2>3. CASE Open \/ ReadSize \/ ReadInst \/ UnknownOpcode \/ Hand \/ Over \/ UNCHANGED vars
    <3>1. UNCHANGED <<devices, config>>
      BY <2>3 DEF Open, ReadSize, ReadInst, UnknownOpcode, Hand, Over, vars
    <3>2. stage' = stage \/ stage' \in {"open", "size", "text", "exit"}
      BY <2>3 DEF Open, ReadSize, ReadInst, UnknownOpcode, Hand, Over, vars
    <3>3. NotMadeYet'
      BY <3>1, <3>2 DEF DevicesInv, NotMadeYet
    <3>4. DevicesReady'
      BY <3>1 DEF DevicesInv, DevicesReady
    <3> QED
      BY <2>0, <3>3, <3>4 DEF DevicesInv
  <2> QED
    BY <2>1, <2>2, <2>3 DEF Next
<1>3. DevicesInv => DevicesReady
  BY DEF DevicesInv
<1> QED
  BY <1>1, <1>2, <1>3, PTL DEF Spec

-----------------------------------------------------------------------------
(* The configuration *)

Reading == stage \in {"header", "memory", "lines", "format"}

\* The first line, the sizes of the devices, and the line of process n as written.
HeaderRead ==
    /\ config.time_slot = source[1].val /\ config.num_cpus = source[2].val
    /\ config.num_processes = source[3].val
    /\ DOMAIN ld_processes = 1..config.num_processes

SizesRead ==
    /\ config.memramsz = source[4].val
    /\ \A s \in 1..PAGING_MAX_MMSWP : config.memswpsz[s] = source[4 + s].val

LineRead(n) ==
    ld_processes[n] = [start_time |-> source[ConfigLine(n)].val, path |-> Text(source[ConfigLine(n) + 1]),
                       prio |-> source[ConfigLine(n) + 2].val]

LinesRead == \A n \in 1..config.num_processes : n < i => LineRead(n)

\* Nothing of the file is lost between two lines: the next token to read is the
\* first of the part that was not read yet.
ConfigSoFar ==
    Reading /\ IsConfig(source) =>
        /\ ~failed
        /\ stage = "header" => file = Rest(source, 1) /\ i = 1
        /\ stage = "memory" => file = Rest(source, 4) /\ i = 1 /\ HeaderRead
        /\ stage = "lines" =>
              /\ file = Rest(source, ConfigLine(i)) /\ HeaderRead /\ SizesRead /\ LinesRead
              /\ i = 1 \/ i <= config.num_processes + 1
        /\ stage = "format" => HeaderRead /\ SizesRead /\ LinesRead /\ i > config.num_processes

ConfigInv == LoadType /\ ConfigSoFar

\* Where the parts of a configuration are.
LEMMA ConfigPlaces ==
    ASSUME NEW f \in Seq(Token), IsConfig(f), NEW M \in Nat, M = PAGING_MAX_MMSWP
    PROVE  /\ Len(f) \in Nat /\ 4 + M <= Len(f) /\ f[3].val \in Int
           /\ \A n \in 1..(4 + M) : f[n].kind = "num"
           /\ \A n \in 1..f[3].val :
                 /\ 3 * n + 4 + M <= Len(f)
                 /\ f[3 * n + 2 + M].kind = "num" /\ f[3 * n + 4 + M].kind = "num"
<1>1. \A n \in 1..(4 + M) : n \in 1..Len(f) /\ f[n].kind = "num"
  BY DEF IsConfig, IsNum
<1>2. Len(f) \in Nat /\ 4 + M \in 1..(4 + M) /\ 3 \in 1..(4 + M)
  OBVIOUS
<1>3. 4 + M <= Len(f) /\ f[3] \in Token /\ f[3].kind = "num"
  BY <1>1, <1>2
<1>4. f[3].val \in Int
  BY <1>3 DEF Token
<1>5. ASSUME NEW n \in 1..f[3].val
      PROVE  /\ 3 * n + 4 + M <= Len(f)
             /\ f[3 * n + 2 + M].kind = "num" /\ f[3 * n + 4 + M].kind = "num"
  <2>1. n \in Int /\ ConfigLine(n) = 3 * n + 2 + M /\ (3 * n + 2 + M) + 2 = 3 * n + 4 + M
    BY <1>4 DEF ConfigLine
  <2>2. IsNum(f, 3 * n + 2 + M) /\ IsNum(f, 3 * n + 4 + M)
    BY <2>1 DEF IsConfig
  <2>3. 3 * n + 4 + M \in 1..Len(f)
    BY <2>2 DEF IsNum
  <2> QED
    BY <1>2, <2>1, <2>2, <2>3 DEF IsNum
<1> QED
  BY <1>1, <1>2, <1>3, <1>4, <1>5

\* fscanf() with a format that the file has from position k on.
ScanAll(format, k) ==
    /\ ~failed'
    /\ file' = Rest(source, k + Len(format))
    /\ \A n \in 1..Len(format) : \A old :
          Scanned(format, n, old) = IF format[n] = "word" THEN Text(source[k + n - 1]) ELSE source[k + n - 1].val

\* A format that the file has from k on is read in full, and what follows is left.
LEMMA ScanMatches ==
    ASSUME source \in Seq(Token), NEW format \in Format, NEW k \in 1..(Len(source) + 1), file = Rest(source, k),
           k + Len(format) <= Len(source) + 1,
           \A n \in 1..Len(format) : format[n] = "num" => source[k + n - 1].kind = "num",
           ~failed, Scan(format)
    PROVE  ScanAll(format, k)
<1>1. PICK l \in Nat, m \in Nat : l = Len(source) /\ m = Len(format) /\ k \in 1..(l + 1) /\ k + m <= l + 1
  BY DEF Format
<1>2. RestFacts(source, k, file)
  BY RestElements
<1>3. file \in Seq(Token) /\ Len(file) = l + 1 - k /\ \A n \in 1..Len(file) : file[n] = source[k + n - 1]
  BY <1>1, <1>2 DEF RestFacts
<1>4. ASSUME NEW n \in 1..m PROVE n <= Len(file) /\ n \in 1..Len(file) /\ file[n] = source[k + n - 1]
  <2>1. n <= l + 1 - k /\ n \in 1..(l + 1 - k)
    BY <1>1
  <2> QED
    BY <1>3, <2>1
<1>5. ASSUME NEW n \in 1..m PROVE Converts(file, n, format[n])
  <2>1. format[n] \in {"num", "word"}
    BY <1>1 DEF Format
  <2>2. format[n] = "num" => file[n].kind = "num"
    BY <1>1, <1>4
  <2> QED
    BY <1>4, <2>1, <2>2 DEF Converts
<1>6. Matched(file, format) = m
  BY <1>1, <1>5, MatchedAll
<1>7. ~failed'
  <2>1. failed' = (failed \/ m < m) /\ ~(m < m)
    BY <1>1, <1>6 DEF Scan
  <2> QED
    BY <2>1
<1>8. file' = Rest(source, k + m)
  <2>1. file' = Rest(Rest(source, k), m + 1)
    BY <1>6 DEF Scan, Rest
  <2> QED
    BY <1>1, <2>1, RestOfRest
<1>9. ASSUME NEW n \in 1..m, NEW old
      PROVE  Scanned(format, n, old) = IF format[n] = "word" THEN Text(source[k + n - 1]) ELSE source[k + n - 1].val
  <2>1. ~(n > m)
    OBVIOUS
  <2> QED
    BY <1>4, <1>6, <2>1 DEF Scanned
<1> QED
  BY <1>1, <1>7, <1>8, <1>9 DEF ScanAll

\* The first line is read as written, and the sizes are next.
LEMMA HeaderStep ==
    ASSUME ConfigInv, IsConfig(source), ReadHeader
    PROVE  ~failed' /\ file' = Rest(source, 4) /\ i' = 1 /\ HeaderRead'
<1>1. /\ ~failed /\ file = Rest(source, 1) /\ i = 1 /\ source \in Seq(Token)
      /\ config \in [time_slot : Int, num_cpus : Int, num_processes : Int, memramsz : Int,
                     memswpsz : [1..PAGING_MAX_MMSWP -> Int]]
  BY DEF ConfigInv, LoadType, ConfigSoFar, Reading, ReadHeader
<1>2. PICK M \in Nat : M = PAGING_MAX_MMSWP
  BY LoaderAssumption
<1>3. Len(source) \in Nat /\ 4 + M <= Len(source) /\ \A n \in 1..(4 + M) : source[n].kind = "num"
  BY <1>1, <1>2, ConfigPlaces
<1>4. PICK format : /\ format = Nums(3) /\ format \in Format /\ Len(format) = 3
                    /\ \A n \in 1..3 : format[n] = "num"
  BY NumsFormat
<1>5. ScanAll(format, 1)
  <2>1. 1 \in 1..(Len(source) + 1) /\ 1 + Len(format) <= Len(source) + 1
    <3>1. PICK l \in Nat : l = Len(source) /\ 4 + M <= l
      BY <1>3
    <3>2. 1 \in 1..(l + 1) /\ 1 + 3 <= l + 1
      BY <3>1
    <3> QED
      BY <1>4, <3>1, <3>2
  <2>2. \A n \in 1..Len(format) : source[1 + n - 1].kind = "num"
    <3>1. \A n \in 1..3 : 1 + n - 1 = n /\ n \in 1..(4 + M)
      OBVIOUS
    <3> QED
      BY <1>3, <1>4, <3>1
  <2>3. Scan(format)
    BY <1>4 DEF ReadHeader
  <2> QED
    BY <1>1, <1>4, <2>1, <2>2, <2>3, ScanMatches
<1>6. /\ Scanned(format, 1, 0) = source[1].val /\ Scanned(format, 2, 0) = source[2].val
      /\ Scanned(format, 3, 0) = source[3].val
  <2>1. \A n \in 1..3 : 1 + n - 1 = n /\ format[n] # "word"
    BY <1>4
  <2>2. \A n \in 1..3 : Scanned(format, n, 0) = source[n].val
    BY <1>4, <1>5, <2>1 DEF ScanAll
  <2> QED
    BY <2>2
<1>7. /\ config' = [config EXCEPT !.time_slot = source[1].val, !.num_cpus = source[2].val,
                                  !.num_processes = source[3].val]
      /\ DOMAIN ld_processes' = 1..source[3].val
      /\ UNCHANGED <<source, i>>
  BY <1>4, <1>6 DEF ReadHeader
<1>8. HeaderRead'
  BY <1>1, <1>7 DEF HeaderRead
<1>9. file' = Rest(source, 4) /\ ~failed'
  BY <1>4, <1>5 DEF ScanAll
<1> QED
  BY <1>1, <1>7, <1>8, <1>9

\* The sizes are read as written, and the first process is next.
LEMMA MemoryStep ==
    ASSUME ConfigInv, IsConfig(source), ReadMemory
    PROVE  /\ ~failed' /\ file' = Rest(source, ConfigLine(1)) /\ i' = 1
           /\ HeaderRead' /\ SizesRead' /\ LinesRead'
<1>1. /\ ~failed /\ file = Rest(source, 4) /\ i = 1 /\ HeaderRead /\ source \in Seq(Token)
      /\ config \in [time_slot : Int, num_cpus : Int, num_processes : Int, memramsz : Int,
                     memswpsz : [1..PAGING_MAX_MMSWP -> Int]]
  BY DEF ConfigInv, LoadType, ConfigSoFar, Reading, ReadMemory
<1>2. PICK M \in Nat : M = PAGING_MAX_MMSWP
  BY LoaderAssumption
<1>3. Len(source) \in Nat /\ 4 + M <= Len(source) /\ \A n \in 1..(4 + M) : source[n].kind = "num"
  BY <1>1, <1>2, ConfigPlaces
<1>4. PICK format : /\ format = Nums(1 + M) /\ format \in Format /\ Len(format) = 1 + M
                    /\ \A n \in 1..(1 + M) : format[n] = "num"
  BY NumsFormat
<1>5. ASSUME NEW n \in 1..(1 + M) PROVE 4 + n - 1 = 3 + n /\ 3 + n \in 1..(4 + M)
  OBVIOUS
<1>6. ScanAll(format, 4)
  <2>1. 4 \in 1..(Len(source) + 1) /\ 4 + Len(format) <= Len(source) + 1
    BY <1>3, <1>4
  <2>2. \A n \in 1..Len(format) : source[4 + n - 1].kind = "num"
    BY <1>3, <1>4, <1>5
  <2>3. Scan(format)
    BY <1>2, <1>4 DEF ReadMemory
  <2> QED
    BY <1>1, <1>4, <2>1, <2>2, <2>3, ScanMatches
<1>7. ASSUME NEW n \in 1..(1 + M) PROVE Scanned(format, n, 0) = source[3 + n].val
  <2>1. Scanned(format, n, 0) = source[4 + n - 1].val
    BY <1>4, <1>6 DEF ScanAll
  <2> QED
    BY <1>5, <2>1
<1>8. Scanned(format, 1, 0) = source[4].val /\ \A s \in 1..M : Scanned(format, s + 1, 0) = source[4 + s].val
  <2>1. 1 \in 1..(1 + M) /\ 3 + 1 = 4
    OBVIOUS
  <2>2. \A s \in 1..M : s + 1 \in 1..(1 + M) /\ 3 + (s + 1) = 4 + s
    OBVIOUS
  <2> QED
    BY <1>7, <2>1, <2>2
<1>9. PICK w : w = [s \in 1..M |-> Scanned(format, s + 1, 0)]
  OBVIOUS
<1>10. /\ config' = [config EXCEPT !.memramsz = source[4].val, !.memswpsz = w]
       /\ UNCHANGED <<source, ld_processes, i>>
  BY <1>2, <1>4, <1>8, <1>9 DEF ReadMemory
<1>11. /\ config'.memramsz = source[4].val /\ config'.memswpsz = w
       /\ config'.time_slot = config.time_slot /\ config'.num_cpus = config.num_cpus
       /\ config'.num_processes = config.num_processes /\ config.num_processes \in Int
  BY <1>1, <1>10
<1>12. HeaderRead' /\ SizesRead'
  BY <1>1, <1>2, <1>8, <1>9, <1>10, <1>11 DEF HeaderRead, SizesRead
<1>13. LinesRead'
  BY <1>1, <1>10, <1>11 DEF LinesRead
<1>14. ConfigLine(1) = 4 + (1 + M)
  BY <1>2 DEF ConfigLine
<1>15. file' = Rest(source, ConfigLine(1)) /\ ~failed'
  BY <1>4, <1>6, <1>14 DEF ScanAll
<1> QED
  BY <1>1, <1>10, <1>12, <1>13, <1>15

\* The line of a process is read as written, and the line behind it is next.
LEMMA LineStep ==
    ASSUME ConfigInv, IsConfig(source), ReadLine
    PROVE  /\ ~failed' /\ file' = Rest(source, ConfigLine(i')) /\ i' = i + 1 /\ i <= config.num_processes
           /\ HeaderRead' /\ SizesRead' /\ LinesRead'
<1> DEFINE format == <<"num", "word", "num">>
<1>1. /\ ~failed /\ file = Rest(source, ConfigLine(i)) /\ HeaderRead /\ SizesRead /\ LinesRead
      /\ source \in Seq(Token) /\ i \in Nat \ {0} /\ config.num_processes \in Int
      /\ config.num_processes = source[3].val /\ i <= config.num_processes
  BY DEF ConfigInv, LoadType, ConfigSoFar, Reading, ReadLine, HeaderRead
<1>2. PICK M \in Nat : M = PAGING_MAX_MMSWP
  BY LoaderAssumption
<1>3. i \in 1..source[3].val
  BY <1>1
<1>4. PICK k \in Nat, l \in Nat :
         /\ k = 3 * i + 2 + M /\ l = Len(source) /\ k + 2 <= l /\ k > 0
         /\ source[k].kind = "num" /\ source[k + 2].kind = "num"
  <2>1. /\ Len(source) \in Nat /\ 3 * i + 4 + M <= Len(source)
        /\ source[3 * i + 2 + M].kind = "num" /\ source[3 * i + 4 + M].kind = "num"
    BY <1>1, <1>2, <1>3, ConfigPlaces
  <2>2. 3 * i + 2 + M \in Nat /\ 3 * i + 2 + M > 0 /\ (3 * i + 2 + M) + 2 = 3 * i + 4 + M
    BY <1>1
  <2> QED
    BY <2>1, <2>2
<1>5. ConfigLine(i) = k /\ ConfigLine(i + 1) = k + 3
  BY <1>1, <1>2, <1>4 DEF ConfigLine
<1>6. /\ format \in Format /\ Len(format) = 3
      /\ format[1] = "num" /\ format[2] = "word" /\ format[3] = "num"
  BY DEF Format
<1>7. Scan(format)
  BY DEF ReadLine
<1> HIDE DEF format
<1>8. ScanAll(format, k)
  <2>1. k \in 1..(l + 1) /\ k + 3 <= l + 1 /\ k + 1 - 1 = k /\ k + 3 - 1 = k + 2
    BY <1>4
  <2>2. ASSUME NEW n \in 1..3, format[n] = "num" PROVE source[k + n - 1].kind = "num"
    <3>1. n = 1 \/ n = 3
      BY <1>6, <2>2
    <3> QED
      BY <1>4, <2>1, <3>1
  <2> QED
    BY <1>1, <1>4, <1>5, <1>6, <1>7, <2>1, <2>2, ScanMatches
<1>9. \A old : /\ Scanned(format, 1, old) = source[k].val
               /\ Scanned(format, 2, old) = Text(source[k + 1])
               /\ Scanned(format, 3, old) = source[k + 2].val
  <2>1. k + 1 - 1 = k /\ k + 2 - 1 = k + 1 /\ k + 3 - 1 = k + 2
    BY <1>4
  <2>2. \A old : /\ Scanned(format, 1, old) = source[k + 1 - 1].val
                 /\ Scanned(format, 2, old) = Text(source[k + 2 - 1])
                 /\ Scanned(format, 3, old) = source[k + 3 - 1].val
    BY <1>6, <1>8 DEF ScanAll
  <2> QED
    BY <2>1, <2>2
<1>10. PICK line : line = [start_time |-> source[k].val, path |-> Text(source[k + 1]), prio |-> source[k + 2].val]
  OBVIOUS
<1>11. /\ ld_processes' = [ld_processes EXCEPT ![i] = line] /\ i' = i + 1
       /\ UNCHANGED <<source, config>>
  BY <1>9, <1>10 DEF ReadLine, format
<1>12. HeaderRead' /\ SizesRead'
  BY <1>1, <1>11 DEF HeaderRead, SizesRead
<1>13. LinesRead'
  <2> SUFFICES ASSUME NEW n \in 1..config.num_processes, n < i + 1 PROVE LineRead(n)'
    BY <1>11 DEF LinesRead
  <2>1. CASE n = i
    <3>1. ld_processes'[i] = line
      BY <1>1, <1>11 DEF HeaderRead
    <3> QED
      BY <1>5, <1>10, <1>11, <2>1, <3>1 DEF LineRead, ConfigLine
  <2>2. CASE n # i
    <3>1. n < i
      BY <1>1, <2>2
    <3>2. LineRead(n) /\ ld_processes'[n] = ld_processes[n]
      BY <1>1, <1>11, <2>2, <3>1 DEF LinesRead, HeaderRead
    <3> QED
      BY <1>11, <3>2 DEF LineRead, ConfigLine
  <2> QED
    BY <2>1, <2>2
<1>14. file' = Rest(source, ConfigLine(i')) /\ ~failed'
  BY <1>5, <1>6, <1>8, <1>11 DEF ScanAll
<1> QED
  BY <1>1, <1>11, <1>12, <1>13, <1>14

\* Nothing is read yet.
LEMMA ConfigInit == Init => ConfigInv
<1> SUFFICES ASSUME Init PROVE ConfigInv
  OBVIOUS
<1>1. LoadType
  BY LoadTypeInit
<1>2. source \in Seq(Token) /\ file = source /\ stage = "header" /\ i = 1 /\ ~failed
  BY <1>1 DEF Init, LoadType
<1>3. file = Rest(source, 1)
  BY <1>2 DEF Rest
<1> QED
  BY <1>1, <1>2, <1>3 DEF ConfigInv, ConfigSoFar

\* Each part of the file is read as written and leaves the next one in front.
LEMMA ConfigStep == ConfigInv /\ [Next]_vars => ConfigInv'
<1> SUFFICES ASSUME ConfigInv, [Next]_vars PROVE ConfigInv'
  OBVIOUS
<1>1. LoadType /\ LoadType'
  BY LoadTypeStep DEF ConfigInv, LoadType, vars
<1>2. CASE ReadHeader
  <2>1. stage' = "memory" /\ source' = source
    BY <1>2 DEF ReadHeader
  <2>2. IsConfig(source) => ~failed' /\ file' = Rest(source, 4) /\ i' = 1 /\ HeaderRead'
    BY <1>2, HeaderStep
  <2> QED
    BY <1>1, <2>1, <2>2 DEF ConfigInv, ConfigSoFar
<1>3. CASE ReadMemory
  <2>1. stage' = "lines" /\ source' = source
    BY <1>3 DEF ReadMemory
  <2>2. IsConfig(source) => /\ ~failed' /\ file' = Rest(source, ConfigLine(i')) /\ i' = 1
                            /\ HeaderRead' /\ SizesRead' /\ LinesRead'
    BY <1>3, MemoryStep
  <2> QED
    BY <1>1, <2>1, <2>2 DEF ConfigInv, ConfigSoFar
<1>4. CASE ReadLine
  <2>1. stage' = "lines" /\ UNCHANGED <<source, config>>
    BY <1>4 DEF ReadLine
  <2>2. IsConfig(source) => /\ ~failed' /\ file' = Rest(source, ConfigLine(i')) /\ i' = i + 1
                            /\ i <= config.num_processes /\ HeaderRead' /\ SizesRead' /\ LinesRead'
    BY <1>4, LineStep
  <2>3. IsConfig(source) => i' <= config'.num_processes + 1
    <3>1. PICK k \in Nat, num \in Int : k = i /\ num = config.num_processes
      BY <1>1 DEF LoadType
    <3>2. k <= num => k + 1 <= num + 1
      BY <3>1
    <3> QED
      BY <2>1, <2>2, <3>1, <3>2
  <2> QED
    BY <1>1, <2>1, <2>2, <2>3 DEF ConfigInv, ConfigSoFar
<1>5. CASE ConfigRead
  <2>1. /\ stage = "lines" /\ stage' = "format" /\ i > config.num_processes
        /\ UNCHANGED <<file, source, failed, config, ld_processes, i>>
    BY <1>5 DEF ConfigRead
  <2>2. IsConfig(source) => ~failed /\ HeaderRead /\ SizesRead /\ LinesRead
    BY <2>1 DEF ConfigInv, ConfigSoFar, Reading
  <2>3. HeaderRead' = HeaderRead /\ SizesRead' = SizesRead /\ LinesRead' = LinesRead
    BY <2>1 DEF HeaderRead, SizesRead, LinesRead, LineRead
  <2> QED
    BY <1>1, <2>1, <2>2, <2>3 DEF ConfigInv, ConfigSoFar
<1>6. CASE InitDevices \/ Open \/ ReadSize \/ ReadInst \/ UnknownOpcode \/ Hand \/ (Over /\ ~Reading)
  <2>1. stage' \in {"open", "size", "text", "exit"}
    BY <1>6 DEF InitDevices, Open, ReadSize, ReadInst, UnknownOpcode, Hand, Over, vars
  <2> QED
    BY <1>1, <2>1 DEF ConfigInv, ConfigSoFar, Reading
<1>7. CASE UNCHANGED vars
  BY <1>1, <1>7 DEF vars, ConfigInv, ConfigSoFar, Reading, HeaderRead, SizesRead, LinesRead, LineRead
<1> QED
  BY <1>2, <1>3, <1>4, <1>5, <1>6, <1>7 DEF Next, Over

\* A configuration file in the format of the comments of read_config(), of any
\* length, is read as it is written, to the last line: no line shifts the next.
THEOREM ConfigurationAsWritten == Spec => []ConfigAsWritten
<1>1. ConfigInv => ConfigAsWritten
  <2> SUFFICES ASSUME ConfigInv, stage = "format", IsConfig(source) PROVE ConfigAsWritten
    BY DEF ConfigAsWritten
  <2>1. ~failed /\ HeaderRead /\ SizesRead /\ LinesRead /\ i > config.num_processes
    BY DEF ConfigInv, ConfigSoFar, Reading
  <2>2. <<config.time_slot, config.num_cpus, config.num_processes, config.memramsz>>
          = [n \in 1..4 |-> source[n].val]
    <3>1. 1..4 = {1, 2, 3, 4}
      OBVIOUS
    <3> QED
      BY <2>1, <3>1 DEF HeaderRead, SizesRead
  <2>3. ASSUME NEW n \in 1..config.num_processes PROVE LineRead(n)
    <3>1. PICK k \in Nat, num \in Int : k = i /\ num = config.num_processes
      BY DEF ConfigInv, LoadType
    <3>2. n < k
      BY <2>1, <3>1
    <3> QED
      BY <2>1, <3>1, <3>2 DEF LinesRead
  <2> QED
    BY <2>1, <2>2, <2>3 DEF ConfigAsWritten, SizesRead, LineRead
<1> QED
  BY <1>1, ConfigInit, ConfigStep, PTL DEF Spec

-----------------------------------------------------------------------------
(* The program of a process *)

\* load() and run() take the same number of arguments.
LEMMA ArgsAgree ==
    ASSUME NEW op \in Opcode
    PROVE  Args(op) \in Nat /\ RunArgs[op] = Args(op)
  BY DEF Args, RunArgs, Opcode

\* The format of an instruction: a word and its numbers.
InstFormat(format, a) ==
    /\ format \in Format /\ Len(format) = a + 1 /\ format[1] = "word"
    /\ \A n \in 1..a : format[n + 1] = "num"

\* The format that load() uses for an instruction with a arguments.
LEMMA InstFormatFacts ==
    ASSUME NEW a \in Nat, NEW format, format = <<"word">> \o Nums(a)
    PROVE  InstFormat(format, a)
<1>1. PICK s, S : /\ S = {"num", "word"} /\ s = Nums(a) /\ s \in Seq(S) /\ Len(s) = a
                  /\ \A n \in 1..a : s[n] = "num"
  BY NumsFormat DEF Format
<1>2. PICK x : x = "word" /\ x \in S
  BY <1>1
<1>3. /\ <<x>> \o s \in Seq(S) /\ Len(<<x>> \o s) = a + 1 /\ (<<x>> \o s)[1] = x
      /\ \A n \in 2..(a + 1) : (<<x>> \o s)[n] = s[n - 1]
  BY <1>1, <1>2, Facts!ConsElements
<1>4. ASSUME NEW n \in 1..a PROVE n + 1 \in 2..(a + 1) /\ n + 1 - 1 = n
  OBVIOUS
<1> QED
  BY <1>1, <1>2, <1>3, <1>4 DEF InstFormat, Format

\* A complete instruction ends inside the file.
LEMMA BehindBounds ==
    ASSUME NEW f \in Seq(Token), NEW pos, Complete(f, pos)
    PROVE  /\ pos \in 1..Len(f) /\ Text(f[pos]) \in Opcode
           /\ Behind(f, pos) = pos + Args(Text(f[pos])) + 1
           /\ Behind(f, pos) \in 1..(Len(f) + 1)
<1>1. PICK l \in Nat : l = Len(f) /\ pos \in 1..l
  BY DEF Complete
<1>2. PICK op \in Opcode : op = Text(f[pos])
  BY DEF Complete
<1>3. PICK a \in Nat : a = Args(op) /\ RunArgs[op] = a
  BY ArgsAgree
<1>4. \A n \in 1..a : pos + n \in 1..l
  BY <1>1, <1>2, <1>3 DEF Complete, IsNum
<1>5. pos + a + 1 \in 1..(l + 1)
  <2>1. CASE a = 0
    BY <1>1, <2>1
  <2>2. CASE a # 0
    <3>1. a \in 1..a
      BY <2>2
    <3>2. pos + a \in 1..l
      BY <1>4, <3>1
    <3> QED
      BY <1>1, <3>2
  <2> QED
    BY <2>1, <2>2
<1> QED
  BY <1>1, <1>2, <1>3, <1>5 DEF Behind

\* Where a complete instruction comes next, its opcode is known and nothing fails.
LEMMA CompleteRead ==
    ASSUME source \in Seq(Token), NEW p, Complete(source, p), file = Rest(source, p), ~failed
    PROVE  /\ Scanned(<<"word">>, 1, opcode) = Text(source[p])
           /\ Scan(<<"word">> \o Nums(Args(Text(source[p])))) => ~failed'
<1>1. PICK l \in Nat : l = Len(source) /\ p \in 1..l
  BY DEF Complete
<1>2. PICK op \in Opcode : op = Text(source[p])
  BY DEF Complete
<1>3. PICK a \in Nat : a = Args(op) /\ RunArgs[op] = a
  BY ArgsAgree
<1>4. p + a + 1 \in 1..(l + 1)
  BY <1>1, <1>2, <1>3, BehindBounds
<1>5. p \in 1..(Len(source) + 1)
  BY <1>1
<1>6. RestFacts(source, p, file)
  BY <1>5, RestElements
<1>7. 1 <= Len(file) /\ file[1] = source[p]
  <2>1. Len(file) = l + 1 - p /\ \A n \in 1..Len(file) : file[n] = source[p + n - 1]
    BY <1>1, <1>6 DEF RestFacts
  <2>2. 1 <= l + 1 - p /\ 1 \in 1..(l + 1 - p) /\ p + 1 - 1 = p
    BY <1>1
  <2> QED
    BY <2>1, <2>2
<1>8. Scanned(<<"word">>, 1, opcode) = Text(source[p])
  <2>1. <<"word">> \in Format /\ Len(<<"word">>) = 1 /\ <<"word">>[1] = "word"
    BY DEF Format
  <2>2. \A n \in 1..1 : Converts(file, n, <<"word">>[n])
    BY <1>7, <2>1 DEF Converts
  <2>3. Matched(file, <<"word">>) = 1
    BY <2>1, <2>2, MatchedAll
  <2> QED
    BY <1>7, <2>1, <2>3 DEF Scanned
<1>9. ASSUME Scan(<<"word">> \o Nums(a)) PROVE ~failed'
  <2>1. PICK format : format = <<"word">> \o Nums(a)
    OBVIOUS
  <2>2. InstFormat(format, a)
    BY <2>1, InstFormatFacts
  <2>3. p + Len(format) <= Len(source) + 1
    BY <1>1, <1>4, <2>2 DEF InstFormat
  <2>4. ASSUME NEW n \in 1..Len(format), format[n] = "num" PROVE source[p + n - 1].kind = "num"
    <3>1. n \in 1..(a + 1) /\ n # 1
      BY <2>2, <2>4 DEF InstFormat
    <3>2. n - 1 \in 1..a /\ p + (n - 1) = p + n - 1
      BY <1>1, <3>1
    <3>3. IsNum(source, p + (n - 1))
      BY <1>2, <1>3, <3>2 DEF Complete
    <3> QED
      BY <3>2, <3>3 DEF IsNum
  <2>5. ScanAll(format, p)
    BY <1>5, <1>9, <2>1, <2>2, <2>3, <2>4, ScanMatches DEF InstFormat
  <2> QED
    BY <2>5 DEF ScanAll
<1> QED
  BY <1>2, <1>3, <1>8, <1>9

\* A round has read the instruction that is written at p.
Round(p, op, format) ==
    /\ Complete(source, p) /\ file' = Rest(source, Behind(source, p))
    /\ [opcode |-> op, args |-> [n \in 1..Args(op) |-> Scanned(format, n + 1, Unset)]] = Written(source, p)

\* What one round of the loop reads without a failure is a complete instruction;
\* it is kept as written, and what is behind it is left.
LEMMA RoundRead ==
    ASSUME source \in Seq(Token), NEW p \in 1..(Len(source) + 1), file = Rest(source, p),
           NEW op \in Opcode, op = Scanned(<<"word">>, 1, opcode),
           NEW format, format = <<"word">> \o Nums(Args(op)), Scan(format), ~failed'
    PROVE  Round(p, op, format)
<1>1. PICK a \in Nat : a = Args(op) /\ RunArgs[op] = a
  BY ArgsAgree
<1>2. InstFormat(format, a)
  BY <1>1, InstFormatFacts
<1>3. Matched(file, format) = a + 1 /\ ~failed
  <2>0. MatchedFacts(file, format, Matched(file, format)) /\ Len(format) = a + 1
    BY <1>2, MatchedType DEF InstFormat
  <2>1. PICK k \in Nat : k = Matched(file, format) /\ k <= a + 1
    BY <2>0 DEF MatchedFacts
  <2>2. ~failed /\ ~(k < a + 1)
    BY <1>2, <2>1 DEF Scan, InstFormat
  <2> QED
    BY <2>1, <2>2
<1>4. \A n \in 1..(a + 1) : Converts(file, n, format[n])
  <2>1. MatchedFacts(file, format, a + 1)
    BY <1>2, <1>3, MatchedType DEF InstFormat
  <2> QED
    BY <2>1 DEF MatchedFacts
<1>5. PICK l \in Nat : l = Len(source) /\ p \in 1..(l + 1)
  OBVIOUS
<1>6. Len(file) = l + 1 - p /\ \A n \in 1..Len(file) : file[n] = source[p + n - 1]
  <2>1. RestFacts(source, p, file)
    BY RestElements
  <2> QED
    BY <1>5, <2>1 DEF RestFacts
<1>7. \A n \in 1..(a + 1) : n <= l + 1 - p /\ "num" = format[n] => file[n].kind = "num"
  BY <1>4, <1>6 DEF Converts
<1>8. a + 1 <= l + 1 - p
  <2>1. a + 1 \in 1..(a + 1)
    OBVIOUS
  <2>2. a + 1 <= Len(file)
    BY <1>4, <2>1 DEF Converts
  <2> QED
    BY <1>6, <2>2
<1>9. ASSUME NEW n \in 0..a PROVE n + 1 \in 1..(a + 1) /\ p + n \in 1..l /\ file[n + 1] = source[p + n]
  <2>1. n + 1 \in 1..(l + 1 - p) /\ p + (n + 1) - 1 = p + n /\ p + n \in 1..l /\ n + 1 \in 1..(a + 1)
    BY <1>5, <1>8
  <2> QED
    BY <1>6, <2>1
<1>10. p \in 1..l /\ file[1] = source[p]
  <2>1. 0 \in 0..a /\ 0 + 1 = 1 /\ p + 0 = p
    BY <1>5
  <2> QED
    BY <1>9, <2>1
<1>11. op = Text(source[p])
  <2>1. <<"word">> \in Format /\ Len(<<"word">>) = 1 /\ <<"word">>[1] = "word"
    BY DEF Format
  <2>2. 1 <= Len(file)
    BY <1>5, <1>6, <1>10
  <2>3. \A n \in 1..1 : Converts(file, n, <<"word">>[n])
    BY <2>1, <2>2 DEF Converts
  <2>4. Matched(file, <<"word">>) = 1
    BY <2>1, <2>3, MatchedAll
  <2> QED
    BY <1>10, <2>1, <2>4 DEF Scanned
<1>12. ASSUME NEW n \in 1..a PROVE IsNum(source, p + n) /\ Scanned(format, n + 1, Unset) = source[p + n].val
  <2>1. n \in 0..a /\ n + 1 \in 1..(a + 1) /\ ~(n + 1 > a + 1)
    OBVIOUS
  <2>2. p + n \in 1..l /\ file[n + 1] = source[p + n] /\ format[n + 1] = "num"
    BY <1>2, <1>9, <2>1 DEF InstFormat
  <2>3. "num" \in {file[n + 1].kind, "word"}
    BY <1>4, <2>1, <2>2 DEF Converts
  <2>4. IsNum(source, p + n)
    BY <1>5, <2>2, <2>3 DEF IsNum
  <2>5. Scanned(format, n + 1, Unset) = file[n + 1].val
    BY <1>3, <2>1, <2>2 DEF Scanned
  <2> QED
    BY <2>2, <2>4, <2>5
<1>13. Complete(source, p)
  BY <1>1, <1>5, <1>10, <1>11, <1>12 DEF Complete
<1>14. file' = Rest(source, Behind(source, p))
  <2>1. file' = Rest(Rest(source, p), (a + 1) + 1)
    BY <1>3 DEF Scan, Rest
  <2>2. a + 1 \in Nat /\ p + (a + 1) <= l + 1 /\ p + (a + 1) = p + a + 1
    BY <1>5, <1>8
  <2>3. Rest(Rest(source, p), (a + 1) + 1) = Rest(source, p + (a + 1))
    BY <1>5, <2>2, RestOfRest
  <2>4. Behind(source, p) = p + a + 1
    BY <1>1, <1>11 DEF Behind
  <2> QED
    BY <2>1, <2>2, <2>3, <2>4
<1>15. [n \in 1..a |-> Scanned(format, n + 1, Unset)] = [n \in 1..a |-> source[p + n].val]
  BY <1>12
<1> QED
  BY <1>1, <1>11, <1>13, <1>14, <1>15 DEF Written, Round

PcbType ==
    /\ pcb = [pid |-> pcb.pid, priority |-> pcb.priority, size |-> pcb.size, text |-> pcb.text]
    /\ pcb.size \in Int /\ \E S : pcb.text \in Seq(S)

\* The place behind the first k instructions.
At(f, begin, k) == IF k = 0 THEN 3 ELSE Behind(f, begin[k])

\* Without a failure, what was read are the first instructions of the file, and
\* the rest of the file follows them.
ReadSoFar ==
    ~failed =>
        /\ IsNum(source, 1) /\ pcb.priority = source[1].val
        /\ IsNum(source, 2) /\ pcb.size = source[2].val
        /\ \E begin \in Instructions(source, Len(pcb.text)) :
              /\ \A n \in 1..Len(pcb.text) : pcb.text[n] = Written(source, begin[n])
              /\ file = Rest(source, At(source, begin, Len(pcb.text)))

\* In a program the next instruction is always the first of what is left.
ProgramSoFar ==
    IsProgram(source) =>
        /\ ~failed
        /\ \A begin \in Instructions(source, source[2].val) :
              file = Rest(source, At(source, begin, Len(pcb.text)))

TextInv ==
    /\ LoadType
    /\ stage = "size" =>
          /\ pcb = [pid |-> pcb.pid, priority |-> Unset, size |-> Unset, text |-> <<>>]
          /\ file = source /\ ~failed
    /\ stage = "text" => PcbType /\ ReadSoFar /\ ProgramSoFar

\* Every instruction but the first is behind another one, and the last one ends
\* inside the file.
LEMMA AtBounds ==
    ASSUME NEW f \in Seq(Token), IsNum(f, 2), NEW size \in Int, NEW begin \in Instructions(f, size),
           NEW k \in Nat, k = 0 \/ k <= size
    PROVE  /\ At(f, begin, k) \in 1..(Len(f) + 1)
           /\ k < size => begin[k + 1] = At(f, begin, k) /\ Complete(f, begin[k + 1])
<1>1. \A n \in 1..size : /\ Complete(f, begin[n])
                         /\ begin[n] = IF n = 1 THEN 3 ELSE Behind(f, begin[n - 1])
  BY DEF Instructions
<1>2. At(f, begin, k) \in 1..(Len(f) + 1)
  <2>1. CASE k = 0
    <3>1. PICK l \in Nat : l = Len(f) /\ 2 \in 1..l
      BY DEF IsNum
    <3>2. 3 \in 1..(l + 1)
      BY <3>1
    <3> QED
      BY <2>1, <3>1, <3>2 DEF At
  <2>2. CASE k # 0
    <3>1. k \in 1..size
      BY <2>2
    <3>2. Complete(f, begin[k])
      BY <1>1, <3>1
    <3> QED
      BY <2>2, <3>2, BehindBounds DEF At
  <2> QED
    BY <2>1, <2>2
<1>3. ASSUME k < size PROVE begin[k + 1] = At(f, begin, k) /\ Complete(f, begin[k + 1])
  <2>1. k + 1 \in 1..size /\ k + 1 - 1 = k /\ (k + 1 = 1 <=> k = 0)
    BY <1>3
  <2> QED
    BY <1>1, <2>1 DEF At
<1> QED
  BY <1>2, <1>3

Extended(f, begin, k, p, next) ==
    /\ next \in Instructions(f, k + 1)
    /\ \A n \in 1..k : next[n] = begin[n]
    /\ next[k + 1] = p /\ At(f, next, k + 1) = Behind(f, p)

\* One instruction more.
LEMMA InstructionsExtend ==
    ASSUME NEW f \in Seq(Token), NEW k \in Nat, NEW begin \in Instructions(f, k),
           NEW p, p = At(f, begin, k), Complete(f, p)
    PROVE  \E next : Extended(f, begin, k, p, next)
<1>0. PICK next : next = [n \in 1..(k + 1) |-> IF n <= k THEN begin[n] ELSE p]
  OBVIOUS
<1>1. /\ begin \in [1..k -> DOMAIN f]
      /\ \A n \in 1..k : /\ Complete(f, begin[n])
                         /\ begin[n] = IF n = 1 THEN 3 ELSE Behind(f, begin[n - 1])
  BY DEF Instructions
<1>2. p \in DOMAIN f
  BY DEF Complete
<1>3. /\ \A n \in 1..k : n \in 1..(k + 1) /\ n <= k /\ (n # 1 => n - 1 \in 1..k)
      /\ k + 1 \in 1..(k + 1) /\ ~(k + 1 <= k) /\ k + 1 # 0 /\ k + 1 - 1 = k
      /\ \A n \in 1..(k + 1) : n \in 1..k \/ n = k + 1
      /\ k # 0 => k \in 1..k /\ k + 1 # 1
      /\ k = 0 => k + 1 = 1
  OBVIOUS
<1>4. next[k + 1] = p /\ \A n \in 1..k : next[n] = begin[n]
  BY <1>0, <1>3
<1>5. next \in [1..(k + 1) -> DOMAIN f]
  <2>1. ASSUME NEW n \in 1..(k + 1) PROVE next[n] \in DOMAIN f
    BY <1>1, <1>2, <1>3, <1>4
  <2> QED
    BY <1>0, <2>1
<1>6. ASSUME NEW n \in 1..(k + 1)
      PROVE  Complete(f, next[n]) /\ next[n] = IF n = 1 THEN 3 ELSE Behind(f, next[n - 1])
  <2>1. CASE n \in 1..k
    <3>1. n # 1 => next[n - 1] = begin[n - 1]
      BY <1>3, <1>4, <2>1
    <3> QED
      BY <1>1, <1>4, <2>1, <3>1
  <2>2. CASE n = k + 1
    <3>1. CASE k = 0
      BY <1>3, <1>4, <2>2, <3>1 DEF At
    <3>2. CASE k # 0
      BY <1>3, <1>4, <2>2, <3>2 DEF At
    <3> QED
      BY <3>1, <3>2
  <2> QED
    BY <1>3, <2>1, <2>2
<1>7. next \in Instructions(f, k + 1)
  BY <1>5, <1>6 DEF Instructions
<1>8. At(f, next, k + 1) = Behind(f, p)
  BY <1>3, <1>4 DEF At
<1> QED
  BY <1>4, <1>7, <1>8 DEF Extended

\* Priority and size are read as written, and the first instruction is next.
LEMMA ReadSizeStep ==
    ASSUME TextInv, ReadSize
    PROVE  PcbType' /\ ReadSoFar' /\ ProgramSoFar'
<1>1. /\ source \in Seq(Token) /\ file = source /\ ~failed
      /\ pcb = [pid |-> pcb.pid, priority |-> Unset, size |-> Unset, text |-> <<>>]
  BY DEF TextInv, LoadType, ReadSize
<1>2. file = Rest(source, 1)
  BY <1>1 DEF Rest
<1>3. PICK format : /\ format = Nums(2) /\ format \in Format /\ Len(format) = 2
                    /\ \A n \in 1..2 : format[n] = "num"
  BY NumsFormat
<1>4. 1 \in 1..2 /\ 2 \in 1..2 /\ 1..2 = {1, 2} /\ format[1] = "num" /\ format[2] = "num"
  BY <1>3
<1>5. PICK junk \in 0..MaxSize :
         pcb' = [pcb EXCEPT !.priority = Scanned(format, 1, Unset), !.size = Scanned(format, 2, junk)]
  BY <1>3 DEF ReadSize
<1>6. PICK x, y : x = Scanned(format, 1, Unset) /\ y = Scanned(format, 2, junk)
  OBVIOUS
<1>7. pcb' = [pid |-> pcb.pid, priority |-> x, size |-> y, text |-> <<>>]
  <2>1. PICK id, old : old = pcb /\ id = pcb.pid /\ old = [pid |-> id, priority |-> Unset, size |-> Unset, text |-> <<>>]
    BY <1>1
  <2>2. PICK u, e : u = Unset /\ e = <<>>
    OBVIOUS
  <2>3. old = [pid |-> id, priority |-> u, size |-> u, text |-> e]
    BY <2>1, <2>2
  <2>4. [old EXCEPT !.priority = x, !.size = y] = [pid |-> id, priority |-> x, size |-> y, text |-> e]
    <3>1. [old EXCEPT !.priority = x] = [pid |-> id, priority |-> x, size |-> u, text |-> e]
      BY <2>3
    <3>2. PICK mid : mid = [pid |-> id, priority |-> x, size |-> u, text |-> e]
      OBVIOUS
    <3>3. [mid EXCEPT !.size = y] = [pid |-> id, priority |-> x, size |-> y, text |-> e]
      BY <3>2
    <3> QED
      BY <3>1, <3>2, <3>3
  <2> QED
    BY <1>5, <1>6, <2>1, <2>2, <2>4
<1>8. pcb'.priority = x /\ pcb'.size = y /\ pcb'.text = <<>> /\ Len(pcb'.text) = 0
  BY <1>7
<1>9. PcbType'
  <2>1. junk \in Int
    BY LoaderAssumption
  <2>2. y \in Int
    BY <1>1, <1>3, <1>4, <1>6, <2>1, ScannedNum
  <2>3. <<>> \in Seq({})
    OBVIOUS
  <2> QED
    BY <1>7, <1>8, <2>2, <2>3 DEF PcbType
<1>10. Scan(format) /\ source' = source
  BY <1>3 DEF ReadSize
<1>11. ReadSoFar'
  <2> SUFFICES ASSUME ~failed' PROVE ReadSoFar'
    BY DEF ReadSoFar
  <2>1. Matched(file, format) = 2
    <3>0. MatchedFacts(file, format, Matched(file, format))
      BY <1>3, MatchedType
    <3>1. PICK k \in Nat : k = Matched(file, format) /\ k <= 2
      BY <1>3, <3>0 DEF MatchedFacts
    <3>2. ~(k < 2)
      BY <1>3, <1>10, <3>1 DEF Scan
    <3> QED
      BY <3>1, <3>2
  <2>2. MatchedFacts(file, format, 2)
    BY <1>3, <2>1, MatchedType
  <2>3. Converts(source, 1, "num") /\ Converts(source, 2, "num")
    BY <1>1, <1>4, <2>2 DEF MatchedFacts
  <2>4. IsNum(source, 1) /\ IsNum(source, 2)
    BY <1>1, <2>3 DEF Converts, IsNum
  <2>5. x = source[1].val /\ y = source[2].val
    BY <1>1, <1>4, <1>6, <2>1 DEF Scanned
  <2>6. file' = Rest(source, 3)
    BY <1>1, <1>10, <2>1 DEF Scan, Rest
  <2>7. PICK begin : begin = [n \in 1..0 |-> 3]
    OBVIOUS
  <2>8. 1..0 = {}
    OBVIOUS
  <2>9. begin \in Instructions(source, 0)
    BY <2>7, <2>8 DEF Instructions
  <2>10. At(source, begin, 0) = 3
    BY DEF At
  <2> QED
    BY <1>8, <1>10, <2>4, <2>5, <2>6, <2>8, <2>9, <2>10 DEF ReadSoFar
<1>12. ProgramSoFar'
  <2> SUFFICES ASSUME IsProgram(source) PROVE ProgramSoFar'
    BY <1>10 DEF ProgramSoFar
  <2>1. IsNum(source, 1) /\ IsNum(source, 2)
    BY DEF IsProgram
  <2>2. PICK l \in Nat : l = Len(source) /\ 2 <= l
    BY <1>1, <2>1 DEF IsNum
  <2>3. 1 \in 1..(Len(source) + 1) /\ 1 + Len(format) <= Len(source) + 1
    <3>1. 1 \in 1..(l + 1) /\ 1 + 2 <= l + 1
      BY <2>2
    <3> QED
      BY <1>3, <2>2, <3>1
  <2>4. \A n \in 1..Len(format) : source[1 + n - 1].kind = "num"
    <3>1. \A n \in 1..2 : 1 + n - 1 = n
      OBVIOUS
    <3> QED
      BY <1>3, <1>4, <2>1, <3>1 DEF IsNum
  <2>5. ScanAll(format, 1)
    BY <1>1, <1>2, <1>3, <1>10, <2>3, <2>4, ScanMatches
  <2>6. ~failed' /\ file' = Rest(source, 3)
    BY <1>3, <2>5 DEF ScanAll
  <2>7. \A begin : At(source, begin, 0) = 3
    BY DEF At
  <2> QED
    BY <1>8, <1>10, <2>6, <2>7 DEF ProgramSoFar
<1> QED
  BY <1>9, <1>11, <1>12

\* Where a program is read, the opcode of its next instruction is known.
LEMMA ProgramNext ==
    ASSUME TextInv, stage = "text", IsProgram(source), Len(pcb.text) < pcb.size,
           NEW begin \in Instructions(source, source[2].val), NEW p, p = At(source, begin, Len(pcb.text))
    PROVE  /\ ~failed /\ Complete(source, p) /\ p \in 1..(Len(source) + 1) /\ file = Rest(source, p)
           /\ begin[Len(pcb.text) + 1] = p
           /\ Scanned(<<"word">>, 1, opcode) = Text(source[p]) /\ Text(source[p]) \in Opcode
<1>1. /\ source \in Seq(Token) /\ ~failed /\ PcbType /\ IsNum(source, 2) /\ pcb.size = source[2].val
      /\ file = Rest(source, p)
  BY DEF TextInv, LoadType, ReadSoFar, ProgramSoFar
<1>2. PICK k \in Nat, size \in Int : k = Len(pcb.text) /\ size = pcb.size /\ k < size
  BY <1>1 DEF PcbType
<1>3. k = 0 \/ k <= size
  BY <1>2
<1>4. begin[k + 1] = p /\ Complete(source, begin[k + 1]) /\ p \in 1..(Len(source) + 1)
  BY <1>1, <1>2, <1>3, AtBounds
<1>5. Complete(source, p)
  BY <1>4
<1>6. Scanned(<<"word">>, 1, opcode) = Text(source[p])
  BY <1>1, <1>5, CompleteRead
<1> QED
  BY <1>1, <1>2, <1>4, <1>5, <1>6 DEF Complete

\* A round of the loop takes the next instruction.
LEMMA ReadInstStep ==
    ASSUME TextInv, ReadInst
    PROVE  PcbType' /\ ReadSoFar' /\ ProgramSoFar'
<1>1. source \in Seq(Token) /\ PcbType /\ ReadSoFar /\ ProgramSoFar /\ stage = "text"
  BY DEF TextInv, LoadType, ReadInst
<1>2. PICK op, format, inst :
         /\ op = Scanned(<<"word">>, 1, opcode) /\ format = <<"word">> \o Nums(Args(op))
         /\ inst = [opcode |-> op, args |-> [n \in 1..Args(op) |-> Scanned(format, n + 1, Unset)]]
  OBVIOUS
<1>3. /\ op \in Opcode /\ Scan(format) /\ source' = source /\ Len(pcb.text) < pcb.size
      /\ pcb' = [pcb EXCEPT !.text = Append(@, inst)]
  BY <1>2 DEF ReadInst
<1>4. PICK S : pcb.text \in Seq(S)
  BY <1>1 DEF PcbType
<1>5. PICK text, T, k, size :
         /\ text = pcb.text /\ T = S \cup {inst} /\ text \in Seq(T) /\ inst \in T
         /\ k = Len(text) /\ k \in Nat /\ size = pcb.size /\ size \in Int /\ k < size
  <2>1. pcb.text \in Seq(S \cup {inst}) /\ inst \in S \cup {inst}
    BY <1>4
  <2>2. Len(pcb.text) \in Nat /\ pcb.size \in Int
    BY <1>1, <1>4 DEF PcbType
  <2> QED
    BY <1>3, <2>1, <2>2, Zenon
<1>6. /\ Append(text, inst) \in Seq(T) /\ Len(Append(text, inst)) = k + 1
      /\ \A n \in 1..k : Append(text, inst)[n] = text[n]
      /\ Append(text, inst)[k + 1] = inst
  BY <1>5
<1>7. pcb' = [pid |-> pcb.pid, priority |-> pcb.priority, size |-> size, text |-> Append(text, inst)]
  BY <1>1, <1>3, <1>5 DEF PcbType
<1>8. pcb'.priority = pcb.priority /\ pcb'.size = size /\ pcb'.text = Append(text, inst) /\ Len(pcb'.text) = k + 1
  BY <1>6, <1>7
<1>9. PcbType'
  BY <1>5, <1>6, <1>7, <1>8 DEF PcbType
<1>10. failed => failed'
  BY <1>3 DEF Scan
<1>11. ReadSoFar'
  <2> SUFFICES ASSUME ~failed' PROVE ReadSoFar'
    BY DEF ReadSoFar
  <2>1. /\ IsNum(source, 1) /\ pcb.priority = source[1].val
        /\ IsNum(source, 2) /\ pcb.size = source[2].val
    BY <1>1, <1>10 DEF ReadSoFar
  <2>2. PICK begin \in Instructions(source, k) :
           /\ \A n \in 1..k : text[n] = Written(source, begin[n])
           /\ file = Rest(source, At(source, begin, k))
    BY <1>1, <1>5, <1>10 DEF ReadSoFar
  <2>3. PICK p \in 1..(Len(source) + 1) : p = At(source, begin, k)
    BY <1>1, <1>5, <2>1, <2>2, AtBounds
  <2>4. Complete(source, p) /\ file' = Rest(source, Behind(source, p)) /\ inst = Written(source, p)
    <3>1. file = Rest(source, p)
      BY <2>2, <2>3
    <3>2. Round(p, op, format)
      BY <1>1, <1>2, <1>3, <2>3, <3>1, RoundRead
    <3> QED
      BY <1>2, <3>2 DEF Round
  <2>5. PICK next : Extended(source, begin, k, p, next)
    BY <1>1, <1>5, <2>2, <2>3, <2>4, InstructionsExtend
  <2>6. /\ next \in Instructions(source, k + 1) /\ \A n \in 1..k : next[n] = begin[n]
        /\ next[k + 1] = p /\ At(source, next, k + 1) = Behind(source, p)
    BY <2>5 DEF Extended
  <2>7. ASSUME NEW n \in 1..(k + 1) PROVE Append(text, inst)[n] = Written(source, next[n])
    <3>1. n \in 1..k \/ n = k + 1
      BY <1>5
    <3> QED
      BY <1>6, <2>2, <2>4, <2>6, <3>1
  <2>8. file' = Rest(source, At(source, next, k + 1))
    BY <2>4, <2>6
  <2> QED
    BY <1>3, <1>5, <1>8, <2>1, <2>6, <2>7, <2>8 DEF ReadSoFar
<1>12. ProgramSoFar'
  <2> SUFFICES ASSUME IsProgram(source) PROVE ProgramSoFar'
    BY <1>3 DEF ProgramSoFar
  <2>1. ASSUME NEW begin \in Instructions(source, source[2].val)
        PROVE  ~failed' /\ file' = Rest(source, At(source, begin, k + 1))
    <3>1. PICK p : p = At(source, begin, k)
      OBVIOUS
    <3>2. /\ ~failed /\ Complete(source, p) /\ p \in 1..(Len(source) + 1) /\ file = Rest(source, p)
          /\ begin[k + 1] = p /\ op = Text(source[p])
      BY <1>1, <1>2, <1>3, <1>5, <3>1, ProgramNext
    <3>3. ~failed'
      BY <1>1, <1>2, <1>3, <3>2, CompleteRead
    <3>4. file' = Rest(source, Behind(source, p))
      <4>1. Round(p, op, format)
        BY <1>1, <1>2, <1>3, <3>2, <3>3, RoundRead
      <4> QED
        BY <4>1 DEF Round
    <3>5. k + 1 # 0
      BY <1>5
    <3> QED
      BY <3>2, <3>3, <3>4, <3>5 DEF At
  <2>2. Instructions(source, source[2].val) # {}
    BY DEF IsProgram
  <2> QED
    BY <1>3, <1>8, <2>1, <2>2 DEF ProgramSoFar
<1> QED
  BY <1>9, <1>11, <1>12

\* Every step of the program keeps what was read of the file as it is written.
LEMMA TextStep == TextInv /\ [Next]_vars => TextInv'
<1> SUFFICES ASSUME TextInv, [Next]_vars PROVE TextInv'
  OBVIOUS
<1>1. LoadType /\ LoadType'
  BY LoadTypeStep DEF TextInv, LoadType, vars
<1>2. CASE \/ ReadHeader \/ ReadMemory \/ ReadLine \/ ConfigRead \/ InitDevices
           \/ UnknownOpcode \/ Hand \/ (Over /\ stage \in {"open", "exit"})
  <2>1. stage' \notin {"size", "text"}
    BY <1>2 DEF ReadHeader, ReadMemory, ReadLine, ConfigRead, InitDevices, UnknownOpcode, Hand, Over, vars
  <2> QED
    BY <1>1, <2>1 DEF TextInv
<1>3. CASE Open
  <2>1. pcb' = [pid |-> i, priority |-> Unset, size |-> Unset, text |-> <<>>]
    BY <1>3 DEF Open
  <2>2. pcb'.pid = i /\ stage' # "text" /\ (stage' = "size" => file' = source' /\ ~failed')
    BY <1>3, <2>1 DEF Open
  <2> QED
    BY <1>1, <2>1, <2>2 DEF TextInv
<1>4. CASE ReadSize
  <2>1. stage' = "text"
    BY <1>4 DEF ReadSize
  <2> QED
    BY <1>1, <1>4, <2>1, ReadSizeStep DEF TextInv
<1>5. CASE ReadInst
  <2>1. stage' = "text"
    BY <1>5 DEF ReadInst
  <2> QED
    BY <1>1, <1>5, <2>1, ReadInstStep DEF TextInv
<1>6. CASE UNCHANGED vars
  BY <1>1, <1>6 DEF vars, TextInv, PcbType, ReadSoFar, ProgramSoFar
<1> QED
  BY <1>2, <1>3, <1>4, <1>5, <1>6 DEF Next, Over

\* load() and run() agree on every program file, of any length: what load()
\* accepts and reads without a failed conversion is a text with the arguments
\* that run() uses, kept as it is written, and it never refuses a program.
THEOREM ProgramAsWritten == Spec => []LoadedAsWritten
<1>1. Init => TextInv
  BY LoadTypeInit DEF Init, TextInv
<1>2. TextInv => LoadedAsWritten
  <2>1. ASSUME TextInv, stage = "text", IsProgram(source)
        PROVE  ~failed /\ (Len(pcb.text) < pcb.size => Scanned(<<"word">>, 1, opcode) \in Opcode)
    <3>1. ~failed
      BY <2>1 DEF TextInv, ProgramSoFar
    <3>2. PICK begin \in Instructions(source, source[2].val) : TRUE
      BY <2>1 DEF IsProgram
    <3>3. Len(pcb.text) < pcb.size => Scanned(<<"word">>, 1, opcode) \in Opcode
      BY <2>1, <3>2, ProgramNext
    <3> QED
      BY <3>1, <3>3
  <2>2. ASSUME TextInv, stage = "text", Len(pcb.text) = pcb.size, ~failed
        PROVE  /\ IsNum(source, 1) /\ pcb.priority = source[1].val
               /\ IsNum(source, 2) /\ pcb.size = source[2].val
               /\ \E begin \in Instructions(source, pcb.size) :
                     \A n \in 1..pcb.size : pcb.text[n] = Written(source, begin[n])
    BY <2>2 DEF TextInv, ReadSoFar
  <2> QED
    BY <2>1, <2>2 DEF LoadedAsWritten
<1> QED
  BY <1>1, <1>2, TextStep, PTL DEF Spec

=============================================================================
