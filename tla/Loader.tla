-------------------------------- MODULE Loader --------------------------------
(***************************************************************************)
(* What the program reads before and while it runs: the configuration file *)
(* (read_config() of src/os.c), the devices that are made from it          *)
(* (src/mm-memphy.c), and the program of each process (load() of           *)
(* src/loader.c, called by ld_routine()).                                  *)
(*                                                                         *)
(* A file is a sequence of tokens, numbers and words; a word does not      *)
(* begin with a digit.  Everything is read with fscanf(), whose result is  *)
(* never looked at: a conversion that fails leaves its token in the file,  *)
(* and its target and the targets behind it as they were.  Static targets  *)
(* are then 0; memory from malloc() and the stack is Unset.                *)
(*                                                                         *)
(* When a process is loaded it goes to the scheduler (module OS), so only  *)
(* the one that is being loaded is kept here.                              *)
(***************************************************************************)
EXTENDS Integers, Sequences, TLC

CONSTANTS
    Configs,          \* configuration files
    Programs,         \* program files
    Unset,            \* an uninitialized value
    PAGING_MAX_MMSWP, \* swap devices
    PAGING_PAGESZ,    \* bytes in a page
    INT_MAX,          \* greatest int
    MaxSize           \* bound of the model on an uninitialized size of a program

\* The tokens of a file.  The numbers are those that %d, %u and %lu all store as
\* they are written (a negative or greater one would wrap in an unsigned target),
\* and the words fit the buffers that %s stores them in: opcode of load() and
\* proc of read_config().
Token == [kind : {"num"}, val : 0..INT_MAX] \cup [kind : {"word"}, val : STRING]

ASSUME LoaderAssumption ==
    /\ Configs \subseteq Seq(Token)
    /\ Programs \subseteq Seq(Token)
    /\ PAGING_MAX_MMSWP \in Nat \ {0}
    /\ PAGING_PAGESZ \in Nat \ {0}
    /\ INT_MAX \in Nat
    /\ MaxSize \in 0..INT_MAX

VARIABLES
    stage,   \* what is read next
    file,    \* the tokens that are left in the open file
    source,  \* history: all its tokens
    failed,  \* history: a conversion failed on the open file
    config,  \* time_slot, num_cpus, num_processes, memramsz, memswpsz
    ld_processes, \* start_time, path and prio of each process
    name,    \* the buffer proc of read_config()
    devices, \* devices[d]: free_fp_list of mram (d = 0) and of mswp[d - 1]
    i,       \* index of the process that is read or loaded
    pcb,     \* the process that is being loaded
    opcode   \* the buffer opcode of load()

vars == <<stage, file, source, failed, config, ld_processes, name, devices, i, pcb, opcode>>

Init ==
    /\ stage = "header"
    /\ source \in Configs
    /\ file = source
    /\ failed = FALSE
    /\ config = [time_slot |-> 0, num_cpus |-> 0, num_processes |-> 0,
                 memramsz |-> 0, memswpsz |-> [s \in 1..PAGING_MAX_MMSWP |-> 0]]
    /\ ld_processes = <<>>
    /\ name = Unset
    /\ devices = <<>>
    /\ i = 1
    /\ pcb = Unset
    /\ opcode = Unset

-----------------------------------------------------------------------------
(* fscanf() *)

\* The conversions of a format: "num" for %d, %u and %lu, "word" for %s.  A
\* number can be read as a word.
Converts(f, n, kind) == n <= Len(f) /\ kind \in {f[n].kind, "word"}

\* How many conversions of a format succeed.
Matched(f, format) ==
    CHOOSE k \in 0..Len(format) :
        /\ \A n \in 1..k : Converts(f, n, format[n])
        /\ k < Len(format) => ~Converts(f, k + 1, format[k + 1])

\* The token as %s stores it.
Text(token) == IF token.kind = "num" THEN ToString(token.val) ELSE token.val

\* What target n of a format holds afterwards.
Scanned(format, n, old) ==
    IF n > Matched(file, format) THEN old
    ELSE IF format[n] = "word" THEN Text(file[n]) ELSE file[n].val

\* fscanf(file, format, ...): what it leaves in the file.
Scan(format) ==
    /\ file' = SubSeq(file, Matched(file, format) + 1, Len(file))
    /\ failed' = (failed \/ Matched(file, format) < Len(format))

Nums(n) == [m \in 1..n |-> "num"]

-----------------------------------------------------------------------------
(* read_config() and init_memphy() *)

\* The first line.  The arrays for the processes come from malloc().
ReadHeader ==
    LET format == Nums(3)
        num == Scanned(format, 3, 0)
    IN
    /\ stage = "header"
    /\ Scan(format)
    /\ config' = [config EXCEPT !.time_slot = Scanned(format, 1, 0),
                                !.num_cpus = Scanned(format, 2, 0), !.num_processes = num]
    /\ ld_processes' = [n \in 1..num |-> [start_time |-> Unset, path |-> Unset, prio |-> Unset]]
    /\ stage' = "memory"
    /\ UNCHANGED <<source, name, devices, i, pcb, opcode>>

\* The sizes of the devices: one call per number, which fail together from the
\* first token on that is not a number.
ReadMemory ==
    LET format == Nums(1 + PAGING_MAX_MMSWP) IN
    /\ stage = "memory"
    /\ Scan(format)
    /\ config' = [config EXCEPT !.memramsz = Scanned(format, 1, 0),
                     !.memswpsz = [s \in 1..PAGING_MAX_MMSWP |-> Scanned(format, s + 1, 0)]]
    /\ stage' = "lines"
    /\ UNCHANGED <<source, ld_processes, name, devices, i, pcb, opcode>>

\* Mutant: the priority is read before the path.
ReadLineSwapped ==
    LET format == <<"num", "num", "word">>
        path == Scanned(format, 3, name)
    IN
    /\ stage = "lines" /\ i <= config.num_processes
    /\ Scan(format)
    /\ ld_processes' = [ld_processes EXCEPT ![i] =
          [start_time |-> Scanned(format, 1, Unset), path |-> path, prio |-> Scanned(format, 2, Unset)]]
    /\ name' = path
    /\ i' = i + 1
    /\ UNCHANGED <<stage, source, config, devices, pcb, opcode>>

\* The line of a process; the buffer of the path keeps what it held.
ReadLine ==
    LET format == <<"num", "word", "num">>
        path == Scanned(format, 2, name)
    IN
    /\ stage = "lines" /\ i <= config.num_processes
    /\ Scan(format)
    /\ ld_processes' = [ld_processes EXCEPT ![i] =
          [start_time |-> Scanned(format, 1, Unset), path |-> path, prio |-> Scanned(format, 3, Unset)]]
    /\ name' = path
    /\ i' = i + 1
    /\ UNCHANGED <<stage, source, config, devices, pcb, opcode>>

ConfigRead ==
    /\ stage = "lines" /\ i > config.num_processes
    /\ stage' = "format"
    /\ UNCHANGED <<file, source, failed, config, ld_processes, name, devices, i, pcb, opcode>>

\* Mutant: one frame too many.
FormattedMore(size) ==
    [fpn |-> [n \in 1..(size \div PAGING_PAGESZ + 1) |-> n - 1], end |-> "NULL"]

\* MEMPHY_format(): the free frames.  Without a frame the list is not set; with
\* a single one its end is not.
Formatted(size) ==
    LET numfp == size \div PAGING_PAGESZ IN
    IF numfp <= 0 THEN Unset
    ELSE [fpn |-> [n \in 1..numfp |-> n - 1], end |-> IF numfp = 1 THEN Unset ELSE "NULL"]

\* The file that was read and the process that was made of it are not used again.
Forget == file' = <<>> /\ source' = <<>> /\ failed' = FALSE /\ pcb' = Unset

\* init_memphy() for each device; the loader thread starts.
InitDevices ==
    /\ stage = "format"
    /\ devices' = <<Formatted(config.memramsz)>>
                  \o [s \in 1..PAGING_MAX_MMSWP |-> Formatted(config.memswpsz[s])]
    /\ i' = 1
    /\ stage' = "open"
    /\ Forget
    /\ UNCHANGED <<config, ld_processes, name, opcode>>

-----------------------------------------------------------------------------
(* load(), in the loop of ld_routine() *)

\* The file is there, or it is not and the program exits.  A path that was never
\* read may by chance be empty, which opens the directory: nothing can be read.
Open ==
    /\ stage = "open" /\ i <= config.num_processes
    /\ pcb' = [pid |-> i, priority |-> Unset, size |-> Unset, text |-> <<>>]
    /\ \/ stage' = "exit" /\ UNCHANGED <<file, source, failed>>
       \/ /\ stage' = "size"
          /\ source' \in IF ld_processes[i].path = Unset THEN {<<>>} ELSE Programs
          /\ file' = source'
          /\ failed' = FALSE
    /\ opcode' \in {opcode, Unset} \* the place on the stack may have been used
    /\ UNCHANGED <<config, ld_processes, name, devices, i>>

\* priority and size
ReadSize ==
    LET format == Nums(2) IN
    /\ stage = "size"
    /\ Scan(format)
    /\ \E junk \in 0..MaxSize :
          pcb' = [pcb EXCEPT !.priority = Scanned(format, 1, Unset), !.size = Scanned(format, 2, junk)]
    /\ stage' = "text"
    /\ UNCHANGED <<source, config, ld_processes, name, devices, i, opcode>>

Opcode == {"calc", "alloc", "free", "read", "write"}

\* Mutant: FREE has two arguments.
ArgsTwo(op) ==
    CASE op = "calc" -> 0 [] op \in {"alloc", "free"} -> 2 [] op \in {"read", "write"} -> 3

\* The arguments that load() reads for an instruction.
Args(op) ==
    CASE op = "calc" -> 0 [] op = "free" -> 1 [] op = "alloc" -> 2 [] op \in {"read", "write"} -> 3

\* One round of the loop: the opcode, which stays what it was at the end of the
\* file, and its arguments.
ReadInst ==
    LET op == Scanned(<<"word">>, 1, opcode)
        format == <<"word">> \o Nums(Args(op))
    IN
    /\ stage = "text" /\ Len(pcb.text) < pcb.size
    /\ op \in Opcode
    /\ Scan(format)
    /\ opcode' = op
    /\ pcb' = [pcb EXCEPT !.text = Append(@,
          [opcode |-> op, args |-> [n \in 1..Args(op) |-> Scanned(format, n + 1, Unset)]])]
    /\ UNCHANGED <<stage, source, config, ld_processes, name, devices, i>>

\* get_opcode() does not know the word.
UnknownOpcode ==
    /\ stage = "text" /\ Len(pcb.text) < pcb.size
    /\ Scanned(<<"word">>, 1, opcode) \notin Opcode
    /\ stage' = "exit"
    /\ UNCHANGED <<file, source, failed, config, ld_processes, name, devices, i, pcb, opcode>>

\* The process is complete and goes to the scheduler, with the start time and the
\* priority of its line (LdWait and LdAdd of OS) and a fresh mm (MemInit of Memory).
Hand ==
    /\ stage = "text" /\ Len(pcb.text) = pcb.size
    /\ stage' = "open"
    /\ i' = i + 1
    /\ Forget
    /\ UNCHANGED <<config, ld_processes, name, devices, opcode>>

\* All processes are loaded, or the program has exited.
Over ==
    /\ stage = "exit" \/ (stage = "open" /\ i > config.num_processes)
    /\ UNCHANGED vars

Next ==
    \/ ReadHeader \/ ReadMemory \/ ReadLine \/ ConfigRead \/ InitDevices
    \/ Open \/ ReadSize \/ ReadInst \/ UnknownOpcode \/ Hand \/ Over

Spec == Init /\ [][Next]_vars

-----------------------------------------------------------------------------
(* Properties *)

IsNum(f, n) == n \in DOMAIN f /\ f[n].kind = "num"

\* The configuration format that the comments of read_config() describe: three
\* numbers, the sizes of RAM and of each swap device, and for each process its
\* start time, its name and its priority.
ConfigLine(n) == 3 * n + 2 + PAGING_MAX_MMSWP

IsConfig(f) ==
    /\ \A n \in 1..(4 + PAGING_MAX_MMSWP) : IsNum(f, n)
    /\ \A n \in 1..f[3].val :
          /\ IsNum(f, ConfigLine(n))
          /\ ConfigLine(n) + 1 \in DOMAIN f
          /\ IsNum(f, ConfigLine(n) + 2)

\* A configuration in that format is read as it is written, to the last line.
ConfigAsWritten ==
    stage = "format" /\ IsConfig(source) =>
        /\ ~failed
        /\ <<config.time_slot, config.num_cpus, config.num_processes, config.memramsz>>
             = [n \in 1..4 |-> source[n].val]
        /\ \A s \in 1..PAGING_MAX_MMSWP : config.memswpsz[s] = source[4 + s].val
        /\ \A n \in 1..config.num_processes :
              LET line == ConfigLine(n) IN
              ld_processes[n] = [start_time |-> source[line].val, path |-> Text(source[line + 1]),
                                 prio |-> source[line + 2].val]

\* "must have RAM and at least 1 SWAP" (read_config()): with two frames or more
\* each device begins as Paging assumes, with its frames in order, all of them
\* inside the device, and none left out.
DevicesReady ==
    \A d \in DOMAIN devices :
        LET size == IF d = 1 THEN config.memramsz ELSE config.memswpsz[d - 1] IN
        size >= 2 * PAGING_PAGESZ =>
            /\ devices[d].end = "NULL"
            /\ \A n \in DOMAIN devices[d].fpn : devices[d].fpn[n] = n - 1
            /\ Len(devices[d].fpn) * PAGING_PAGESZ \in (size - PAGING_PAGESZ + 1)..size

\* How many arguments run() passes to the operation of an instruction.
RunArgs == [op \in Opcode |-> CASE op = "calc" -> 0 [] op = "free" -> 1
                                [] op = "alloc" -> 2 [] op \in {"read", "write"} -> 3]

\* An instruction that begins at pos, with all its arguments, and where the next
\* one begins.
Complete(f, pos) ==
    /\ pos \in DOMAIN f /\ Text(f[pos]) \in Opcode
    /\ \A n \in 1..RunArgs[Text(f[pos])] : IsNum(f, pos + n)

Behind(f, pos) == pos + RunArgs[Text(f[pos])] + 1

\* As many instructions as the size says, one behind the other from the third
\* token on; begin[n] is where instruction n begins.
Instructions(f, size) ==
    {begin \in [1..size -> DOMAIN f] :
        \A n \in 1..size : /\ Complete(f, begin[n])
                          /\ begin[n] = IF n = 1 THEN 3 ELSE Behind(f, begin[n - 1])}

\* A program: priority, size, and as many instructions, with the arguments that
\* run() needs.
IsProgram(f) == IsNum(f, 1) /\ IsNum(f, 2) /\ Instructions(f, f[2].val) # {}

\* The instruction that is written at pos.
Written(f, pos) ==
    [opcode |-> Text(f[pos]), args |-> [m \in 1..RunArgs[Text(f[pos])] |-> f[pos + m].val]]

\* load() and run() agree on the instructions: what load() accepts and reads
\* without a failed conversion is a program with the arguments that run() uses,
\* and is kept as it is written; a program is never refused.
LoadedAsWritten ==
    /\ stage = "text" /\ IsProgram(source) =>
          ~failed /\ (Len(pcb.text) < pcb.size => Scanned(<<"word">>, 1, opcode) \in Opcode)
    /\ stage = "text" /\ Len(pcb.text) = pcb.size /\ ~failed =>
          /\ IsNum(source, 1) /\ pcb.priority = source[1].val
          /\ IsNum(source, 2) /\ pcb.size = source[2].val
          /\ \E begin \in Instructions(source, pcb.size) :
                \A n \in 1..pcb.size : pcb.text[n] = Written(source, begin[n])

=============================================================================
