------------------------------ MODULE FlashFs -------------------------------
(***************************************************************************)
(* The FAT file system in emulated flash seen from the host: the driver    *)
(* (fatfs.c), the FUSE operations (fuse_mount.c), the guest's erase and    *)
(* program calls (rom.c) and the write-through flash file (storage.c).     *)
(*                                                                         *)
(* The FATs are bytes, so that the twelve-bit packing is the code's; a     *)
(* cluster is ClusterSize bytes; a host name is its part before the last   *)
(* dot and its extension.  Every operation runs under fuse_flash_mutex,    *)
(* its flash_persist_sync included: it changes the memory and then writes  *)
(* the file part by part, and only a kill can come between.  History:      *)
(* want is what each file should hold, saved the same for the flash file,  *)
(* behind that an operation failed after it had changed the memory.        *)
(***************************************************************************)
EXTENDS Integers, Sequences, FiniteSetsExt

CONSTANTS
    Kinds,         \* subset of {"fat12", "fat16", "none"}: what the flash holds
    NClusters,     \* total_clusters
    ClusterSize,   \* cluster_size
    MaxSize,       \* bound on a file's size
    MaxName,       \* 8: characters kept of a name
    MaxExt,        \* 3: characters kept of an extension
    MaxOps,        \* bound on the operations of a history
    Names          \* host names in use: <<base, extension>>

VARIABLE ff

Clusters == 2..(NClusters + 1)
Slots == 1..3
Nothing == <<-1>>
Mark == 1
Erased == 255

-----------------------------------------------------------------------------
\* Names.

\* toupper on the two letters used here.
Upper(ch) == IF ch = "a" THEN "A" ELSE IF ch = "b" THEN "B" ELSE ch
Padded(s, n) == [i \in 1..n |-> IF i <= Len(s) THEN Upper(s[i]) ELSE " "]
Trimmed(s) == SelectSeq(s, LAMBDA ch : ch # " ")

\* name_to_fat83: cut to 8 and 3, upper case, padded with spaces.
NameToFat83(name) == <<Padded(name[1], MaxName), Padded(name[2], MaxExt)>>
\* fat83_to_name: trailing spaces trimmed (no name here has one inside).
Fat83ToName(short) == <<Trimmed(short[1]), Trimmed(short[2])>>

FatNames == {NameToFat83(n) : n \in Names}

-----------------------------------------------------------------------------
\* The FAT.

Read16(f, off) == f[off] + 256 * f[off + 1]
Write16(f, off, v) == [f EXCEPT ![off] = v % 256, ![off + 1] = v \div 256]

FatRead(m, c) ==
    IF m.kind = "fat12"
    THEN LET v == Read16(m.fat, (c * 3) \div 2)
         IN IF c % 2 = 1 THEN v \div 16 ELSE v % 4096
    ELSE Read16(m.fat, c * 2)

FatEoc(m) == IF m.kind = "fat12" THEN \hFF8 ELSE \hFFF8
FatIsEoc(m, v) == v >= FatEoc(m)

\* Variant: the twelve bits are stored without the neighbour's nibble.
FatWriteClobbers(m, c, v) ==
    LET off == IF m.kind = "fat12" THEN (c * 3) \div 2 ELSE c * 2
        word == IF m.kind = "fat12" /\ c % 2 = 1 THEN (v * 16) % 65536 ELSE v
    IN [m EXCEPT !.fat = Write16(@, off, word), !.fat2 = Write16(@, off, word)]

\* fat_write: twelve bits keep the neighbour's nibble; both copies are written.
FatWrite(m, c, v) ==
    LET off == IF m.kind = "fat12" THEN (c * 3) \div 2 ELSE c * 2
        cur == Read16(m.fat, off)
        word == CASE m.kind = "fat16" -> v
                  [] m.kind = "fat12" /\ c % 2 = 1 -> (cur % 16) + ((v * 16) % 65536)
                  [] OTHER -> (cur \div 4096) * 4096 + (v % 4096)
    IN [m EXCEPT !.fat = Write16(@, off, word), !.fat2 = Write16(@, off, word)]

\* fat_alloc: the lowest free cluster, marked as an end of chain; 0 when full.
FreeClusters(m) == {c \in Clusters : FatRead(m, c) = 0}
FatAlloc(m) == IF FreeClusters(m) = {} THEN 0 ELSE Min(FreeClusters(m))

RECURSIVE FatFreeChain(_, _)
FatFreeChain(m, c) ==
    IF c >= 2 /\ ~FatIsEoc(m, c) THEN FatFreeChain(FatWrite(m, c, 0), FatRead(m, c)) ELSE m

\* fat16_free_space.
FreeSpace(m) == Cardinality(FreeClusters(m)) * ClusterSize

-----------------------------------------------------------------------------
\* The root directory.

Unused == [st |-> "end", name |-> Nothing, attr |-> "none", size |-> 0, cluster |-> 0]
Label == [st |-> "used", name |-> <<"label">>, attr |-> "volume", size |-> 0, cluster |-> 0]

Reached(m) == {i \in Slots : \A j \in 1..i : m.dir[j].st # "end"}

\* find_dirent: stops at the first entry never used; 0 when absent.
FindDirent(m, short) ==
    LET hits == {i \in Reached(m) : /\ m.dir[i].st = "used"
                                    /\ m.dir[i].attr # "lfn"
                                    /\ m.dir[i].name = short}
    IN IF hits = {} THEN 0 ELSE Min(hits)

FindFreeDirent(m) ==
    LET free == {i \in Slots : m.dir[i].st \in {"end", "deleted"}}
    IN IF free = {} THEN 0 ELSE Min(free)

\* fat16_list_root: what readdir shows.
ListRoot(m) ==
    {i \in Reached(m) : m.dir[i].st = "used" /\ m.dir[i].attr \notin {"lfn", "volume"}}

\* fat16_stat.
Exists(m, name) == FindDirent(m, NameToFat83(name)) # 0
SizeOf(m, name) == m.dir[FindDirent(m, NameToFat83(name))].size

-----------------------------------------------------------------------------
\* Files.

RECURSIVE ChainBytes(_, _, _)
ChainBytes(m, c, remaining) ==
    IF remaining = 0 \/ c \notin Clusters THEN <<>>
    ELSE LET chunk == Min({ClusterSize, remaining})
         IN SubSeq(m.data[c], 1, chunk) \o ChainBytes(m, FatRead(m, c), remaining - chunk)

\* fat16_read_file of an existing file, at most n bytes.
ReadFile(m, name, n) ==
    LET de == m.dir[FindDirent(m, NameToFat83(name))]
    IN ChainBytes(m, de.cluster, Min({n, de.size}))

\* picoemu_read: the requested range out of the whole file.
ReadAt(m, name, size, offset) ==
    IF ~Exists(m, name) \/ offset >= SizeOf(m, name) THEN <<>>
    ELSE SubSeq(ReadFile(m, name, SizeOf(m, name)), offset + 1,
                offset + Min({size, SizeOf(m, name) - offset}))

\* fat16_write_file, allocating: the chain so far hangs off first, ends at prev.
RECURSIVE AllocChain(_, _, _, _)
AllocChain(m, n, first, prev) ==
    LET c == FatAlloc(m)
        marked == FatWrite(m, c, FatEoc(m))
    IN CASE n = 0 -> [m |-> m, first |-> first]
         [] n > 0 /\ c = 0 -> [m |-> IF first # 0 THEN FatFreeChain(m, first) ELSE m, first |-> 0]
         [] OTHER -> AllocChain(IF prev = 0 THEN marked ELSE FatWrite(marked, prev, c), n - 1,
                                IF prev = 0 THEN c ELSE first, c)

\* fat16_write_file, copying: the rest of the last cluster is zeroed.
RECURSIVE FillChain(_, _, _)
FillChain(m, c, bytes) ==
    IF bytes = <<>> \/ c \notin Clusters THEN m
    ELSE LET block == [i \in 1..ClusterSize |-> IF i <= Len(bytes) THEN bytes[i] ELSE 0]
         IN FillChain([m EXCEPT !.data[c] = block], FatRead(m, c),
                      SubSeq(bytes, ClusterSize + 1, Len(bytes)))

Needed(size) == Max({1, (size + ClusterSize - 1) \div ClusterSize})

\* The entry is marked deleted and the chain freed (also fat16_delete_file).
DeleteAt(m, i) ==
    [FatFreeChain(m, m.dir[i].cluster) EXCEPT !.dir[i].st = "deleted", !.dir[i].name = Nothing]

\* fat16_write_file: an existing file goes first; ok tells the return value.
WriteFile(m, name, bytes) ==
    LET short == NameToFat83(name)
        old == FindDirent(m, short)
        clean == IF old # 0 THEN DeleteAt(m, old) ELSE m
        de == FindFreeDirent(clean)
        alloc == AllocChain(clean, Needed(Len(bytes)), 0, 0)
        entry == [st |-> "used", name |-> short, attr |-> "archive", size |-> Len(bytes),
                  cluster |-> alloc.first]
    IN IF de = 0 THEN [m |-> clean, ok |-> FALSE]
       ELSE IF alloc.first = 0 THEN [m |-> alloc.m, ok |-> FALSE]
       ELSE [m |-> [FillChain(alloc.m, alloc.first, bytes) EXCEPT !.dir[de] = entry], ok |-> TRUE]

-----------------------------------------------------------------------------
\* The flash and its file.

Formatted(kind) ==
    [kind |-> kind,
     fat |-> [i \in 0..(2 * NClusters + 3) |->
                 IF i = 0 THEN \hF8 ELSE IF i <= (IF kind = "fat12" THEN 2 ELSE 3) THEN \hFF ELSE 0],
     fat2 |-> [i \in 0..(2 * NClusters + 3) |->
                 IF i = 0 THEN \hF8 ELSE IF i <= (IF kind = "fat12" THEN 2 ELSE 3) THEN \hFF ELSE 0],
     dir |-> [i \in Slots |-> IF i = 1 THEN Label ELSE Unused],
     data |-> [c \in Clusters |-> [i \in 1..ClusterSize |-> Erased]]]

\* fat16_mount: whether the region holds a file system of a supported type.
Mountable(m) == m.kind \in {"fat12", "fat16"}

NoFiles == [s \in FatNames |-> Nothing]

\* flash_persist_open: the file holds the flash; nothing is mounted yet.
Init ==
    \E kind \in Kinds :
        ff = [mem |-> Formatted(kind), file |-> Formatted(kind), pc |-> "start", parts |-> <<>>,
              want |-> NoFiles, saved |-> NoFiles, behind |-> FALSE, ops |-> 0]

\* fuse_mount_start: a region that cannot be mounted gets no FUSE thread.
MountStart ==
    /\ ff.pc = "start"
    /\ ff' = [ff EXCEPT !.pc = IF Mountable(ff.mem) THEN "idle" ELSE "alone"]

Region == <<{"fat", "fat2"}, {"dir", "data"}>>

\* fuse_persist_sync begins: the whole region, in the order of its addresses.
PersistSync(f) == [f EXCEPT !.pc = "sync", !.parts = Region]

\* flash_persist_sync, one piece of the fwrite reaching the file.
SyncStep ==
    /\ ff.pc = "sync"
    /\ LET part == Head(ff.parts)
           file == [k \in DOMAIN ff.file |-> IF k \in part THEN ff.mem[k] ELSE ff.file[k]]
           last == Len(ff.parts) = 1
       IN ff' = [ff EXCEPT !.file = file, !.parts = Tail(@),
                           !.pc = IF last THEN "idle" ELSE "sync",
                           !.saved = IF last THEN ff.want ELSE @,
                           !.behind = IF last THEN FALSE ELSE @]

\* The mutex is free.
Free == ff.pc = "idle" /\ ff.ops < MaxOps

\* The tail of every modifying operation: only a success is written through.
Finish(f, name, r, bytes) ==
    LET short == NameToFat83(name)
    IN IF r.ok
       THEN PersistSync([f EXCEPT !.mem = r.m, !.want[short] = bytes, !.ops = @ + 1])
       ELSE [f EXCEPT !.ops = @ + 1, !.mem = r.m, !.want[short] = Nothing, !.behind = @ \/ r.m # f.mem]

\* picoemu_create.
Create(name) ==
    /\ Free
    /\ ff' = Finish(ff, name, WriteFile(ff.mem, name, <<>>), <<>>)

\* The bytes of old with buf laid over them at offset, zeroes in a gap.
Overlay(old, buf, offset) ==
    [i \in 1..Max({Len(old), offset + Len(buf)}) |->
        IF i > offset /\ i <= offset + Len(buf) THEN buf[i - offset]
        ELSE IF i <= Len(old) THEN old[i] ELSE 0]

Contents(m, name) == IF Exists(m, name) THEN ReadFile(m, name, SizeOf(m, name)) ELSE <<>>
Wanted(name) == IF ff.want[NameToFat83(name)] = Nothing THEN <<>> ELSE ff.want[NameToFat83(name)]

\* picoemu_write: the file is read whole, changed and written whole.
Write(name, buf, offset) ==
    /\ Free
    /\ ff' = Finish(ff, name, WriteFile(ff.mem, name, Overlay(Contents(ff.mem, name), buf, offset)),
                    Overlay(Wanted(name), buf, offset))

\* picoemu_truncate: to nothing, it also makes the file.
Resized(old, n) == [i \in 1..n |-> IF i <= Len(old) THEN old[i] ELSE 0]
Truncate(name, n) ==
    /\ Free
    /\ n = 0 \/ Exists(ff.mem, name)
    /\ LET kept == IF n = 0 THEN <<>> ELSE ReadFile(ff.mem, name, n)
       IN ff' = Finish(ff, name, WriteFile(ff.mem, name, Resized(kept, n)), Resized(Wanted(name), n))

\* picoemu_unlink.
Unlink(name) ==
    /\ Free
    /\ Exists(ff.mem, name)
    /\ ff' = PersistSync([ff EXCEPT !.mem = DeleteAt(@, FindDirent(ff.mem, NameToFat83(name))),
                                    !.want[NameToFat83(name)] = Nothing, !.ops = @ + 1])

RECURSIVE ChainFrom(_, _)
ChainFrom(m, c) == IF c \notin Clusters THEN <<>> ELSE <<c>> \o ChainFrom(m, FatRead(m, c))
ChainOf(m, short) == ChainFrom(m, m.dir[FindDirent(m, short)].cluster)

\* rom_intercept_flash: the guest rewrites a cluster of one of its files,
\* and that range alone is written through.  What the files hold follows.
GuestRewrites(c, byte) ==
    /\ Free
    /\ LET block == [i \in 1..ClusterSize |-> byte]
           Follow(held) ==
               [s \in FatNames |->
                   IF held[s] # Nothing /\ FindDirent(ff.mem, s) # 0
                   THEN [i \in DOMAIN held[s] |->
                            LET k == (i - 1) \div ClusterSize + 1 IN
                            IF k \in DOMAIN ChainOf(ff.mem, s) /\ ChainOf(ff.mem, s)[k] = c
                            THEN byte ELSE held[s][i]]
                   ELSE held[s]]
       IN ff' = [ff EXCEPT !.mem.data[c] = block, !.file.data[c] = block,
                           !.want = Follow(@), !.saved = Follow(@), !.ops = @ + 1]
FlashRangeErase(c) == GuestRewrites(c, Erased)
FlashRangeProgram(c) == GuestRewrites(c, Mark)

\* fuse_mount_stop joins the thread; flash_persist_save_all fills a temporary
\* file, which a kill leaves behind, and renames it; when the temporary file
\* cannot be opened it writes the flash file itself, which a kill tears.
SaveBegin ==
    /\ ff.pc \in {"idle", "alone"}
    /\ \E way \in {"save", "inplace"} : ff' = [ff EXCEPT !.pc = way]
SaveEnd ==
    /\ ff.pc \in {"save", "inplace"}
    /\ ff' = [ff EXCEPT !.file = ff.mem, !.saved = ff.want, !.behind = FALSE, !.pc = "gone"]

\* The process is killed, in the middle of a write-through or a save too.
Kill ==
    /\ ff.pc \in {"idle", "alone", "save", "inplace", "sync"}
    /\ LET tears == ff.pc = "inplace" \/ (ff.pc = "sync" /\ ff.parts # Region)
       IN  ff' = [ff EXCEPT !.pc = IF tears THEN "torn" ELSE "gone"]

\* main: the flash is restored from its file and opened for write-through.  The
\* file system lies in sectors without firmware, all of which are restored.
Restart ==
    /\ ff.pc = "gone"
    /\ ff' = [ff EXCEPT !.mem = ff.file, !.want = ff.saved, !.pc = "start", !.parts = <<>>,
                        !.behind = FALSE]

\* A file torn by the kill is thrown away for a freshly formatted one.
Replace ==
    /\ ff.pc = "torn"
    /\ ff' = [ff EXCEPT !.file = Formatted(ff.mem.kind), !.saved = NoFiles, !.pc = "gone"]

Owned(m) ==
    {c \in Clusters : \E i \in ListRoot(m), k \in 1..NClusters :
        LET chain == ChainFrom(m, m.dir[i].cluster) IN k <= Len(chain) /\ chain[k] = c}

Next ==
    \/ MountStart
    \/ SyncStep
    \/ \E name \in Names :
           \/ Create(name)
           \/ \E offset \in 0..(MaxSize - 1) : Write(name, <<Mark>>, offset)
           \/ \E n \in 0..MaxSize : Truncate(name, n)
           \/ Unlink(name)
    \/ \E c \in Owned(ff.mem) : FlashRangeErase(c) \/ FlashRangeProgram(c)
    \/ SaveBegin \/ SaveEnd \/ Kill \/ Replace \/ Restart

Spec == Init /\ [][Next]_ff

-----------------------------------------------------------------------------
\* What is claimed.

Listed(m) == {<<Fat83ToName(m.dir[i].name), m.dir[i].size>> : i \in ListRoot(m)}

\* A region whose files are the given ones: every listed file is found by its
\* name, its chain ends properly and is as long as its size needs, no cluster
\* is in two chains or lost, both FATs agree, and the bytes read back.
Holds(m, held) ==
    LET files == {s \in FatNames : held[s] # Nothing}
    IN /\ m.fat = m.fat2
       /\ \A s \in FatNames : (FindDirent(m, s) # 0) <=> s \in files
       /\ Listed(m) = {<<Fat83ToName(s), Len(held[s])>> : s \in files}
       /\ Cardinality(ListRoot(m)) = Cardinality(files)
       /\ \A s \in files :
              LET chain == ChainOf(m, s)
                  de == m.dir[FindDirent(m, s)]
              IN /\ Len(chain) = Needed(de.size)
                 /\ FatIsEoc(m, FatRead(m, chain[Len(chain)]))
       /\ \A name \in Names, offset \in {0, 1} :
              LET want == held[NameToFat83(name)] IN
              ReadAt(m, name, MaxSize, offset)
                  = IF want = Nothing THEN <<>> ELSE SubSeq(want, offset + 1, Len(want))
       /\ FreeSpace(m) + ClusterSize * MapThenSumSet(LAMBDA s : Len(ChainOf(m, s)), files)
              = ClusterSize * NClusters

\* The flash always holds exactly the files the operations made (fatfs.c, whatever
\* the packing, the failures and the guest's writes between), a killed process
\* finds on restart what it had written through, unless the kill tore a write in
\* two, and the flash file is current between operations ("keeps the flash file
\* always in sync", storage.c:4) unless one failed half-way.
FlashHonest ==
    /\ ff.pc # "torn" /\ Mountable(ff.mem) => Holds(ff.mem, ff.want)
    /\ ff.pc \in {"idle", "gone", "start"} /\ Mountable(ff.mem) => Holds(ff.file, ff.saved)
    /\ ff.pc = "idle" /\ ~ff.behind => ff.file = ff.mem

\* storage.c:4: "Keeps the flash file always in sync with emulator memory".
FileCurrent == ff.pc = "idle" => ff.file = ff.mem

=============================================================================
