-------------------------------- MODULE Xfs --------------------------------
(***************************************************************************)
(* The file system of kernel/fs/xfs.c on a device that can lose power.     *)
(* Every call runs under xfs_lock with interrupts off, so calls exclude    *)
(* each other; what they cannot exclude is a crash between two of their    *)
(* block writes.  A call therefore starts by fixing, from the blocks it    *)
(* reads, the writes it will make, in program order (`pending`), and each  *)
(* of them is a step.  A crash drops the rest and all descriptors; the     *)
(* next boot mounts what is on the device.                                 *)
(***************************************************************************)
EXTENDS XfsTree

CONSTANTS
    MaxDirect,      \* 900, the block pointers of an inode
    MaxFds,         \* XFS_MAX_FDS
    Procs,
    Paths,          \* the paths programs use: sequences of names
    SeedName,       \* the file of the image
    Modes,          \* whether programs open for writing (XFS_O_WRONLY or XFS_O_RDWR)
    Lens,           \* bound: the lengths programs read, write and seek to
    MaxSize,        \* bound: the end of a write
    MaxCalls,       \* bound: calls that write
    MaxBoots,       \* bound: crashes
    Uses            \* what programs and the power supply do beyond the limits
                    \* that the code relies on (see Within)

ASSUME XfsAssumption ==
    /\ Total \in Nat /\ Total > Root + 4 /\ MaxDirect >= 2 /\ BlockSize \in Nat \ {0}
    /\ MaxCalls \in Nat /\ MaxCalls < Junk
    /\ DirSlots \in Nat \ {0} /\ DirSlots <= BlockSize
    /\ Lens \subseteq Nat \ {0} /\ Modes \subseteq BOOLEAN
    /\ Uses \subseteq {"gap", "unlink_open", "write_dir", "dirty_dir", "file_as_dir",
                       "shrink_crash", "format_crash"}

VARIABLES
    super,          \* block 0 has the magic number
    bitmap,         \* the blocks marked as used
    mounted, fds,   \* g_fds
    pending,        \* the block writes the running call has still to make
    doing,          \* the running call, its path, the path's value before and after
    tree,           \* what the paths name, as the device has it: View
    calls, boots

disk == <<super, bitmap, block, tree>>
vars == <<disk, mounted, fds, pending, doing, calls, boots>>

NoFd == [used |-> FALSE]
Nothing == [kind |-> "none"]

\* A device that was never formatted, which holds anything, or the image that
\* xfs_mkfs made, with a file in it.
Seed == BlockSize + 1
Init ==
    /\ \/ /\ super = FALSE /\ bitmap = 0 .. Total - 1
          /\ block = [b \in Blocks |-> Data([k \in Pos |-> Junk])]
       \/ /\ super = TRUE /\ bitmap = 0 .. Root + 4
          /\ block = [b \in Blocks |->
                CASE b = Root -> Inode(TRUE, 0, <<Root + 1>>)
                  [] b = Root + 1 -> Dirents([s \in Slots |->
                        IF s = 1 THEN [name |-> SeedName, ino |-> Root + 2] ELSE NoEnt])
                  [] b = Root + 2 -> Inode(FALSE, Seed, <<Root + 3, Root + 4>>)
                  [] b \in {Root + 3, Root + 4} -> Data([k \in Pos |-> Junk])
                  [] OTHER -> Zero]
    /\ mounted = FALSE /\ fds = [i \in 1..MaxFds |-> NoFd]
    /\ pending = <<>> /\ doing = Nothing /\ calls = 0 /\ boots = 0
    /\ tree = [path \in Paths |-> View(path)]

Within(use) == use \notin Uses

-----------------------------------------------------------------------------
Store == INSTANCE FileStore WITH
    call <- IF doing.kind \in {"none", "format"} THEN [kind |-> "none"]
            ELSE [kind |-> "call", path |-> doing.path, old |-> doing.old, new |-> doing.new]

-----------------------------------------------------------------------------
(* Writing it. *)

SetBit(b) == [to |-> "bitmap", at |-> b, used |-> TRUE]
free_block(b) == [to |-> "bitmap", at |-> b, used |-> FALSE]
Put(b, c) == [to |-> "block", at |-> b, content |-> c]

\* The device with one more block written.
After(w) == INSTANCE XfsTree WITH block <- [block EXCEPT ![w.at] = w.content]

\* The call returns, and xfs_lock is released, after its last write.
Returns == Len(pending) = 1

\* One block_write of the running call.
block_write ==
    /\ pending # <<>>
    /\ LET w == Head(pending)
       IN  /\ super' = (super \/ w.to = "super")
           /\ bitmap' = CASE w.to = "clear" -> {}
                          [] w.to = "bitmap" /\ w.used -> bitmap \cup {w.at}
                          [] w.to = "bitmap" /\ ~w.used -> bitmap \ {w.at}
                          [] OTHER -> bitmap
           /\ block' = IF w.to = "block" THEN [block EXCEPT ![w.at] = w.content] ELSE block
           /\ tree' = IF w.to = "block"
                      THEN [path \in Paths |-> After(w)!View(path)] ELSE tree
    /\ pending' = Tail(pending)
    /\ doing' = IF Returns THEN Nothing ELSE doing
    /\ UNCHANGED <<mounted, fds, calls, boots>>

\* alloc_block takes the lowest free block: the first n of them in order, or as
\* many as there are.
FreeBlocks == Blocks \ bitmap
alloc_blocks(n) ==
    [k \in 1..Min({n, Cardinality(FreeBlocks)}) |->
        CHOOSE b \in FreeBlocks : Cardinality({c \in FreeBlocks : c < b}) = k - 1]

\* xfs_lock is free.
Idle == mounted /\ pending = <<>>
Ready == Idle /\ calls < MaxCalls

\* A call that writes.
Call(kind, path, new, writes) ==
    /\ Ready /\ writes # <<>>
    /\ pending' = writes
    /\ doing' = [kind |-> kind, path |-> path, old |-> tree[path], new |-> new]
    /\ calls' = calls + 1
    /\ UNCHANGED <<disk, mounted, boots>>

\* Mutant: the device is not cleared.
ClearedNot == <<>>
Cleared == <<[to |-> "clear"]>> \o [k \in 1..(Total - Root) |-> Put(Root + k - 1, Zero)]

\* The superblock comes before the bitmap and the root directory.
xfs_format ==
    /\ ~mounted /\ ~super /\ pending = <<>>
    /\ pending' = Cleared
                  \o <<[to |-> "super"]>>
                  \o [k \in 1..(Root + 2) |-> SetBit(k - 1)]
                  \o <<Put(Root, Inode(TRUE, 0, <<Root + 1>>))>>
    /\ doing' = [kind |-> "format"]
    /\ UNCHANGED <<disk, mounted, fds, calls, boots>>

xfs_mount ==
    /\ ~mounted /\ super /\ pending = <<>>
    /\ mounted' = TRUE
    /\ fds' = [i \in 1..MaxFds |-> NoFd]
    /\ UNCHANGED <<disk, pending, doing, calls, boots>>

\* The machine stops between two writes.  Bits of the bitmap that a format or
\* a truncation still has to bring in line are beyond the limits.
Crash ==
    /\ boots < MaxBoots /\ (mounted \/ pending # <<>>)
    /\ doing.kind = "format" /\ super => ~Within("format_crash")
    /\ doing.kind = "shrink" => ~Within("shrink_crash")
    /\ mounted' = FALSE /\ fds' = [i \in 1..MaxFds |-> NoFd]
    /\ pending' = <<>> /\ doing' = Nothing
    /\ boots' = boots + 1
    /\ UNCHANGED <<disk, calls>>

-----------------------------------------------------------------------------
(* Making and removing files and directories. *)

Parent(path) == IF Len(path) = 1 THEN Root ELSE resolve_path(Front(path))

\* The part that xfs_open and xfs_mkdir share: allocate an inode and a data
\* block, write the inode, then the entry; without room for one of them give
\* back what was allocated.  The data block keeps its old contents.
FreePlace(dir) == FirstPlace(dir, LAMBDA e : e.ino = 0)
RoomFor(parent) == Cardinality(FreeBlocks) >= 2 /\ FreePlace(parent) # <<>>

\* Mutant: the data block is not marked.
MadeUnmarked(new, dir) == <<SetBit(new[1]), Put(new[1], Inode(dir, 0, <<new[2]>>))>>
Made(new, dir) == <<SetBit(new[1]), SetBit(new[2]), Put(new[1], Inode(dir, 0, <<new[2]>>))>>

GiveBack(new) == <<free_block(new[2]), free_block(new[1])>>

Make(parent, name, dir) ==
    LET new == alloc_blocks(2)
        at == FreePlace(parent)
    IN  CASE Len(new) = 0 -> <<>>
          [] Len(new) = 1 -> <<SetBit(new[1]), free_block(new[1])>>
          [] Len(new) = 2 /\ at = <<>> -> Made(new, dir) \o GiveBack(new)
          [] OTHER -> Append(Made(new, dir), Put(at[1], Dirents(
                [Ents(at[1]) EXCEPT ![at[2]] = [name |-> name, ino |-> new[1]]])))

\* The first free descriptor; xfs_open fails when there is none.
NewFd(p, path, ino, w) ==
    LET free == {i \in 1..MaxFds : ~fds[i].used}
    IN  IF free = {} THEN fds
        ELSE [fds EXCEPT ![Min(free)] = [used |-> TRUE, pid |-> p, ino |-> ino, off |-> 0,
                                         write |-> w, path |-> path]]

\* xfs_open of a path that exists ...
OpenOld(p, path, w) ==
    /\ Idle /\ resolve_path(path) # 0
    /\ w /\ read_inode(resolve_path(path)).dir => ~Within("write_dir")
    /\ fds' = NewFd(p, path, resolve_path(path), w)
    /\ UNCHANGED <<disk, mounted, pending, doing, calls, boots>>

\* ... and, with XFS_O_CREAT, of one that does not.
OpenNew(p, path, w) ==
    LET parent == Parent(path)
    IN  /\ Ready /\ resolve_path(path) = 0 /\ parent # 0
        /\ ~read_inode(parent).dir => ~Within("file_as_dir")
        /\ Call("open", path, IF RoomFor(parent) THEN Store!File(<<>>) ELSE Store!Absent,
                Make(parent, Last(path), FALSE))
        /\ fds' = IF RoomFor(parent) THEN NewFd(p, path, alloc_blocks(1)[1], w) ELSE fds

xfs_mkdir(path) ==
    LET parent == Parent(path)
    IN  /\ Ready /\ resolve_path(path) = 0 /\ parent # 0
        /\ ~read_inode(parent).dir => ~Within("file_as_dir")
        /\ RoomFor(parent) /\ (\E s \in Slots : Ents(alloc_blocks(2)[2])[s] # NoEnt)
              => ~Within("dirty_dir")
        /\ Call("mkdir", path, IF RoomFor(parent) THEN Store!Directory ELSE Store!Absent,
                Make(parent, Last(path), TRUE))
        /\ UNCHANGED fds

\* The entry goes first, then the blocks, then the inode.
xfs_unlink(path) ==
    LET ino == resolve_path(path)
        inode == read_inode(ino)
        at == FirstPlace(Parent(path), LAMBDA e : e.ino = ino)
        used == SelectSeq(inode.blocks, LAMBDA b : b # 0)
    IN  /\ Ready /\ ino # 0 /\ ~inode.dir
        /\ (\E i \in 1..MaxFds : fds[i].used /\ fds[i].ino = ino) => ~Within("unlink_open")
        /\ Call("unlink", path, Store!Absent,
                <<Put(at[1], Dirents([Ents(at[1]) EXCEPT ![at[2]] = NoEnt]))>>
                \o [k \in 1..Len(used) |-> free_block(used[k])] \o <<free_block(ino)>>)
        /\ UNCHANGED fds

-----------------------------------------------------------------------------
(* Descriptors. *)

Mine(p, i) == Idle /\ fds[i].used /\ fds[i].pid = p

\* xfs_close does not look at the owner.
xfs_close(i) ==
    /\ Idle /\ fds[i].used
    /\ fds' = [fds EXCEPT ![i] = NoFd]
    /\ UNCHANGED <<disk, mounted, pending, doing, calls, boots>>

xfs_lseek(p, i, off) ==
    /\ Mine(p, i)
    /\ fds' = [fds EXCEPT ![i].off = off]
    /\ UNCHANGED <<disk, mounted, pending, doing, calls, boots>>

xfs_read(p, i, count) ==
    LET got == Read(read_inode(fds[i].ino), fds[i].off)
    IN  /\ Mine(p, i) /\ ~read_inode(fds[i].ino).dir
        /\ fds' = [fds EXCEPT ![i].off = @ + Min({count, Len(got)})]
        /\ UNCHANGED <<disk, mounted, pending, doing, calls, boots>>

\* The writes that append blocks to a file: each is marked, then filled.
Appends(new, content(_)) ==
    [k \in 1..(2 * Len(new)) |->
        IF k % 2 = 1 THEN SetBit(new[(k + 1) \div 2])
        ELSE Put(new[k \div 2], content(k \div 2))]

\* Mutant: the size is set even if the file was longer.
SizeAlways(size, new_size) == new_size
Size(size, new_size) == Max({size, new_size})

\* xfs_write goes block by block, from first to last, appending one block to
\* the file whenever the next index is past its end; it stops at an index
\* without a block, and when blocks run out.
xfs_write(p, i, s) ==
    LET f == fds[i]
        inode == read_inode(f.ino)
        have == Len(inode.blocks)
        end == f.off + Len(s)
        first == f.off \div BlockSize
        last == (end - 1) \div BlockSize
        holes == {k \in first..last : k < have /\ inode.blocks[k + 1] = 0}
        grow == IF holes # {} \/ last < have THEN 0
                ELSE IF first > have THEN 1 ELSE last + 1 - have
        new == alloc_blocks(Min({grow, MaxDirect - have}))
        blocks == inode.blocks \o new
        stored == {k \in first..last : k < Len(blocks) /\ \A h \in holes : k < h}
        done == IF stored = {} THEN 0 ELSE Min({end, (Max(stored) + 1) * BlockSize}) - f.off
        filled(k) == Data([j \in Pos |-> LET pos == k * BlockSize + j
                                         IN  IF pos >= f.off /\ pos < end THEN s[pos - f.off + 1]
                                             ELSE BytesOf(blocks[k + 1])[j]])
        over == {k \in stored : k < have}
        old == Read(inode, 0)
    IN  /\ Ready /\ Mine(p, i) /\ f.write
        /\ inode.dir => ~Within("write_dir")
        /\ f.off > Len(old) => ~Within("gap")
        /\ Call("write", f.path, Store!File(Store!Spliced(old, f.off, SubSeq(s, 1, done))),
                [k \in 1..Cardinality(over) |->
                    Put(blocks[first + k], filled(first + k - 1))]
                \o (IF stored = {} THEN [k \in 1..Len(new) |-> SetBit(new[k])]
                    ELSE Appends(new, LAMBDA k : filled(have + k - 1)))
                \o <<Put(f.ino, Inode(inode.dir, Size(inode.size, f.off + done), blocks))>>)
        /\ fds' = [fds EXCEPT ![i].off = @ + done]

Needed(size) == (size + BlockSize - 1) \div BlockSize

\* xfs_ftruncate to a smaller size: the blocks are freed, then the inode is
\* written.
Shrink(p, i, size) ==
    LET f == fds[i]
        inode == read_inode(f.ino)
        gone == SelectSeq(SubSeq(inode.blocks, Needed(size) + 1, Len(inode.blocks)),
                          LAMBDA b : b # 0)
        kept == [k \in 1..Needed(size) |->
                    IF k <= Len(inode.blocks) THEN inode.blocks[k] ELSE 0]
    IN  /\ Ready /\ Mine(p, i) /\ size <= inode.size
        /\ inode.dir => ~Within("write_dir")
        /\ Call("shrink", f.path, Store!File(Store!Resized(Read(inode, 0),
                                       Min({size, Len(Read(inode, 0))}))),
                Append([k \in 1..Len(gone) |-> free_block(gone[k])],
                       Put(f.ino, Inode(inode.dir, size, kept))))
        /\ UNCHANGED fds

\* ... and to a larger one: new blocks are zeroed, the rest of the last old one
\* is not.  The size is set even if the blocks ran out.
Extend(p, i, size) ==
    LET f == fds[i]
        inode == read_inode(f.ino)
        have == Len(inode.blocks)
        want == Min({Needed(size), MaxDirect})
        new == alloc_blocks(IF want > have THEN want - have ELSE 0)
        blocks == inode.blocks \o new
        old == Read(inode, 0)
    IN  /\ Ready /\ Mine(p, i) /\ size > inode.size
        /\ inode.dir => ~Within("write_dir")
        /\ Len(old) # have * BlockSize => ~Within("gap")
        /\ Call("extend", f.path,
                Store!File(Store!Resized(old, Min({size, Len(blocks) * BlockSize}))),
                Appends(new, LAMBDA k : Zero)
                \o <<Put(f.ino, Inode(inode.dir, size, blocks))>>)
        /\ UNCHANGED fds

\* Every call writes a byte of its own.
Strings == {[k \in 1..n |-> calls + 1] : n \in Lens}

Next ==
    \/ xfs_format \/ xfs_mount \/ block_write \/ Crash
    \/ \E path \in Paths :
          \/ xfs_mkdir(path) \/ xfs_unlink(path)
          \/ \E p \in Procs, w \in Modes : OpenOld(p, path, w) \/ OpenNew(p, path, w)
    \/ \E i \in 1..MaxFds : xfs_close(i)
    \/ \E p \in Procs, i \in 1..MaxFds :
          \/ \E n \in Lens : xfs_lseek(p, i, n) \/ xfs_read(p, i, n)
          \/ \E s \in Strings : fds[i].used /\ fds[i].off + Len(s) <= MaxSize /\ xfs_write(p, i, s)
          \/ \E n \in {0} \cup Lens : Shrink(p, i, n) \/ Extend(p, i, n)

Spec == Init /\ [][Next]_vars

-----------------------------------------------------------------------------
(* Properties. *)

\* The types of the variables.
TypeOK ==
    /\ super \in BOOLEAN /\ mounted \in BOOLEAN
    /\ bitmap \subseteq 0 .. Total - 1
    /\ \A b \in Blocks : block[b].holds \in {"zero", "inode", "dirents", "data"}
    /\ \A i \in 1..MaxFds : fds[i].used => fds[i].pid \in Procs /\ fds[i].ino \in Blocks
    /\ doing = Nothing <=> pending = <<>>

\* The inodes the tree reaches, and the blocks of each.
Reached == {Root} \cup ({resolve_path(path) : path \in Paths} \ {0})
Owned(ino) == SelectSeq(<<ino>> \o read_inode(ino).blocks, LAMBDA b : b # 0)
InUse == UNION {Range(Owned(ino)) : ino \in Reached}

\* Whatever the tree reaches is marked as used, and by one file only, at every
\* write of every call (but for a truncation on its way) and after every crash:
\* the next alloc_block hands out nothing that a file still has.
NoBlockShared ==
    mounted /\ doing.kind # "shrink" =>
        LET owned == [ino \in Reached |-> Owned(ino)]
            inuse == UNION {Range(owned[ino]) : ino \in DOMAIN owned}
        IN  /\ inuse \subseteq bitmap
            /\ Cardinality(inuse) = MapThenSumSet(LAMBDA ino : Len(owned[ino]), DOMAIN owned)

\* Only a crash loses blocks: the error paths give back what they took.
NoBlockLost ==
    mounted /\ pending = <<>> /\ boots = 0 => bitmap \cap Blocks = InUse

\* xfs_readdir lists every path of a directory once, and nothing else: no
\* entry is left over from the block's earlier life.
Children(dir) == {path \in Paths : Front(path) = dir /\ tree[path].kind # "absent"}
ListingExact ==
    mounted => \A dir \in {<<>>} \cup {q \in Paths : tree[q].kind = "directory"} :
        LET at == Places(resolve_path(dir))
            listed == SelectSeq([k \in DOMAIN at |-> EntAt(at[k])], LAMBDA e : e.ino # 0)
        IN  /\ {listed[k].name : k \in DOMAIN listed} = {Last(path) : path \in Children(dir)}
            /\ Len(listed) = Cardinality(Children(dir))

\* Calls have exactly their effect, on their own path only; a crash leaves the
\* other paths alone and this one as it was, as it should be, or for the bytes
\* of a file a mixture.
ImplementsFileStore == Store!Spec

\* Blocks are exact: none has two owners, and none is lost without a crash.
BlocksExact == TypeOK /\ NoBlockShared /\ NoBlockLost

=============================================================================
