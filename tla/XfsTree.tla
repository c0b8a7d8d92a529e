------------------------------ MODULE XfsTree ------------------------------
(***************************************************************************)
(* Reading the blocks of an Xfs device (kernel/fs/xfs.c): inodes,          *)
(* directories, paths and file contents.  A block holds an inode,          *)
(* directory entries or bytes; it keeps what was last written to it when   *)
(* it is freed and allocated again.                                        *)
(***************************************************************************)
EXTENDS Naturals, Sequences, FiniteSets, FiniteSetsExt, SequencesExt

CONSTANTS
    Total,          \* g_total
    BlockSize,      \* XFS_BLOCK_SIZE
    DirSlots        \* directory entries in a block

\* The superblock, one bitmap block, then g_data_start.
Root == 2
Blocks == Root .. Total - 1
Slots == 1..DirSlots
Pos == 0 .. BlockSize - 1
Junk == 9

\* Contents of a block.
Zero == [holds |-> "zero"]
Inode(dir, size, blocks) == [holds |-> "inode", dir |-> dir, size |-> size, blocks |-> blocks]
Dirents(ents) == [holds |-> "dirents", ents |-> ents]
Data(bytes) == [holds |-> "data", bytes |-> bytes]
NoEnt == [name |-> "", ino |-> 0]

VARIABLE block      \* the contents of the blocks

\* read_inode of a block that holds something else gives no usable inode.
read_inode(b) ==
    IF b \in Blocks /\ block[b].holds = "inode" THEN block[b] ELSE Inode(FALSE, 0, <<>>)

\* A block's entries: bytes of file data are taken for entries, and so is the
\* size in an old inode, which lies where the first entry has its inode_block.
Ents(b) ==
    LET c == block[b]
        junk == [name |-> "?", ino |-> 1]
    IN  CASE c.holds = "dirents" -> c.ents
          [] c.holds = "zero" -> [s \in Slots |-> NoEnt]
          [] c.holds = "data" -> [s \in Slots |-> IF c.bytes[s - 1] = 0 THEN NoEnt ELSE junk]
          [] c.holds = "inode" -> [s \in Slots |-> IF s = 1 /\ c.size # 0 THEN junk ELSE NoEnt]

BytesOf(b) ==
    LET c == block[b]
    IN  IF c.holds = "data" THEN c.bytes
        ELSE [k \in Pos |-> IF c.holds = "zero" THEN 0 ELSE Junk]

\* The <<block, slot>> places of a directory, in the order of the scans.
Places(dir) ==
    LET bs == SelectSeq(read_inode(dir).blocks, LAMBDA b : b # 0)
    IN  [k \in 1..(Len(bs) * DirSlots) |->
            <<bs[(k - 1) \div DirSlots + 1], ((k - 1) % DirSlots) + 1>>]
EntAt(place) == Ents(place[1])[place[2]]

\* The first place of a directory whose entry satisfies P, or none.
FirstPlace(dir, P(_)) ==
    LET ps == Places(dir)
        hits == {k \in 1..Len(ps) : P(EntAt(ps[k]))}
    IN  IF hits = {} THEN <<>> ELSE ps[Min(hits)]

Find(dir, name) ==
    LET at == FirstPlace(dir, LAMBDA e : e.ino # 0 /\ e.name = name)
    IN  IF at = <<>> THEN 0 ELSE EntAt(at).ino

resolve_path(path) == FoldLeft(Find, IF read_inode(Root).dir THEN Root ELSE 0, path)

\* What xfs_read returns of an inode from offset off: up to its size, and no
\* further than the first block that is missing.
Read(inode, off) ==
    LET holes == {k \in 0..(inode.size \div BlockSize) :
                     k >= Len(inode.blocks) \/ inode.blocks[k + 1] = 0}
        end == IF holes = {} THEN inode.size ELSE Min({inode.size, Min(holes) * BlockSize})
        all == [k \in 1..end |->
                   BytesOf(inode.blocks[(k - 1) \div BlockSize + 1])[(k - 1) % BlockSize]]
    IN  SubSeq(all, off + 1, end)

\* A path as xfs_stat, xfs_readdir and xfs_read show it.
View(path) ==
    LET ino == resolve_path(path)
    IN  IF ino = 0 THEN [kind |-> "absent"]
        ELSE IF read_inode(ino).dir THEN [kind |-> "directory"]
        ELSE [kind |-> "file", bytes |-> Read(read_inode(ino), 0)]
=============================================================================
