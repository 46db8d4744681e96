------------------------------ MODULE Volumes ------------------------------
(***************************************************************************)
(* From disks to the current volume: fs_init and fs_format of fshelpers.c, *)
(* the question KernelEntryPoint asks, lsdrv, and the part of FatFs that   *)
(* finds, mounts and makes volumes (ff.c).  Volume v is drive v.           *)
(*                                                                         *)
(* Whenever a disk is initialised it may fail, any sector may turn out to  *)
(* be unreadable, a write may fail, and the power may go between two of    *)
(* them.  Calls run one at a time, so a call that writes nothing is one    *)
(* step.  A boot sector is told by what mount_volume makes of it; the FAT, *)
(* FSInfo and the root directory of a volume are one write.                *)
(***************************************************************************)
EXTENDS Integers, FiniteSets, Sequences

CONSTANTS
    FF_VOLUMES,     \* drives, each with its volume
    FirstAhci,      \* AHCI_FIRST_DRIVE: drives below are ATA drives
    Parts,          \* entries of a partition table
    Places,         \* where a partition may begin
    Track,          \* the one of them at sector N_SEC_TRACK, where f_mkfs puts a volume
    NoPlace,        \* an empty entry of the table
    Layouts,        \* what a disk may hold when the machine is first started
    MaxBoots        \* bound: how often it is started

Drives  == 0 .. FF_VOLUMES - 1
Ahci    == {d \in Drives : d >= FirstAhci}
SectorZero == "sector_0"

(***************************************************************************)
(* Boot sectors: "blank" has no signature; "other" has one; a FAT volume   *)
(* is "fat", or "half" when f_mkfs never wrote its FAT, or "bad" when      *)
(* check_fs takes it and mount_volume refuses the rest of it.              *)
(***************************************************************************)
SectorKinds  == {"blank", "other", "fat", "half", "bad"}
Tables == [1 .. Parts -> Places \cup {NoPlace}]
Disk   == [zero : SectorKinds, table : Tables, at : [Places -> SectorKinds]]
NoParts  == [i \in 1 .. Parts |-> NoPlace]
Parted(l) == {l.table[i] : i \in 1 .. Parts} \ {NoPlace}
Usable(l) == {l.zero} \cup {l.at[p] : p \in Parted(l)}

ASSUME VolumesAssumption ==
    /\ FF_VOLUMES \in Nat \ {0} /\ FirstAhci \in Nat /\ MaxBoots \in Nat
    /\ Parts \in Nat \ {0} /\ Track \in Places /\ NoPlace \notin Places
    /\ SectorZero \notin Places \cup {NoPlace}
    /\ Layouts \subseteq Disk
    /\ \A l \in Layouts : l.table # NoParts => l.zero = "other"

VARIABLES
    disk,        \* what every disk holds
    status,      \* ata_devices[].status and ahci_status[]: is STA_NOINIT clear?
    probed,      \* ahci_probed
    registered,  \* FatFs[]: the volumes with a filesystem object
    mounted,     \* fs_type and volbase: where the mounted volume begins, or NoPlace
    curr,        \* CurrVol
    active,      \* active_volume
    pc, vol,     \* where the kernel is; the volume of the loop it is in
    first,       \* first_ready_volume, mounted_volume, -1 when none; first_error
    fs_result,   \* what fs_init or fs_format returned last
    before,      \* what every disk held when the machine was started
    misread,     \* disks with a partition that could not be read or is "bad"
    old,         \* the partition table a disk had when it was last formatted
    boots

volumesVars == <<disk, status, probed, registered, mounted, curr, active, pc, vol, first,
                 fs_result, before, misread, old, boots>>
memory == <<registered, mounted, curr, active, first, fs_result>>
ghosts == <<before, misread, old, boots>>

Start == [ready |-> -1, mounted |-> -1, error |-> "NO_FILESYSTEM"]
Down  == [d \in Drives |-> FALSE]
None  == [d \in Drives |-> NoPlace]

VolumesInit ==
    /\ disk \in [Drives -> Layouts] /\ before = disk
    /\ old = [d \in Drives |-> disk[d].table] /\ boots = 1 /\ misread = {}
    /\ status = Down /\ probed = FALSE /\ registered = {} /\ mounted = None
    /\ curr = 0 /\ active = 0 /\ first = Start /\ fs_result = "OK"
    /\ pc = "initialize" /\ vol = 0

(***************************************************************************)
(* disk_initialize.  An ATA drive is identified again every time; the AHCI *)
(* controller is probed once and the first disks it counts are ready.      *)
(***************************************************************************)
Initialized(d) ==
    CASE d \notin Ahci -> {[status EXCEPT ![d] = ok] : ok \in BOOLEAN}
      [] d \in Ahci /\ ~probed ->
            {[x \in Drives |-> IF x \in Ahci THEN x - FirstAhci < n ELSE status[x]] :
                n \in 0 .. Cardinality(Ahci)}
      [] OTHER -> {status}
disk_initialize(d) ==
    /\ status' \in Initialized(d)
    /\ probed' = (probed \/ d \in Ahci)

(***************************************************************************)
(* check_fs and find_volume: lost are the sectors that cannot be read.     *)
(***************************************************************************)
Holds(d, s) == IF s = SectorZero THEN disk[d].zero ELSE disk[d].at[s]

check_fs(d, s, lost) ==
    CASE s = NoPlace -> "not_BS"
      [] s # NoPlace /\ s \in lost -> "disk_error"
      [] s # NoPlace /\ s \notin lost ->
            CASE Holds(d, s) \in {"fat", "half", "bad"} -> "FAT"
              [] Holds(d, s) = "other" -> "not_FAT"
              [] OTHER -> "not_BS"

\* The first partition that is FAT, or what became of the last entry.
find_volume(d, lost) ==
    LET table   == disk[d].table
        scanned == [i \in 1 .. Parts |-> check_fs(d, table[i], lost)]
        zero    == check_fs(d, SectorZero, lost)
        found   == {i \in 1 .. Parts : scanned[i] = "FAT" /\ \A j \in 1 .. i - 1 : scanned[j] # "FAT"}
        stop    == IF found = {} THEN Parts ELSE CHOOSE i \in found : TRUE
    IN  IF zero # "not_FAT"
        THEN [fmt |-> zero, bsect |-> SectorZero]
        ELSE [fmt |-> scanned[stop], bsect |-> table[stop]]

Outcome(d, found) ==
    CASE found.fmt = "disk_error" -> "DISK_ERR"
      [] found.fmt = "FAT" /\ Holds(d, found.bsect) # "bad" -> "OK"
      [] OTHER -> "NO_FILESYSTEM"

Misread(d, lost) ==
    /\ check_fs(d, SectorZero, lost) = "not_FAT"
    /\ \E p \in Parted(disk[d]) : p \in lost \/ disk[d].at[p] = "bad"

(***************************************************************************)
(* mount_volume: res is what it returns for the volume v of reg.           *)
(***************************************************************************)
Valid(v) == mounted[v] # NoPlace /\ status[v]

Attempt(v, res) ==
    /\ disk_initialize(v)
    /\ \/ /\ ~status'[v] /\ res = "NOT_READY"
          /\ mounted' = [mounted EXCEPT ![v] = NoPlace]
          /\ UNCHANGED misread
       \/ /\ status'[v]
          /\ \E lost \in SUBSET (Places \cup {SectorZero}) :
                LET found == find_volume(v, lost) IN
                /\ res = Outcome(v, found)
                /\ mounted' = [mounted EXCEPT ![v] = IF res = "OK" THEN found.bsect ELSE NoPlace]
                /\ misread' = IF Misread(v, lost) THEN misread \cup {v} ELSE misread

mount_volume(v, res) ==
    \/ v \notin registered /\ res = "NOT_ENABLED" /\ UNCHANGED <<status, probed, mounted, misread>>
    \/ v \in registered /\ Valid(v) /\ res = "OK" /\ UNCHANGED <<status, probed, mounted, misread>>
    \/ v \in registered /\ ~Valid(v) /\ Attempt(v, res)

Results == {"OK", "DISK_ERR", "NOT_READY", "NO_FILESYSTEM", "NOT_ENABLED", "MKFS_ABORTED"}

\* f_mount registers the object anew, with fs_type 0, and mounts it.
f_mount(v, res) == registered' = registered \cup {v} /\ Attempt(v, res)

(***************************************************************************)
(* fs_init.                                                                *)
(***************************************************************************)
NextVolume == IF vol < FF_VOLUMES - 1 THEN pc' = "initialize" /\ vol' = vol + 1
                                      ELSE pc' = "choose" /\ vol' = 0
InitializeVolume ==
    /\ pc = "initialize"
    /\ disk_initialize(vol)
    /\ IF status'[vol]
       THEN /\ first' = IF first.ready < 0 THEN [first EXCEPT !.ready = vol] ELSE first
            /\ pc' = "mount" /\ UNCHANGED vol
       ELSE NextVolume /\ UNCHANGED first
    /\ UNCHANGED <<disk, registered, mounted, curr, active, fs_result, ghosts>>

\* mutant: the error of the last volume is the one that counts
Noted_Last(res) ==
    CASE res = "OK" /\ first.mounted < 0 -> [first EXCEPT !.mounted = vol]
      [] res # "OK" -> [first EXCEPT !.error = res]
      [] OTHER -> first

Noted(res) ==
    CASE res = "OK" /\ first.mounted < 0 -> [first EXCEPT !.mounted = vol]
      [] res \notin {"OK", "NO_FILESYSTEM"} /\ first.error = "NO_FILESYSTEM" ->
            [first EXCEPT !.error = res]
      [] OTHER -> first

MountVolume ==
    /\ pc = "mount"
    /\ \E res \in Results : f_mount(vol, res) /\ first' = Noted(res)
    /\ NextVolume
    /\ UNCHANGED <<disk, curr, active, fs_result, before, old, boots>>

\* mutant: the volume that was mounted is not made the current one
ChosenCurrent_Kept == curr

ChosenCurrent == IF first.mounted >= 0 THEN first.mounted ELSE curr   \* f_chdrive

Choose ==
    /\ pc = "choose"
    /\ active' = CASE first.mounted >= 0 -> first.mounted
                   [] first.mounted < 0 /\ first.ready >= 0 -> first.ready
                   [] OTHER -> active
    /\ curr' = ChosenCurrent
    /\ fs_result' = CASE first.mounted >= 0 -> "OK"
                      [] first.mounted < 0 /\ first.ready < 0 -> "NOT_READY"
                      [] OTHER -> first.error
    /\ pc' = IF fs_result' = "NO_FILESYSTEM" THEN "ask" ELSE "shell"
    /\ UNCHANGED <<disk, status, probed, registered, mounted, vol, first, ghosts>>

(***************************************************************************)
(* The question, fs_format and f_mkfs.                                     *)
(***************************************************************************)
Answer ==
    /\ pc = "ask"
    /\ pc' \in {"mkfs", "shell"}
    /\ UNCHANGED <<disk, status, probed, memory, vol, ghosts>>

End(res) == pc' = "shell" /\ fs_result' = res
Broken   == End("DISK_ERR")

Unmounted == [mounted EXCEPT ![active] = NoPlace]

MkfsBegin ==
    /\ pc = "mkfs"
    /\ mounted' = Unmounted
    /\ disk_initialize(active)
    /\ old' = [old EXCEPT ![active] = disk[active].table]
    /\ \/ ~status'[active] /\ End("NOT_READY")
       \/ status'[active] /\ End("MKFS_ABORTED")       \* too small for FAT32
       \/ status'[active] /\ pc' = "vbr" /\ UNCHANGED fs_result
    /\ UNCHANGED <<disk, registered, curr, active, vol, first, before, misread, boots>>

\* mutant: the partition table is written before the FAT
AfterWrite_TableEarly(step) ==
    CASE step = "vbr" -> "mbr" [] step = "mbr" -> "fat" [] OTHER -> "sync"

\* The order of the writes, and what each of them makes of the disk.
AfterWrite(step) ==
    CASE step = "vbr" -> "fat" [] step = "fat" -> "mbr" [] OTHER -> "sync"
Written(l, step) ==
    CASE step = "vbr" -> [l EXCEPT !.at[Track] = "half"]
      [] step = "fat" -> [l EXCEPT !.at[Track] = "fat"]
      [] OTHER -> [l EXCEPT !.zero = "other", !.table = [NoParts EXCEPT ![1] = Track]]

MkfsWrite ==
    /\ pc \in {"vbr", "fat", "mbr"}
    /\ \/ /\ disk' = [disk EXCEPT ![active] = Written(@, pc)]
          /\ \/ pc' = AfterWrite(pc) /\ UNCHANGED fs_result
             \/ pc # "fat" /\ Broken            \* the medium has it, the drive says no
       \/ UNCHANGED disk /\ Broken
    /\ UNCHANGED <<status, probed, registered, mounted, curr, active, vol, first, ghosts>>

MkfsSync ==
    /\ pc = "sync"
    /\ \/ pc' = "remount" /\ UNCHANGED fs_result
       \/ Broken
    /\ UNCHANGED <<disk, status, probed, registered, mounted, curr, active, vol, first, ghosts>>

MountFormatted ==
    /\ pc = "remount"
    /\ \E res \in Results :
          /\ f_mount(active, res)
          /\ curr' = IF res = "OK" THEN active ELSE curr      \* f_chdrive
          /\ End(res)
    /\ UNCHANGED <<disk, active, vol, first, before, old, boots>>

(***************************************************************************)
(* The shell: a call on a file of volume v, which any path may name, and   *)
(* lsdrv.                                                                  *)
(***************************************************************************)
FileCall(v) ==
    /\ pc = "shell"
    /\ \E res \in Results : mount_volume(v, res)
    /\ UNCHANGED <<disk, registered, curr, active, pc, vol, first, fs_result, before, old, boots>>

list_drives ==
    /\ pc = "shell" /\ pc' = "list" /\ vol' = 0
    /\ UNCHANGED <<disk, status, probed, memory, ghosts>>

\* mutant: every drive is identified again
MustInitialize_Always(v) == TRUE

MustInitialize(v) == ~status[v]

NextListed == IF vol < FF_VOLUMES - 1 THEN pc' = "list" /\ vol' = vol + 1
                                      ELSE pc' = "shell" /\ vol' = 0
ListVolume ==
    /\ pc = "list"
    /\ IF MustInitialize(vol) THEN disk_initialize(vol) ELSE UNCHANGED <<status, probed>>
    /\ IF status'[vol] THEN pc' = "label" /\ UNCHANGED vol ELSE NextListed
    /\ UNCHANGED <<disk, memory, ghosts>>

f_getlabel ==
    /\ pc = "label"
    /\ \E res \in Results : mount_volume(vol, res)
    /\ NextListed
    /\ UNCHANGED <<disk, registered, curr, active, first, fs_result, before, old, boots>>

\* The machine is switched off and on, at any time.
PowerLoss ==
    /\ boots < MaxBoots
    /\ boots' = boots + 1
    /\ before' = disk /\ misread' = {}
    /\ status' = Down /\ probed' = FALSE /\ registered' = {} /\ mounted' = None
    /\ curr' = 0 /\ active' = 0 /\ first' = Start /\ fs_result' = "OK"
    /\ pc' = "initialize" /\ vol' = 0
    /\ UNCHANGED <<disk, old>>

VolumesNext ==
    \/ InitializeVolume \/ MountVolume \/ Choose
    \/ Answer \/ MkfsBegin \/ MkfsWrite \/ MkfsSync \/ MountFormatted
    \/ \E v \in Drives : FileCall(v)
    \/ list_drives \/ ListVolume \/ f_getlabel
    \/ PowerLoss

VolumesSpec == VolumesInit /\ [][VolumesNext]_volumesVars

----------------------------------------------------------------------------
(* The offer to format depends on the first error of all volumes, and what *)
(* is formatted is the first disk that was ready.  A disk that held a FAT  *)
(* volume when the machine was started keeps what it held, whatever could  *)
(* not be read and whatever the answer was - unless a partition of it      *)
(* could not be read or used: find_volume forgets that when an entry of    *)
(* the table follows (find_volume ff.c:3453, fs_init fshelpers.c:33).      *)
DataKept ==
    \A d \in Drives : disk[d] # before[d] =>
        d \in misread \/ Usable(before[d]) \cap {"fat", "half"} = {}

(* f_mkfs writes the partition table last, so a volume it did not finish   *)
(* (an error, the power) is nowhere to be found: it is mounted only where  *)
(* the table of before already named the same sector.                      *)
WholeVolume ==
    \A d \in Drives : mounted[d] \in Places /\ disk[d].at[mounted[d]] = "half" =>
        mounted[d] \in Parted([table |-> old[d]])

(* A mounted volume is on a disk that is ready, after any sequence of      *)
(* commands: otherwise the next call would mount it again behind the back  *)
(* of the shell, and the current directory would be the root again.        *)
MountedIsReady == \A v \in Drives : mounted[v] # NoPlace => status[v]

(* When startup ends well the shell works on a volume that is mounted, and *)
(* keeps it: paths without a drive lead to the volume that was chosen.     *)
CurrentIsMounted ==
    pc \in {"shell", "list", "label"} /\ fs_result = "OK" =>
        curr = active /\ curr \in registered /\ mounted[curr] # NoPlace
=============================================================================
