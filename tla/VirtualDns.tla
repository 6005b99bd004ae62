----------------------------- MODULE VirtualDns -----------------------------
(***************************************************************************)
(* The fake-IP allocator of src/virtual_dns.rs together with its journal,  *)
(* src/virtual_dns/persistence.rs.                                         *)
(*                                                                         *)
(* A DNS query for a name is answered with an address of a private pool;   *)
(* a later connection to that address is turned back into the name.  The   *)
(* mapping lives in an LRU cache and in a reverse index, and every new     *)
(* mapping is appended to a journal that is replayed after a restart.      *)
(* Addresses are offsets into the pool: 0 is network_addr, PoolSize - 1 is *)
(* broadcast_addr.  Names are canonical names (canonical_name is applied   *)
(* to every name before it is used).  One handle is guarded by one mutex,  *)
(* so a query is one step unless the process dies inside it.               *)
(***************************************************************************)
EXTENDS Naturals, FiniteSets, Sequences, Functions

CONSTANTS
    Names,         \* canonical DNS names
    Unrestorable,  \* the names restore_mapping refuses: empty or over 253 bytes
    Garbled,       \* stands for a journal line that does not parse
    NoIp,          \* a name without an address
    PoolSize,      \* number of addresses of the pool
    CompactStale,  \* COMPACT_STALE_RECORDS
    FaultSets,     \* the environments: what each one does, see FaultKinds
    MaxLines       \* bound: only a journal below it is appended to

(***************************************************************************)
(* "io"            a write to the journal may return an error              *)
(* "unterminated"  a process may die between a record and its newline      *)
(* "removed"       the journal may be deleted behind the process           *)
(* "replace_gap"   replace_file removes the destination before the rename  *)
(*                 (Windows), so a failure or a death can fall in between  *)
(* "keep"          the embedder goes on with a handle whose                *)
(*                 enable_persistence returned an error                    *)
(***************************************************************************)
FaultKinds == {"io", "unterminated", "removed", "replace_gap", "keep"}

Pool == 0 .. PoolSize - 1

ASSUME VirtualDnsAssumption ==
    /\ PoolSize \in Nat \ {0}
    /\ CompactStale \in Nat \ {0}
    /\ MaxLines \in Nat
    /\ Unrestorable \subseteq Names
    /\ Garbled \notin Names
    /\ NoIp \notin Pool
    /\ FaultSets \subseteq SUBSET FaultKinds

VARIABLES
    lru_cache,     \* entries [ip, name], least recently used first
    name_to_ip,    \* the reverse index
    next_addr,     \* where the next scan for a vacant address starts
    phase,         \* "up", or "loading" while enable_persistence replays
    persistence,   \* is the Option<PersistentCache> a Some?
    cache,         \* the PersistentCache: [dirty, journal_records]
    load,          \* the replay: lines done, and is a repair needed?
    file,          \* the journal on disk
    last,          \* history: the address answered or resolved last, or NoIp
    faults         \* what this behaviour's environment does

memory == <<lru_cache, name_to_ip, next_addr, last>>
vars == <<lru_cache, name_to_ip, next_addr, phase, persistence, cache, load,
          file, last, faults>>

Entry == [ip : Pool, name : Names]
Line == [ip : Pool, name : Names \cup {Garbled}]

(***************************************************************************)
(* The journal: its first line (a header of this pool, of another pool, or *)
(* none), the header's allocation cursor, the record lines, and whether    *)
(* the last line has no newline yet.                                       *)
(***************************************************************************)
Journal == [head : {"missing", "empty", "foreign", "ok"}, cursor : Pool,
            lines : Seq(Line), open : BOOLEAN]
NoJournal == [head |-> "missing", cursor |-> 0, lines |-> <<>>, open |-> FALSE]

Mapped == Range(lru_cache)
MappedIps == {lru_cache[i].ip : i \in DOMAIN lru_cache}

-----------------------------------------------------------------------------
(* The LRU cache.                                                          *)

\* A sequence without its i-th element.
TakenOut(s, i) == SubSeq(s, 1, i - 1) \o SubSeq(s, i + 1, Len(s))

\* The entry of an address is taken out of a cache that holds it at most once.
Evict(s, ip) ==
    IF \E i \in DOMAIN s : s[i].ip = ip
    THEN TakenOut(s, CHOOSE i \in DOMAIN s : s[i].ip = ip)
    ELSE s

\* Mutant of Touch: a lookup does not refresh the entry.
TouchForgotten(s, ip) == s

\* touch_ip and resolve_ip: the entry becomes the most recently used one.
Touch(s, ip) ==
    IF \E i \in DOMAIN s : s[i].ip = ip
    THEN LET k == CHOOSE i \in DOMAIN s : s[i].ip = ip
         IN  Append(TakenOut(s, k), s[k])
    ELSE s

\* The number of addresses a scan from next_addr passes before ip: it steps by
\* one and wraps at broadcast_addr.
ScanDistance(ip) == IF ip >= next_addr THEN ip - next_addr
                                       ELSE (ip + PoolSize) - next_addr

Vacant == Pool \ MappedIps

\* upper_half_start
UpperHalfStart == LET distance == PoolSize - 1
                  IN  (distance \div 2) + (distance % 2)

-----------------------------------------------------------------------------
(* The journal.                                                            *)

\* A line is restored when it parses and its name is acceptable.
Restores(line) == line.name \notin Unrestorable \cup {Garbled}

\* Line k is what a replay of all the lines leaves behind: no later restored
\* line reuses its address or its name.
LiveAt(lines, k) ==
    /\ Restores(lines[k])
    /\ \A j \in DOMAIN lines : j > k /\ Restores(lines[j]) =>
          lines[j].ip # lines[k].ip /\ lines[j].name # lines[k].name

Live(lines) == {lines[k] : k \in {j \in DOMAIN lines : LiveAt(lines, j)}}

GarbledLine(ip) == [ip |-> ip, name |-> Garbled]

\* A record written at the end of the file.  An unterminated last line absorbs
\* it: the two make one line that does not parse.
WithRecord(f, line) ==
    IF f.open
    THEN [f EXCEPT !.lines[Len(f.lines)] = GarbledLine(line.ip), !.open = FALSE]
    ELSE [f EXCEPT !.lines = Append(@, line)]

\* A record whose bytes stop short: the line does not parse and has no newline.
WithFragment(f, line) ==
    [WithRecord(f, GarbledLine(line.ip)) EXCEPT !.open = TRUE]

\* A whole record whose newline was never written.
WithoutNewline(f, line) == [WithRecord(f, line) EXCEPT !.open = TRUE]

\* rewrite, when it succeeds: a fresh file with the cursor and every mapping in
\* LRU order takes the place of the journal.
Rewritten(entries, cursor) ==
    [file |-> [head |-> "ok", cursor |-> cursor, lines |-> entries,
               open |-> FALSE],
     dirty |-> FALSE, records |-> Len(entries)]

\* What a failed rewrite leaves on disk.
RewriteErrors(f) ==
    IF "io" \notin faults THEN {}
    ELSE {f} \cup (IF "replace_gap" \in faults THEN {NoJournal} ELSE {})

\* What a failed append leaves on disk.
AppendErrors(f, line) ==
    IF "io" \notin faults THEN {}
    ELSE {f, WithFragment(f, line)} \cup
         (IF "unterminated" \in faults THEN {WithoutNewline(f, line)} ELSE {})

\* After an error persist_mapping marks the cache dirty and rewrites at once.
Repaired(entries, cursor, f, records) ==
    {Rewritten(entries, cursor)} \cup
    {[file |-> g, dirty |-> TRUE, records |-> records] : g \in RewriteErrors(f)}

\* Mutant of NeedsRewrite: the dirty flag is not consulted.
NeedsRewriteIgnoringDirty == file.head \in {"missing", "empty"}

NeedsRewrite == cache.dirty \/ file.head \in {"missing", "empty"}

ShouldCompact(records, live) ==
    /\ records >= live + CompactStale
    /\ records >= 2 * live

\* persist_mapping: the outcomes of journalling the entry that was just put
\* into the cache "entries".
PersistMapping(entries, cursor, entry) ==
    LET old == cache.journal_records
        appended == WithRecord(file, entry)
    IN  IF NeedsRewrite
        THEN {Rewritten(entries, cursor)} \cup
             UNION {Repaired(entries, cursor, f, old) : f \in RewriteErrors(file)}
        ELSE (IF ShouldCompact(old + 1, Len(entries))
              THEN {Rewritten(entries, cursor)} \cup
                   UNION {Repaired(entries, cursor, f, old + 1) :
                            f \in RewriteErrors(appended)}
              ELSE {[file |-> appended, dirty |-> FALSE, records |-> old + 1]})
             \cup UNION {Repaired(entries, cursor, f, old) :
                            f \in AppendErrors(file, entry)}

\* retry_dirty_persistence: the outcomes after a hit.
RetryDirty(entries, cursor) ==
    IF cache.dirty
    THEN Repaired(entries, cursor, file, cache.journal_records)
    ELSE {[file |-> file, dirty |-> FALSE, records |-> cache.journal_records]}

Stored(outcome) ==
    /\ file' = outcome.file
    /\ cache' = [dirty |-> outcome.dirty, journal_records |-> outcome.records]

-----------------------------------------------------------------------------
(* Initial state and restart.                                              *)

NewCache == [dirty |-> FALSE, journal_records |-> 0]
NoNames == [n \in Names |-> NoIp]
NoLoad == [pos |-> 0, repair |-> FALSE]

\* VirtualDns::new
Init ==
    /\ lru_cache = <<>>
    /\ name_to_ip = NoNames
    /\ next_addr = 0
    /\ phase = "up"
    /\ persistence = FALSE
    /\ cache = NewCache
    /\ load = NoLoad
    /\ file \in {NoJournal, [NoJournal EXCEPT !.head = "foreign"]}
    /\ last = NoIp
    /\ faults \in FaultSets

\* The process ends and a new one starts with VirtualDns::new.
NewProcess ==
    /\ lru_cache' = <<>>
    /\ name_to_ip' = NoNames
    /\ next_addr' = 0
    /\ phase' = "up"
    /\ persistence' = FALSE
    /\ cache' = NewCache
    /\ load' = NoLoad
    /\ last' = NoIp

Restart == NewProcess /\ UNCHANGED file

-----------------------------------------------------------------------------
(* Queries and lookups.                                                    *)

\* find_or_allocate_ip, the name is known.
Hit(n) ==
    /\ phase = "up"
    /\ name_to_ip[n] # NoIp
    /\ lru_cache' = Touch(lru_cache, name_to_ip[n])
    /\ last' = name_to_ip[n]
    /\ IF persistence
       THEN \E outcome \in RetryDirty(lru_cache', next_addr) : Stored(outcome)
       ELSE UNCHANGED <<file, cache>>
    /\ UNCHANGED <<name_to_ip, next_addr, phase, persistence, load>>

\* find_or_allocate_ip, the name is new and an address is vacant: the first one
\* from next_addr on, which next_addr then points to.
Allocates(n, ip) ==
    /\ phase = "up"
    /\ name_to_ip[n] = NoIp
    /\ ip \in Vacant
    /\ \A other \in Vacant : ScanDistance(ip) <= ScanDistance(other)
    /\ lru_cache' = Append(lru_cache, [ip |-> ip, name |-> n])
    /\ name_to_ip' = [name_to_ip EXCEPT ![n] = ip]
    /\ next_addr' = ip
    /\ last' = ip

\* find_or_allocate_ip, the name is new and the scan came back to where it
\* started: the least recently used mapping gives its address up.
Recycles(n, ip) ==
    /\ phase = "up"
    /\ name_to_ip[n] = NoIp
    /\ Vacant = {}
    /\ lru_cache # <<>>
    /\ ip = Head(lru_cache).ip
    /\ lru_cache' = Append(Tail(lru_cache), [ip |-> ip, name |-> n])
    /\ name_to_ip' = [name_to_ip EXCEPT ![Head(lru_cache).name] = NoIp, ![n] = ip]
    /\ last' = ip
    /\ UNCHANGED next_addr

\* Mutant of Persists: a recycled address is not journalled.
PersistsVacantOnly(n, ip) ==
    /\ persistence => NeedsRewrite \/ Len(file.lines) < MaxLines
    /\ IF persistence /\ ip \in Vacant
       THEN \E outcome \in PersistMapping(lru_cache', next_addr',
                                          [ip |-> ip, name |-> n]) :
               Stored(outcome)
       ELSE UNCHANGED <<file, cache>>
    /\ UNCHANGED <<phase, persistence, load>>

\* persist_mapping, called by find_or_allocate_ip.
Persists(n, ip) ==
    /\ persistence => NeedsRewrite \/ Len(file.lines) < MaxLines
    /\ IF persistence
       THEN \E outcome \in PersistMapping(lru_cache', next_addr',
                                          [ip |-> ip, name |-> n]) :
               Stored(outcome)
       ELSE UNCHANGED <<file, cache>>
    /\ UNCHANGED <<phase, persistence, load>>

Allocate(n) == \E ip \in Pool : Allocates(n, ip) /\ Persists(n, ip)
Recycle(n) == \E ip \in Pool : Recycles(n, ip) /\ Persists(n, ip)

\* resolve_virtual_domain: a connection to ip touches and resolves it.
ResolveIp(ip) ==
    /\ phase = "up"
    /\ ip \in MappedIps
    /\ lru_cache' = Touch(lru_cache, ip)
    /\ last' = ip
    /\ UNCHANGED <<name_to_ip, next_addr, phase, persistence, cache, load, file>>

-----------------------------------------------------------------------------
(* The process dies inside a query.                                        *)

\* The address a query for an unknown name is about to be answered with.
NextIp(ip) ==
    IF Vacant # {}
    THEN ip \in Vacant /\ \A other \in Vacant : ScanDistance(ip) <= ScanDistance(other)
    ELSE lru_cache # <<>> /\ ip = Head(lru_cache).ip

\* The record is written in several writes, then the newline in one more.
InterruptedAppends(f, line) ==
    {WithRecord(f, line), WithFragment(f, line)} \cup
    (IF "unterminated" \in faults THEN {WithoutNewline(f, line)} ELSE {})

RestartInAppend(n) ==
    /\ phase = "up"
    /\ persistence
    /\ name_to_ip[n] = NoIp
    /\ ~NeedsRewrite
    /\ Len(file.lines) < MaxLines
    /\ \E ip \in Pool :
          /\ NextIp(ip)
          /\ file' \in InterruptedAppends(file, [ip |-> ip, name |-> n])
    /\ NewProcess

\* The append of one more mapping would compact the journal.
CompactionDue ==
    /\ \E n \in Names : name_to_ip[n] = NoIp
    /\ ShouldCompact(cache.journal_records + 1,
                     IF Vacant = {} THEN Len(lru_cache) ELSE Len(lru_cache) + 1)

\* The temporary file is complete, the destination removed, the rename not done.
RestartInReplace ==
    /\ "replace_gap" \in faults
    /\ \/ /\ phase = "up" /\ persistence
          /\ NeedsRewrite \/ CompactionDue
       \/ phase = "loading" /\ load.pos = Len(file.lines) /\ load.repair
    /\ file' = NoJournal
    /\ NewProcess

-----------------------------------------------------------------------------
(* enable_persistence.                                                     *)

\* rewrite_persistence()? ends enable_persistence.  After an error the handle has
\* its PersistentCache, which is not marked dirty; the embedder drops the handle
\* or, with "keep", goes on with it.
FirstOutcomes(entries, cursor, records) ==
    {Rewritten(entries, cursor)} \cup
    (IF "keep" \notin faults THEN {}
     ELSE {[file |-> f, dirty |-> FALSE, records |-> records] : f \in RewriteErrors(file)})

FirstRewrite(entries, index, cursor, records) ==
    \/ /\ \E outcome \in FirstOutcomes(entries, cursor, records) : Stored(outcome)
       /\ lru_cache' = entries
       /\ name_to_ip' = index
       /\ next_addr' = cursor
       /\ phase' = "up"
       /\ persistence' = TRUE
       /\ load' = NoLoad
       /\ last' = NoIp
    \/ /\ "keep" \notin faults
       /\ file' \in RewriteErrors(file)
       /\ NewProcess

\* LoadResult::Missing
EnableMissing ==
    /\ phase = "up"
    /\ file.head = "missing"
    /\ FirstRewrite(lru_cache, name_to_ip,
                    IF lru_cache = <<>> THEN UpperHalfStart ELSE next_addr, 0)

\* LoadResult::Incompatible
EnableIncompatible ==
    /\ phase = "up"
    /\ file.head \in {"empty", "foreign"}
    /\ FirstRewrite(<<>>, NoNames, UpperHalfStart, 0)

\* LoadResult::Loaded: the mappings are cleared and the replay begins.
EnableLoaded ==
    /\ phase = "up"
    /\ file.head = "ok"
    /\ lru_cache' = <<>>
    /\ name_to_ip' = NoNames
    /\ next_addr' = file.cursor
    /\ phase' = "loading"
    /\ cache' = [dirty |-> FALSE,
                 journal_records |-> Cardinality({k \in DOMAIN file.lines :
                                        file.lines[k].name # Garbled})]
    /\ load' = [pos |-> 0,
                repair |-> \E k \in DOMAIN file.lines : file.lines[k].name = Garbled]
    /\ last' = NoIp
    /\ UNCHANGED <<persistence, file>>

\* Mutant of RestoredCache: the older entry of the address is not removed.
RestoredCacheKeepingIp(s, index, line) == Append(Evict(s, index[line.name]), line)

\* restore_mapping: the record wins over the older entry of its name and over
\* the older entry of its address.
RestoredCache(s, index, line) ==
    Append(Evict(Evict(s, index[line.name]), line.ip), line)

\* Mutant of RestoredIndex: the name that lost its address keeps it.
RestoredIndexKeepingName(s, index, line) == [index EXCEPT ![line.name] = line.ip]

RestoredIndex(s, index, line) ==
    [n \in Names |-> IF n = line.name THEN line.ip
                     ELSE IF [ip |-> line.ip, name |-> n] \in Range(s) THEN NoIp
                     ELSE index[n]]

RestoreMapping ==
    /\ phase = "loading"
    /\ load.pos < Len(file.lines)
    /\ LET line == file.lines[load.pos + 1]
       IN  /\ IF Restores(line)
              THEN /\ lru_cache' = RestoredCache(lru_cache, name_to_ip, line)
                   /\ name_to_ip' = RestoredIndex(lru_cache, name_to_ip, line)
              ELSE UNCHANGED <<lru_cache, name_to_ip>>
           /\ load' = [pos |-> load.pos + 1,
                       repair |-> load.repair \/ ~Restores(line)]
    /\ UNCHANGED <<next_addr, phase, persistence, cache, file, last>>

FinishLoad ==
    /\ phase = "loading"
    /\ load.pos = Len(file.lines)
    /\ IF load.repair
       THEN FirstRewrite(lru_cache, name_to_ip, next_addr, cache.journal_records)
       ELSE /\ phase' = "up"
            /\ persistence' = TRUE
            /\ load' = NoLoad
            /\ UNCHANGED <<memory, cache, file>>

-----------------------------------------------------------------------------
\* Somebody else deletes or truncates the journal.
JournalRemoved ==
    /\ "removed" \in faults
    /\ phase = "up"
    /\ file.head = "ok"
    /\ \E head \in {"missing", "empty"} : file' = [NoJournal EXCEPT !.head = head]
    /\ UNCHANGED <<memory, phase, persistence, cache, load>>

Step ==
    \/ \E n \in Names : Hit(n) \/ Allocate(n) \/ Recycle(n) \/ RestartInAppend(n)
    \/ \E ip \in Pool : ResolveIp(ip)
    \/ EnableMissing \/ EnableIncompatible \/ EnableLoaded
    \/ RestoreMapping \/ FinishLoad
    \/ Restart \/ RestartInReplace
    \/ JournalRemoved

Next == Step /\ UNCHANGED faults

Spec == Init /\ [][Next]_vars

-----------------------------------------------------------------------------
(* Properties.                                                             *)

TypeOK ==
    /\ lru_cache \in Seq(Entry)
    /\ name_to_ip \in [Names -> Pool \cup {NoIp}]
    /\ next_addr \in Pool
    /\ phase \in {"up", "loading"}
    /\ persistence \in BOOLEAN
    /\ cache \in [dirty : BOOLEAN, journal_records : Nat]
    /\ load \in [pos : Nat, repair : BOOLEAN]
    /\ file \in Journal
    /\ last \in Pool \cup {NoIp}

\* The forward and the reverse map stay inverse to each other through hits,
\* allocations, recycling and the replay of a journal that reuses addresses and
\* names: no address is cached twice and name_to_ip[n] = ip exactly when
\* lru_cache holds ip for n (find_or_allocate_ip, restore_mapping).
Consistent ==
    /\ \A i, j \in DOMAIN lru_cache :
          lru_cache[i].ip = lru_cache[j].ip => i = j
    /\ \A n \in Names, ip \in Pool :
          name_to_ip[n] = ip <=> [ip |-> ip, name |-> n] \in Mapped

\* Whenever a handle with persistence believes its journal is up to date (not
\* dirty), replaying the journal that is on disk gives back exactly the mappings
\* in memory, so the process may die at any moment and a cached address still
\* means the same name (persist_mapping, rewrite, load, restore_mapping).
Durable ==
    phase = "up" /\ persistence /\ ~cache.dirty /\ file.head = "ok" =>
        Live(file.lines) = Mapped

\* A replay that reached the end of the journal holds exactly the mappings no
\* later record overrides, whatever disk errors, interrupted writes and recycled
\* addresses the journal went through (load, restore_mapping).
ReplayExact ==
    phase = "loading" /\ load.pos = Len(file.lines) =>
        Mapped = Live(file.lines)

\* An address that was the last one answered or resolved is not recycled by the
\* next query when the pool has another one (touch_ip before remove_lru).
ActiveKept ==
    [][phase = "up" /\ phase' = "up" /\ last \in MappedIps /\ PoolSize > 1 =>
          \/ \E e \in Mapped : e.ip = last /\ e \in Mapped'
          \/ last' = NoIp]_vars

\* What outlives the process: the mappings of a persistent handle, or those a
\* replay of the journal would give back.
StableMapping == IF phase = "up" /\ persistence THEN Mapped
                 ELSE IF file.head = "ok" THEN Live(file.lines) ELSE {}

Stable == INSTANCE StableMap WITH map <- IF faults = {} THEN StableMapping ELSE {}

\* The allocator with its journal implements the abstract fake-IP map, across
\* restarts: while the disk works, a mapping is only ever given up to recycle it
\* in a full pool.
StableAcrossRestarts == Stable!Spec
=============================================================================
