------------------------------ MODULE Registry ------------------------------
(***************************************************************************)
(* The identity registry of pkg/identity/registry.go: a map in memory under *)
(* a read-write lock, in front of an optional bolt bucket.                 *)
(*                                                                         *)
(* Lookup reads the bucket with no lock held and fills the map afterwards. *)
(* The slice that bolt's Get returns is valid only inside its transaction; *)
(* Lookup keeps it, so a later Update may rewrite the bytes behind it: such *)
(* a slice is an alias, and an Update may turn it into Garbage.            *)
(***************************************************************************)
EXTENDS Integers

CONSTANTS Id,       \* root identifiers
          Key,      \* public keys of the right size
          BadKey,   \* a key of another size
          Reader,   \* concurrent callers of Lookup, Exists and GetAll
          WithDB,   \* whether Open is called
          Absent, Garbage,
          MaxRegisters \* bound: calls of Register

ASSUME RegistryAssumption ==
    /\ WithDB \in BOOLEAN /\ MaxRegisters \in Nat
    /\ Absent \notin Id \cup Key /\ Garbage \notin Key \cup {Absent} /\ BadKey \notin Key

VARIABLES cache,   \* what the map holds for each identifier
          db,      \* what the bucket holds
          writer,  \* the Register that holds the lock, if any
          call,    \* the call of each reader
          acked,   \* the last key for which Register returned nil
          tried,   \* keys of the Register calls since, in progress or failed
          registers \* number of Register calls

registryVars == <<cache, db, writer, call, acked, tried, registers>>

NoEntry == [key |-> Absent, alias |-> FALSE]

NoCall == [pc |-> "idle", id |-> Absent, key |-> Absent, seen |-> {}, all |-> {}]

NoWriter == [id |-> Absent, key |-> Absent]

RegistryInit ==
    /\ cache = [i \in Id |-> NoEntry]
    /\ db = [i \in Id |-> Absent]
    /\ writer = NoWriter
    /\ call = [p \in Reader |-> NoCall]
    /\ acked = [i \in Id |-> Absent]
    /\ tried = [i \in Id |-> {}]
    /\ registers = 0

Unlocked == writer = NoWriter

\* Readers in progress may from now on also see k.
Seen(i, k) ==
    call' = [p \in Reader |-> IF call[p].id = i
                              THEN [call[p] EXCEPT !.seen = @ \cup {k}]
                              ELSE call[p]]

Cached(i, k) == [cache EXCEPT ![i] = [key |-> k, alias |-> FALSE]]

SizeOK(k) == k # BadKey

\* Register takes the lock, checks the size and writes the map.  A key of
\* another size is refused.
RegisterCache(i, k) ==
    /\ Unlocked
    /\ registers < MaxRegisters
    /\ registers' = registers + 1
    /\ IF SizeOK(k)
       THEN /\ cache' = Cached(i, k)
            /\ Seen(i, k)
            /\ IF WithDB
               THEN /\ writer' = [id |-> i, key |-> k]
                    /\ tried' = [tried EXCEPT ![i] = @ \cup {k}]
                    /\ UNCHANGED acked
               ELSE /\ acked' = [acked EXCEPT ![i] = k]
                    /\ UNCHANGED <<writer, tried>>
       ELSE UNCHANGED <<cache, writer, acked, tried, call>>
    /\ UNCHANGED db

\* What an Update may do to the slices kept from earlier transactions.
Rewritten(bad) ==
    /\ cache' = [i \in Id |-> IF bad /\ cache[i].alias
                              THEN [cache[i] EXCEPT !.key = Garbage] ELSE cache[i]]
    /\ call' = [p \in Reader |-> IF bad /\ call[p].pc = "fill"
                                 THEN [call[p] EXCEPT !.key = Garbage] ELSE call[p]]

\* The bucket is left for later.
NoPut(i, k) == db

Put(i, k) == [db EXCEPT ![i] = k]

\* The Update of Register commits, or fails with the map already written;
\* either way Register returns and unlocks.
RegisterDB ==
    /\ ~Unlocked
    /\ \/ /\ db' = Put(writer.id, writer.key)
          /\ acked' = [acked EXCEPT ![writer.id] = writer.key]
          /\ tried' = [tried EXCEPT ![writer.id] = {}]
          /\ \E bad \in BOOLEAN : Rewritten(bad)
       \/ UNCHANGED <<db, acked, tried, cache, call>>
    /\ writer' = NoWriter
    /\ UNCHANGED registers

-----------------------------------------------------------------------------
Answer(p, r) == call' = [call EXCEPT ![p] = r]

Begin(i) == [NoCall EXCEPT !.id = i, !.seen = {acked[i]} \cup tried[i]]

\* Lookup's check of the map under the read lock.
LookupCache(p, i) ==
    /\ call[p].pc = "idle"
    /\ Unlocked
    /\ Answer(p, IF cache[i].key # Absent \/ ~WithDB
                 THEN [Begin(i) EXCEPT !.pc = "found", !.key = cache[i].key]
                 ELSE [Begin(i) EXCEPT !.pc = "view"])
    /\ UNCHANGED <<cache, db, writer, acked, tried, registers>>

\* db.View, with no lock held: also while a Register is between its two writes.
LookupView(p) ==
    /\ call[p].pc = "view"
    /\ LET k == db[call[p].id]
       IN Answer(p, [call[p] EXCEPT !.pc = IF k = Absent THEN "found" ELSE "fill",
                                    !.key = k])
    /\ UNCHANGED <<cache, db, writer, acked, tried, registers>>

\* The map filled with what the transaction saw.
LookupFill(p) ==
    /\ call[p].pc = "fill"
    /\ Unlocked
    /\ cache' = [cache EXCEPT ![call[p].id] = [key |-> call[p].key, alias |-> TRUE]]
    /\ Answer(p, [call[p] EXCEPT !.pc = "found"])
    /\ UNCHANGED <<db, writer, acked, tried, registers>>

\* Exists asks the map and then the bucket, all under the read lock.
Exists(p, i) ==
    /\ call[p].pc = "idle"
    /\ Unlocked
    /\ Answer(p, [Begin(i) EXCEPT !.pc = "exists",
                                  !.key = IF cache[i].key # Absent THEN cache[i].key ELSE db[i]])
    /\ UNCHANGED <<cache, db, writer, acked, tried, registers>>

AllKeys == {cache[i].key : i \in Id} \ {Absent}

GetAll(p) ==
    /\ call[p].pc = "idle"
    /\ Unlocked
    /\ Answer(p, [NoCall EXCEPT !.pc = "all", !.seen = {acked[i] : i \in Id},
                              !.all = AllKeys])
    /\ UNCHANGED <<cache, db, writer, acked, tried, registers>>

Return(p) ==
    /\ call[p].pc \in {"found", "exists", "all"}
    /\ Answer(p, NoCall)
    /\ UNCHANGED <<cache, db, writer, acked, tried, registers>>

\* The process restarts: NewRegistry, and Open on the same file.
Reopen ==
    /\ WithDB
    /\ cache' = [i \in Id |-> NoEntry]
    /\ writer' = NoWriter
    /\ call' = [p \in Reader |-> NoCall]
    /\ UNCHANGED <<db, acked, tried, registers>>

RegistryNext ==
    \/ \E i \in Id, k \in Key \cup {BadKey} : RegisterCache(i, k)
    \/ RegisterDB \/ Reopen
    \/ \E p \in Reader :
          \/ LookupView(p) \/ LookupFill(p) \/ GetAll(p) \/ Return(p)
          \/ \E i \in Id : LookupCache(p, i) \/ Exists(p, i)

RegistrySpec == RegistryInit /\ [][RegistryNext]_registryVars

-----------------------------------------------------------------------------
RegistryTypeOK ==
    /\ cache \in [Id -> [key : Key \cup {Absent, Garbage}, alias : BOOLEAN]]
    /\ db \in [Id -> Key \cup {Absent}] /\ acked \in [Id -> Key \cup {Absent}]
    /\ \A p \in Reader : call[p].pc \in {"idle", "view", "fill", "found", "exists", "all"}

Answered(p) == call[p].pc \in {"found", "exists"}

\* Lookup and Exists report an identifier as unknown only when no Register of
\* it had returned before the call started, although the map they ask first is
\* empty after a restart and the bucket is read without the lock.
FoundAfterRegister ==
    \A p \in Reader : Answered(p) /\ call[p].key = Absent => Absent \in call[p].seen

\* A key whose Register returned nil is in the bucket when the registry has
\* one: a restart, or a later Register that fails, does not lose it.
RegisteredDurable == WithDB => \A i \in Id : acked[i] # Absent => db[i] = acked[i]

\* docs/GLEIPNIR-SPEC-REM-001.md: the server looks the submitter's public key
\* up in the registry.  A key that Lookup returns was registered for the
\* identifier: it is never bytes that the bucket happens to hold by now.
LookupRegistered ==
    \A p \in Reader : call[p].pc = "found" => call[p].key # Garbage

\* A key that Lookup returns is the registered one, or one registered while
\* the call was in progress: a call that started after Register replaced a key
\* does not return the old one.
LookupCurrent ==
    \A p \in Reader :
        call[p].pc = "found" => call[p].key \in call[p].seen \cup {Garbage}

\* The comment "GetAll returns all registered public keys".
GetAllReturnsAll ==
    \A p \in Reader : call[p].pc = "all" => call[p].seen \ {Absent} \subseteq call[p].all

\* What is registered is found by every later call, and with a bucket it stays there
\* until another key replaces it, through restarts and failures (Register, Lookup,
\* Exists).  Which key a Lookup returns is another matter: LookupCurrent.
RegistryKeeps ==
    /\ RegistryTypeOK
    /\ FoundAfterRegister
    /\ RegisteredDurable

=============================================================================
