----------------------------- MODULE MetricsTargets -----------------------------
(* What HouseMetrics keeps in its key-value store: the targets it scrapes      *)
(* (scrape.rs, deployment.rs) and the devices that may write (auth.rs).  A set  *)
(* of the key-value store may fail; the worker scrapes with no lock held; a     *)
(* boot loads both, and then applies the targets of its build.                  *)
EXTENDS Integers, Sequences, FiniteSets, SequencesExt, Functions

CONSTANTS Name, Url,
          Deployment,             \* the target lists a build may have (already parsed)
          MAX_TARGETS, MAX_DEVICES,
          MaxIds, MaxBoots        \* bounds

VARIABLES inner,                  \* targets, next_id and managed_ids of Scrapes
          seen,                   \* id -> the URL whose outcome the target shows
          due,                    \* what the worker still has to scrape
          devices,                \* records and next_id of Devices
          kv,                     \* the values of the keys "scrapes" and "devices"
          told,                   \* device id -> "made" or "removed": what its owner was told
          booted, boots           \* configured and the worker running
scrapes == <<inner, seen, due>>
vars == <<scrapes, devices, kv, told, booted, boots>>

NoTargets == [targets |-> <<>>, next |-> 1, managed |-> {}]
NoDevices == [records |-> <<>>, next |-> 1]
Unknown == ""
Init == /\ inner = NoTargets /\ seen = << >> /\ due = <<>> /\ devices = NoDevices
        /\ kv = [scrapes |-> NoTargets, devices |-> NoDevices] /\ told = << >>
        /\ booted = FALSE /\ boots = 1
Target(id, name, url) == [id |-> id, name |-> name, url |-> url]
Ids(list) == {list[i].id : i \in DOMAIN list}

-----------------------------------------------------------------------------
(* Targets.                                                                  *)
\* parse: no name and no URL twice.
Parsed(config) == \A i, j \in DOMAIN config : i # j => config[i].name # config[j].name /\ config[i].url # config[j].url
add(name, url) ==
    /\ booted /\ Len(inner.targets) < MAX_TARGETS /\ inner.next <= MaxIds
    /\ LET made == [inner EXCEPT !.targets = Append(@, Target(inner.next, name, url)), !.next = @ + 1]
       IN  \/ inner' = made /\ kv' = [kv EXCEPT !.scrapes = made] /\ seen' = seen @@ (inner.next :> Unknown)
           \/ inner' = [inner EXCEPT !.next = @ + 1] /\ UNCHANGED <<kv, seen>>
    /\ UNCHANGED <<due, devices, told, booted, boots>>
Without(list, id) == SelectSeq(list, LAMBDA r : r.id # id)
remove(id) ==
    /\ booted /\ id \in Ids(inner.targets)
    /\ LET left == [inner EXCEPT !.targets = Without(@, id)]
       IN  \/ inner' = left /\ kv' = [kv EXCEPT !.scrapes = left]
           \/ UNCHANGED <<inner, kv>>
    /\ UNCHANGED <<seen, due, devices, told, booted, boots>>
\* What configure keeps: a target nobody manages, and one that the list names.
Retained(t, config) ==
    t.id \in inner.managed => \E i \in DOMAIN config : config[i].name = t.name \/ config[i].url = t.url
\* One target of the list adopts the first that has its name or URL, or is new.
Adopted(all, want) ==
    LET hits == {i \in DOMAIN all.targets : all.targets[i].name = want.name \/ all.targets[i].url = want.url}
        first == CHOOSE i \in hits : \A j \in hits : i <= j
    IN  IF hits # {}
        THEN [all EXCEPT !.targets[first] = Target(@.id, want.name, want.url),
                         !.managed = @ \cup {all.targets[first].id}]
        ELSE [targets |-> Append(all.targets, Target(all.next, want.name, want.url)),
              next |-> all.next + 1, managed |-> all.managed \cup {all.next}]
Configured(config) ==
    FoldLeft(Adopted, [targets |-> SelectSeq(inner.targets, LAMBDA t : Retained(t, config)),
                       next |-> inner.next, managed |-> {}], config)
\* At boot, before the worker starts.
configure(config) ==
    /\ ~booted /\ Parsed(config) /\ booted' = TRUE
    /\ LET new == Configured(config)
       IN  IF Len(new.targets) > MAX_TARGETS \/ new = inner THEN UNCHANGED <<inner, kv>>
           ELSE \/ inner' = new /\ kv' = [kv EXCEPT !.scrapes = new]
                \/ UNCHANGED <<inner, kv>>
    /\ seen' = [id \in Ids(inner'.targets) |-> Unknown]
    /\ UNCHANGED <<due, devices, told, boots>>
\* run_due: some targets are due; the lock is given up while each is fetched.
RunDue == /\ booted /\ due = <<>>
          /\ \E some \in SUBSET Ids(inner.targets) \ {{}} :
                due' = SelectSeq(inner.targets, LAMBDA t : t.id \in some)
          /\ UNCHANGED <<inner, seen, devices, kv, told, booted, boots>>
Found(t) == Ids(inner.targets) \cap {t.id}
Scraped == /\ due # <<>> /\ due' = Tail(due)
           /\ seen' = [id \in DOMAIN seen |-> IF id \in Found(Head(due)) THEN Head(due).url ELSE seen[id]]
           /\ UNCHANGED <<inner, devices, kv, told, booted, boots>>

-----------------------------------------------------------------------------
(* Devices.                                                                  *)
\* What is left in memory when the new record could not be stored.
Popped(made) == [records |-> Front(made.records), next |-> made.next - 1]
create(name) ==
    /\ booted /\ Len(devices.records) < MAX_DEVICES /\ devices.next <= MaxIds
    /\ \A i \in DOMAIN devices.records : devices.records[i].name # name
    /\ LET made == [records |-> Append(devices.records, [id |-> devices.next, name |-> name]),
                    next |-> devices.next + 1]
       IN  \/ /\ devices' = made /\ kv' = [kv EXCEPT !.devices = made]
              /\ told' = (devices.next :> "made") @@ told
           \/ devices' = Popped(made) /\ UNCHANGED <<kv, told>>
    /\ UNCHANGED <<scrapes, booted, boots>>
\* The record goes from memory first; a failed set leaves it in the key-value store.
revoke(id) ==
    /\ booted /\ id \in Ids(devices.records)
    /\ devices' = [devices EXCEPT !.records = Without(@, id)]
    /\ \/ kv' = [kv EXCEPT !.devices = devices'] /\ told' = (id :> "removed") @@ told
       \/ UNCHANGED <<kv, told>>
    /\ UNCHANGED <<scrapes, booted, boots>>
writer(id) == id \in Ids(devices.records)

Reboot == /\ booted /\ boots < MaxBoots /\ boots' = boots + 1 /\ booted' = FALSE
          /\ inner' = kv.scrapes /\ devices' = kv.devices /\ seen' = << >> /\ due' = <<>>
          /\ UNCHANGED <<kv, told>>

Next == \/ \E name \in Name, url \in Url : add(name, url)
        \/ \E config \in Deployment : configure(config)
        \/ \E id \in 1..MaxIds : remove(id) \/ revoke(id)
        \/ RunDue \/ Scraped \/ Reboot
        \/ \E name \in Name : create(name)
Spec == Init /\ [][Next]_vars

-----------------------------------------------------------------------------
TypeOK == /\ IsInjective([i \in DOMAIN inner.targets |-> inner.targets[i].id])
          /\ Len(inner.targets) <= MAX_TARGETS /\ Len(devices.records) <= MAX_DEVICES

(* A token that works, now or after a restart, is one its owner was told, and   *)
(* one told to be removed never works again: not after a failed set, not after  *)
(* a restart (create, remove, load).                                            *)
TokensAreTrue == /\ \A id \in Ids(kv.devices.records) : id \in DOMAIN told /\ told[id] = "made"
                 /\ \A id \in Ids(devices.records) : id \in DOMAIN told /\ told[id] = "made"
                 /\ \A id \in DOMAIN told : told[id] = "removed" => ~writer(id)

(* What the page lists is what a restart finds (add, remove, configure), and    *)
(* the outcome a target shows is of its own URL, whatever was removed and added *)
(* while the worker fetched (run_due).                                          *)
ListedIsTrue == /\ inner.targets = kv.scrapes.targets /\ inner.managed = kv.scrapes.managed
                /\ booted => \A i \in DOMAIN inner.targets :
                       seen[inner.targets[i].id] \in {Unknown, inner.targets[i].url}

(* "retaining unrelated UI targets": what configure takes away was managed by   *)
(* an earlier build.                                                            *)
ManualIsKept ==
    booted' /\ ~booted =>
        Ids(inner.targets) \ Ids(inner'.targets) \subseteq inner.managed

(* configure says: "Matching URLs adopt already-entered targets without         *)
(* duplicate scrapes."  A target adopted by its name takes the URL of another.  *)
Distinct(list) == IsInjective([i \in DOMAIN list |-> list[i].url])
NoDuplicateScrapes == [][booted' /\ ~booted /\ Distinct(inner.targets) => Distinct(inner'.targets)]_vars
=============================================================================
