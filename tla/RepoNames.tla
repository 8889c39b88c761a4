----------------------------- MODULE RepoNames -----------------------------
(***************************************************************************)
(* The names of one account's repositories: create, fork, rename, delete,  *)
(* and the redirect a rename leaves behind.                                *)
(*                                                                         *)
(* Source: domain/repo_service.go (CreateRepo, UpdateRepo, RepoRedirect,   *)
(* ForkRepo, DeleteRepo), store/queries_repo.go and the index              *)
(* repos_owner_name_uq of the schema.                                      *)
(*                                                                         *)
(* Granularity.  A statement is one action.  A request reads the row by    *)
(* its name, writes it by its key, and, after a rename, writes the         *)
(* redirect in a statement of its own, which may fail.                     *)
(*                                                                         *)
(* Abstractions.  A name is its lower-case form; a repository is its key.  *)
(* Visibility, settings and the bare repository on disk are left out: none *)
(* of them decides what a name leads to.                                   *)
(***************************************************************************)
EXTENDS Naturals

CONSTANTS Name,
          Session,     \* requests under way
          NoName,      \* the name of no row
          MaxRepos,    \* rows a run inserts
          MaxRedirectFaults   \* redirects a run loses

ASSUME NamesAssumption ==
    MaxRepos \in Nat /\ MaxRedirectFaults \in Nat /\ NoName \notin Name

VARIABLES count,     \* rows inserted
          name,      \* name of each row
          live,      \* rows with no deleted_at
          redirect,  \* repo_redirects: the row an old name leads to, 0 for none
          session,
          faults,
          heir,      \* history: the row that had each name last, 0 for none
          excuse     \* history: why a name may lead elsewhere all the same

namesVars == <<count, name, live, redirect, session, faults, heir, excuse>>

Row == 1..MaxRepos
Quiet == [pc |-> "idle"]

Renaming == [pc : {"update", "redirect"}, row : Row, old : Name, new : Name]
Leaving == [pc : {"delete"}, row : Row]

\* A name was given up by a rename that had not read it; its redirect was lost; or
\* it was written after that of a later holder.
Excuse == {"none", "raced", "lost", "overtaken"}

NamesTypeOK ==
    /\ count \in 0..MaxRepos /\ live \subseteq 1..count
    /\ name \in [Row -> Name \cup {NoName}]
    /\ redirect \in [Name -> 0..count]
    /\ session \in [Session -> {Quiet} \cup Renaming \cup Leaving]
    /\ faults \in 0..MaxRedirectFaults
    /\ heir \in [Name -> 0..count]
    /\ excuse \in [Name -> Excuse]
    \* repos_owner_name_uq
    /\ \A r, s \in live : name[r] = name[s] => r = s

NamesInit ==
    /\ count = 0 /\ live = {}
    /\ name = [r \in Row |-> NoName]
    /\ redirect = [n \in Name |-> 0]
    /\ session = [c \in Session |-> Quiet]
    /\ faults = 0
    /\ heir = [n \in Name |-> 0]
    /\ excuse = [n \in Name |-> "none"]

\* RepoByOwnerName.
Holder(n) == {r \in live : name[r] = n}

\* The direct lookup, then RepoByRedirect: the rows a name leads to.
LeadsTo(n) == IF Holder(n) # {} THEN Holder(n) ELSE {redirect[n]} \cap live

\* Mutant: no unique index on (owner_pk, lower(name)).
FreeAlways(n, but) == TRUE

\* repos_owner_name_uq: no live row but these has the name.
Free(n, but) == Holder(n) \subseteq but

\* A rename of r away from n has its redirect still to write.
Owed(n, r) == \E c \in Session : session[c].pc = "redirect" /\ session[c].old = n /\ session[c].row = r

Ends(c) == session' = [session EXCEPT ![c] = Quiet]

-----------------------------------------------------------------------------
\* InsertRepo, which the index may refuse.  ForkRepo first looks the name up, to
\* answer a fork it has made before; its insert is the same.
CreateOrFork(n) ==
    /\ count < MaxRepos
    /\ Free(n, {})
    /\ count' = count + 1
    /\ name' = [name EXCEPT ![count'] = n]
    /\ live' = live \cup {count'}
    /\ heir' = [heir EXCEPT ![n] = count'] /\ excuse' = [excuse EXCEPT ![n] = "none"]
    /\ UNCHANGED <<redirect, session, faults>>

RenameReads(c, n, new) ==
    /\ session[c] = Quiet
    /\ \E r \in Holder(n) :
          session' = [session EXCEPT ![c] = [pc |-> "update", row |-> r, old |-> n, new |-> new]]
    /\ UNCHANGED <<count, name, live, redirect, faults, heir, excuse>>

\* UpdateRepo: ErrNotFound when the row was deleted meanwhile, refused by the index
\* when another live row has the name.  The name it gives up may be one a second
\* rename has given the row since: no redirect is written for that.
RenameUpdates(c) ==
    LET s == session[c] IN
    /\ s.pc = "update"
    /\ IF s.row \in live /\ Free(s.new, {s.row})
       THEN /\ name' = [name EXCEPT ![s.row] = s.new]
            /\ heir' = [heir EXCEPT ![s.new] = s.row]
            /\ excuse' = [excuse EXCEPT ![name[s.row]] = IF name[s.row] # s.old THEN "raced" ELSE @,
                                        ![s.new] = "none"]
            /\ IF s.new = s.old THEN Ends(c)
                                ELSE session' = [session EXCEPT ![c].pc = "redirect"]
       ELSE Ends(c) /\ UNCHANGED <<name, heir, excuse>>
    /\ UNCHANGED <<count, live, redirect, faults>>

\* Mutant: ON CONFLICT DO NOTHING.
RebindOnce(s) == IF redirect[s.old] = 0 THEN [redirect EXCEPT ![s.old] = s.row] ELSE redirect

\* UpsertRepoRedirect.
Rebind(s) == [redirect EXCEPT ![s.old] = s.row]

\* Another row has had the old name since, and left it with its own redirect
\* written: the upsert still to come takes the name from that row.
Overtakes(s) == heir[s.old] # s.row /\ Holder(s.old) = {} /\ ~Owed(s.old, heir[s.old])

RenameRedirects(c) ==
    LET s == session[c] IN
    /\ s.pc = "redirect"
    /\ redirect' = Rebind(s)
    /\ excuse' = [excuse EXCEPT ![s.old] = IF Overtakes(s) THEN "overtaken" ELSE @]
    /\ Ends(c)
    /\ UNCHANGED <<count, name, live, faults, heir>>

\* The upsert fails, or the process dies before it: the rename stands.
RenameLosesRedirect(c) ==
    LET s == session[c] IN
    /\ s.pc = "redirect"
    /\ faults < MaxRedirectFaults
    /\ faults' = faults + 1
    /\ excuse' = [excuse EXCEPT ![s.old] =
                      IF heir[s.old] = s.row /\ s.row \notin LeadsTo(s.old) THEN "lost" ELSE @]
    /\ Ends(c)
    /\ UNCHANGED <<count, name, live, redirect, heir>>

DeleteReads(c, n) ==
    /\ session[c] = Quiet
    /\ \E r \in Holder(n) : session' = [session EXCEPT ![c] = [pc |-> "delete", row |-> r]]
    /\ UNCHANGED <<count, name, live, redirect, faults, heir, excuse>>

\* SoftDeleteRepo, by key: the row may have another name by now.
Deletes(c) ==
    /\ session[c].pc = "delete"
    /\ live' = live \ {session[c].row}
    /\ Ends(c)
    /\ UNCHANGED <<count, name, redirect, faults, heir, excuse>>

-----------------------------------------------------------------------------
NamesNext ==
    \/ \E n \in Name : CreateOrFork(n)
    \/ \E c \in Session : \/ \E n, new \in Name : RenameReads(c, n, new)
                          \/ \E n \in Name : DeleteReads(c, n)
                          \/ RenameUpdates(c) \/ RenameRedirects(c) \/ RenameLosesRedirect(c)
                          \/ Deletes(c)

NamesSpec == NamesInit /\ [][NamesNext]_namesVars

-----------------------------------------------------------------------------
(* What holds. *)

\* A name leads to the last repository that had it, wherever its renames have taken
\* it (domain/repo_service.go:513, UpsertRepoRedirect), unless that repository is
\* deleted, the rename away from the name has still to write its redirect, or an
\* excuse is on record since it took the name: two requests renamed it at once and
\* the one that moved it on had read another name; the redirect was lost; or the
\* redirect of an earlier holder, delayed until this one's was written, replaced it.
OldNamesLead ==
    \A n \in Name : heir[n] \in live /\ excuse[n] = "none" =>
        LeadsTo(n) = {heir[n]} \/ Owed(n, heir[n])
=============================================================================
