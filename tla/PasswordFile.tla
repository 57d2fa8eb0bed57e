----------------------------- MODULE PasswordFile -----------------------------
(***************************************************************************)
(* passwords.yml over the life of a deployment: kolla-genpwd, kolla-       *)
(* mergepwd, kolla-writepwd and kolla-readpwd, and the deployments that    *)
(* use it.  Each tool that rewrites a file removes it first, and may be    *)
(* interrupted before the new one is written.  A file that is written only *)
(* in part counts as not written: the operator, who sees the tool fail,    *)
(* starts from the sample again and not from what is left.                 *)
(*                                                                         *)
(* A password is a number: Unset, BlankPair (an ssh key of which both      *)
(* halves are empty, as in the sample file), or a generated value.         *)
(***************************************************************************)
EXTENDS Naturals, FiniteSets, Sequences

CONSTANTS MaxGenerated   \* bound on the runs of kolla-genpwd

ASSUME MaxGeneratedAssumption == MaxGenerated \in Nat

Unset == 0
BlankPair == 1
IsSet(v) == v > BlankPair

ssh_keys == {"nova_ssh_key"}
blank_keys == {"docker_registry_password"}

\* The keys of the sample file by release: Valkey comes with the second one.
KeysOf(release) == {"database_password", "nova_ssh_key", "docker_registry_password",
                    "redis_master_password"}
                     \cup (IF release = 2 THEN {"valkey_master_password"} ELSE {})
AllKeys == KeysOf(2)

Sample(release) == [k \in KeysOf(release) |-> IF k \in ssh_keys THEN BlankPair ELSE Unset]

NoFile == <<>>

VARIABLES files,      \* the passwords file, the one before an upgrade and the new one
          vault,      \* what the vault holds
          deployed,   \* the values that the services were deployed with
          generated,  \* number of the last generated value
          rewrite,    \* the file being rewritten, its new content and its old one
          stage,      \* what the operator is about
          release, first,  \* the release, now and when installed
          lost        \* history: keys whose value was destroyed without a copy in the vault

passwordVars == <<files, vault, deployed, generated, rewrite, stage, release, first, lost>>

PasswordInit ==
    /\ first \in {1, 2} /\ release = first
    /\ files = [live |-> Sample(first), old |-> NoFile, new |-> NoFile]
    /\ vault = [k \in AllKeys |-> Unset] /\ deployed = [k \in AllKeys |-> Unset]
    /\ generated = BlankPair /\ rewrite = <<>> /\ stage = "run" /\ lost = {}

Ready == rewrite = <<>>

\* The tool has read what it needs: the file is removed, and written next.
RemoveFile(f, content) ==
    /\ Ready
    /\ rewrite' = <<[file |-> f, content |-> content, before |-> files[f]]>>
    /\ files' = [files EXCEPT ![f] = NoFile]

----------------------------------------------------------------------------
(* The tools *)

\* The value that genpwd leaves under a key.
Generate(k, v, n) ==
    IF k \in ssh_keys /\ v \in {Unset, BlankPair} THEN n
    ELSE IF v = Unset /\ k \notin blank_keys THEN n ELSE v

genpwd(f) ==
    /\ files[f] # NoFile /\ stage # "restore" /\ f = (IF stage = "upgrade" THEN "new" ELSE "live")
    /\ generated < BlankPair + MaxGenerated /\ generated' = generated + 1
    /\ RemoveFile(f, [k \in DOMAIN files[f] |-> Generate(k, files[f][k], generated')])
    /\ UNCHANGED <<vault, deployed, stage, release, first, lost>>

UnMigrated(old, new) == new

\* The password of Redis becomes the one of Valkey.
Migrated(old, new) ==
    [k \in DOMAIN new |->
        IF /\ k = "valkey_master_password" /\ k \notin DOMAIN old
           /\ "redis_master_password" \in DOMAIN old /\ IsSet(old["redis_master_password"])
        THEN old["redis_master_password"] ELSE new[k]]

Merged(old, new, clean) ==
    LET m == Migrated(old, new)
    IN  [k \in DOMAIN m \cup (IF clean THEN {} ELSE DOMAIN old) |->
            IF k \in DOMAIN old THEN old[k] ELSE m[k]]

mergepwd(clean) ==
    /\ stage = "upgrade" /\ files["old"] # NoFile /\ files["new"] # NoFile
    /\ RemoveFile("live", Merged(files["old"], files["new"], clean))
    /\ UNCHANGED <<vault, deployed, generated, stage, release, first, lost>>

\* writepwd writes what has a value, an empty pair too; it may stop after any key.
writepwd(done) ==
    /\ Ready /\ files["live"] # NoFile /\ stage = "run" /\ done \subseteq DOMAIN files["live"]
    /\ vault' = [k \in AllKeys |-> IF k \in done /\ files["live"][k] # Unset
                                    THEN files["live"][k] ELSE vault[k]]
    /\ UNCHANGED <<files, deployed, generated, rewrite, stage, release, first, lost>>

\* Keys with a value in g that the vault cannot give back.
Unsaved(g) == {k \in DOMAIN g : IsSet(g[k]) /\ ~IsSet(vault[k])}

\* readpwd replaces every value: what the vault does not hold becomes None.
readpwd ==
    /\ files["live"] # NoFile /\ stage # "upgrade"
    /\ RemoveFile("live", [k \in DOMAIN files["live"] |-> vault[k]])
    /\ lost' = lost \cup Unsaved(files["live"])
    /\ UNCHANGED <<vault, deployed, generated, stage, release, first>>

\* The second half of genpwd, mergepwd and readpwd.
WriteFile ==
    /\ ~Ready
    /\ files' = [files EXCEPT ![rewrite[1].file] = rewrite[1].content]
    /\ rewrite' = <<>>
    /\ stage' = IF rewrite[1].file = "live" THEN "run" ELSE stage
    /\ UNCHANGED <<vault, deployed, generated, release, first, lost>>

\* The tool dies between the two, or while it writes: what it has written by then
\* is not a file to go on with, and is modelled as none.  During an upgrade the old file is still there.
Interrupted ==
    /\ ~Ready /\ rewrite' = <<>>
    /\ lost' = lost \cup (IF stage # "upgrade" THEN Unsaved(rewrite[1].before) ELSE {})
    /\ UNCHANGED <<files, vault, deployed, generated, stage, release, first>>

----------------------------------------------------------------------------
(* The operator *)

Deploy ==
    /\ Ready /\ files["live"] # NoFile /\ stage = "run"
    /\ deployed' = [k \in AllKeys |->
                      IF k \in DOMAIN files["live"] /\ IsSet(files["live"][k])
                      THEN files["live"][k] ELSE deployed[k]]
    /\ UNCHANGED <<files, vault, generated, rewrite, stage, release, first, lost>>

\* An upgrade keeps a copy of the file and starts from the sample of the release.
Upgrade ==
    /\ Ready /\ files["live"] # NoFile /\ stage = "run" /\ release = 1
    /\ files' = [files EXCEPT !["old"] = files["live"], !["new"] = Sample(2)]
    /\ stage' = "upgrade" /\ release' = 2
    /\ UNCHANGED <<vault, deployed, generated, rewrite, first, lost>>

\* A file that an interrupted tool has removed or written in part is copied from the sample again; the
\* live one is then read from the vault before anything else.
CopySample(f) ==
    /\ Ready /\ files[f] = NoFile
    /\ IF stage = "upgrade" THEN f = "new" ELSE f = "live"
    /\ files' = [files EXCEPT ![f] = Sample(release)]
    /\ stage' = IF f = "live" THEN "restore" ELSE stage
    /\ UNCHANGED <<vault, deployed, generated, rewrite, release, first, lost>>

PasswordNext ==
    \/ \E f \in {"live", "new"} : genpwd(f) \/ CopySample(f)
    \/ \E clean \in BOOLEAN : mergepwd(clean)
    \/ \E done \in SUBSET AllKeys : writepwd(done)
    \/ readpwd \/ WriteFile \/ Interrupted \/ Deploy \/ Upgrade

PasswordSpec == PasswordInit /\ [][PasswordNext]_passwordVars

\* A password that a deployment has used stays what it is through any sequence of
\* kolla-genpwd, kolla-mergepwd, kolla-writepwd, kolla-readpwd and upgrades, tools
\* that die halfway included, and the first password of Valkey after an upgrade is
\* the one Redis was deployed with; a key is excused only once its value was
\* destroyed with no copy in the vault.
PasswordsStable ==
    [][/\ \A k \in AllKeys \ lost : IsSet(deployed[k]) => deployed'[k] = deployed[k]
       /\ (/\ first = 1 /\ IsSet(deployed["redis_master_password"])
           /\ ~IsSet(deployed["valkey_master_password"]) /\ IsSet(deployed'["valkey_master_password"])
           /\ {"redis_master_password", "valkey_master_password"} \cap lost = {})
          => deployed'["valkey_master_password"] = deployed["redis_master_password"]]_passwordVars
=============================================================================
