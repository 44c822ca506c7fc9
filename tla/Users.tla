------------------------------- MODULE Users -------------------------------
(***************************************************************************)
(* The account table of kernel/users.c, with the first time setup, the     *)
(* login loop and the shell's account commands that work on it, and its    *)
(* way through the snapshot: persist_save writes the accounts in table     *)
(* order, persist_mount imports them again.                                *)
(*                                                                         *)
(* A save happens whole or not at all, and a restart finds the last one    *)
(* that did: that is what Persist establishes for a drive that reports its *)
(* errors.  A password stands for its hash.  Names are valid ones of       *)
(* acceptable length, passwords are long enough: what is refused on those  *)
(* grounds changes nothing.  Home directories are left out, and the  *)
(* shell's file commands are taken not to touch /etc/passwd.               *)
(***************************************************************************)
EXTENDS Integers, Sequences, FiniteSets, SequencesExt, FiniteSetsExt

CONSTANTS
    UserMax,     \* USER_MAX
    Names,       \* user names, "root" among them
    Passwords,
    FirstUid,    \* 1000
    MaxUid,      \* bound: useradd stops when next_uid reaches it
    NULL

ASSUME UsersAssumption ==
    /\ UserMax \in Nat \ {0}
    /\ "root" \in Names /\ "" \notin Names
    /\ FirstUid \in Nat \ {0}
    /\ MaxUid \in Nat /\ MaxUid >= FirstUid
    /\ NULL \notin Nat

Slots == 0 .. UserMax - 1
Account == [name : Names, uid : 0 .. MaxUid, pw : Passwords]
Vacant == [name |-> "", uid |-> 0, pw |-> ""]

VARIABLES
    users,      \* users[i], Vacant when not active
    current,    \* the slot of the user logged in, or NULL
    next_uid,
    pc,         \* setup, everyday, login, shell, flush
    passwd,     \* the lines of /etc/passwd: name and uid
    saved,      \* the snapshot: accounts in table order, and /etc/passwd
    who         \* history: whose password was given at the last switch

vars == <<users, current, next_uid, pc, passwd, saved, who>>
-----------------------------------------------------------------------------
Active == {i \in Slots : users[i] # Vacant}
Free == Slots \ Active

Named(name) == {i \in Active : users[i].name = name}

is_root == current # NULL /\ users[current].uid = 0

\* Variants of a table walk, for the mutants: every slot, and as many slots
\* as there are accounts.
AccountsOf_Gaps(table) == [k \in 1 .. UserMax |-> table[k - 1]]
AccountsOf_ByCount(table) ==
    SelectSeq([k \in 1 .. Cardinality({i \in Slots : table[i] # Vacant}) |-> table[k - 1]],
              LAMBDA u : u # Vacant)

\* The accounts in table order, users_at(0), users_at(1) and so on: a walk
\* that skips the slots that are not active.
AccountsOf(table) ==
    LET walk[k \in 0 .. UserMax] ==
            IF k = 0 THEN <<>>
            ELSE IF table[k - 1] = Vacant THEN walk[k - 1]
            ELSE Append(walk[k - 1], table[k - 1])
    IN  walk[UserMax]

Lines(accounts) == [k \in DOMAIN accounts |-> <<accounts[k].name, accounts[k].uid>>]

\* The first line is appended like the others (PasswdTruthful).
sync_passwd_file_Appends == passwd' = passwd \o Lines(AccountsOf(users'))

\* The first line truncates the file, the others are appended; without
\* accounts it ends up empty.
sync_passwd_file == passwd' = Lines(AccountsOf(users'))

\* An account that can be created; otherwise nothing changes.
users_add(name, pw, admin) ==
    /\ Named(name) = {} /\ Free # {}
    /\ admin \/ next_uid < MaxUid
    /\ users' = [users EXCEPT ![Min(Free)] =
          [name |-> name, uid |-> IF admin THEN 0 ELSE next_uid, pw |-> pw]]
    /\ next_uid' = IF admin THEN next_uid ELSE next_uid + 1
    /\ sync_passwd_file

\* The right password for an account.
check_password(i, pw) == users[i].pw = pw

users_switch(name, pw) ==
    \E i \in Named(name) :
        /\ check_password(i, pw)
        /\ current' = i
        /\ who' = name
-----------------------------------------------------------------------------
(* The snapshot.                                                           *)

\* What persist_save writes of the state here.
Export == [accounts |-> AccountsOf(users), passwd |-> passwd]
Nothing == [accounts |-> <<>>, passwd |-> <<>>]

\* users_import in turn: the first free slot, so a table without gaps.
Import(accounts) ==
    [i \in Slots |-> IF i + 1 <= Len(accounts) THEN accounts[i + 1] ELSE Vacant]

\* Forgets to move next_uid past the imported ones (UidsUnique).
ImportUid_Stays(accounts) == FirstUid

ImportUid(accounts) == Max({FirstUid} \union {accounts[k].uid + 1 : k \in DOMAIN accounts})

\* persist_flush behind a command, this one or another that marked the tree
\* dirty: done, or failed and left for later.
Flush ==
    /\ pc = "flush"
    /\ pc' = "shell"
    /\ saved' \in {saved, Export}
    /\ UNCHANGED <<users, current, next_uid, passwd, who>>

\* Reset, power cut or reboot; then users_init and persist_mount.  While the
\* accounts come in /etc does not exist and sync_passwd_file does nothing:
\* the file is the one in the snapshot.
Restart ==
    /\ users' = Import(saved.accounts)
    /\ next_uid' = ImportUid(saved.accounts)
    /\ passwd' = saved.passwd
    /\ current' = NULL
    /\ who' = NULL
    /\ pc' = IF saved.accounts = <<>> THEN "setup" ELSE "login"
    /\ UNCHANGED saved
-----------------------------------------------------------------------------
(* users_setup_wizard.                                                     *)

SetupRoot ==
    /\ pc = "setup"
    /\ \E pw \in Passwords : users_add("root", pw, TRUE)
    /\ pc' = "everyday"
    /\ UNCHANGED <<current, saved, who>>

\* kmain saves behind the wizard, with or without an everyday account.
SetupUser ==
    /\ pc = "everyday"
    /\ \/ \E name \in Names, pw \in Passwords : users_add(name, pw, FALSE)
       \/ UNCHANGED <<users, next_uid, passwd>>
    /\ saved' \in {saved, Export'}
    /\ pc' = "login"
    /\ UNCHANGED <<current, who>>
-----------------------------------------------------------------------------
(* users_login and the shell.                                              *)

Login ==
    /\ pc = "login"
    /\ \E name \in Names, pw \in Passwords : users_switch(name, pw)
    /\ pc' = "shell"
    /\ UNCHANGED <<users, next_uid, passwd, saved>>

\* shell_run flushes behind `logout` too, then users_logout; kmain's session
\* loop comes back to the login prompt.
Logout ==
    /\ pc = "shell"
    /\ current' = NULL
    /\ who' = NULL
    /\ saved' \in {saved, Export}
    /\ pc' = "login"
    /\ UNCHANGED <<users, next_uid, passwd>>

UserAdd ==
    /\ pc = "shell"
    /\ is_root
    /\ \E name \in Names, pw \in Passwords : users_add(name, pw, FALSE)
    /\ pc' = "flush"
    /\ UNCHANGED <<current, saved, who>>

\* Without the tests for the administrator and for the user logged in
\* (RemovalsSafe).
UserDel_Unchecked ==
    /\ pc = "shell"
    /\ is_root
    /\ \E name \in Names : \E i \in Named(name) :
        users' = [users EXCEPT ![i] = Vacant]
    /\ sync_passwd_file
    /\ pc' = "flush"
    /\ UNCHANGED <<current, next_uid, saved, who>>

\* cmd_userdel.
UserDel ==
    /\ pc = "shell"
    /\ is_root
    /\ \E name \in Names : \E i \in Named(name) :
        /\ users[i].uid # 0
        /\ i # current
        /\ users' = [users EXCEPT ![i] = Vacant]
    /\ sync_passwd_file
    /\ pc' = "flush"
    /\ UNCHANGED <<current, next_uid, saved, who>>

\* cmd_passwd: one's own with the current password, another's as root.
Passwd ==
    /\ pc = "shell"
    /\ \E name \in Names : \E i \in Named(name), pw \in Passwords :
        /\ IF name # users[current].name
           THEN is_root
           ELSE \E old \in Passwords : check_password(current, old)
        /\ users' = [users EXCEPT ![i].pw = pw]
    /\ pc' = "flush"
    /\ UNCHANGED <<current, next_uid, passwd, saved, who>>

Su ==
    /\ pc = "shell"
    /\ \E name \in Names, pw \in Passwords : users_switch(name, pw)
    /\ pc' = "flush"
    /\ UNCHANGED <<users, next_uid, passwd, saved>>

\* users_init, before there is a snapshot.
Init ==
    /\ users = [i \in Slots |-> Vacant]
    /\ current = NULL
    /\ next_uid = FirstUid
    /\ pc = "setup"
    /\ passwd = <<>>
    /\ saved = Nothing
    /\ who = NULL

Next ==
    \/ SetupRoot \/ SetupUser \/ Login \/ Logout
    \/ UserAdd \/ UserDel \/ Passwd \/ Su \/ Flush \/ Restart

Spec == Init /\ [][Next]_vars
-----------------------------------------------------------------------------
(* Properties.                                                             *)

TypeOK ==
    /\ users \in [Slots -> Account \union {Vacant}]
    /\ current \in Slots \union {NULL}
    /\ next_uid \in FirstUid .. MaxUid
    /\ pc \in {"setup", "everyday", "login", "shell", "flush"}
    /\ passwd \in Seq(Names \X (0 .. MaxUid))
    /\ saved.accounts \in Seq(Account)
    /\ saved.passwd \in Seq(Names \X (0 .. MaxUid))
    /\ who \in Names \union {NULL}

\* Accounts are told apart by uid as well as by name, also after accounts
\* were removed, the machine restarted and others added (users.c:175, 230).
UidsUnique ==
    \A i, j \in Active :
        users[i].uid = users[j].uid \/ users[i].name = users[j].name => i = j

\* Somebody can always administer the machine: once setup has made the root
\* account nothing removes it, in RAM or in the snapshot ("never remove the
\* last administrator", users.c:244).
RootRemains ==
    /\ pc # "setup" => \E i \in Active : users[i].uid = 0
    /\ saved # Nothing => \E k \in DOMAIN saved.accounts : saved.accounts[k].uid = 0

\* The slot `current` points to still belongs to whoever gave a password
\* last: it is not removed, nor taken by another account (users.c:245, 275).
CurrentIsWho ==
    pc \in {"shell", "flush"} => current \in Active /\ users[current].name = who

\* userdel takes neither the last administrator nor whoever is logged in, also
\* behind su, passwd, logouts and restarts.
RemovalsSafe == RootRemains /\ CurrentIsWho

\* Whatever gaps removals left in the table, a restart after a save brings
\* back the same accounts (persist.c:163-173, 386-400).
AccountsSurvive ==
    {Import(Export.accounts)[i] : i \in Slots} \ {Vacant} = {users[i] : i \in Active}

\* What `cat /etc/passwd` shows is the table, also after a restart has read
\* the table and the file from different parts of the snapshot ("keeps
\* /etc/passwd in step with the table", users.c:53-54).
PasswdTruthful == passwd = Lines(AccountsOf(users))
=============================================================================
