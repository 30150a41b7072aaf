----------------------------- MODULE KernelData -----------------------------
(***************************************************************************)
(* The two tables that kernel_init sets up: the users of kernel/user.c and *)
(* the files of kernel/fs.c, with what the shell's commands users and ls   *)
(* and read_file show of them.  Each is an array and a count; entries are  *)
(* appended, found by name from the front, and removed by moving the ones  *)
(* behind them forward.                                                    *)
(*                                                                         *)
(* The character fields of an entry lie one behind the other in memory,    *)
(* strings end where a NUL is, and what was written behind it stays.       *)
(* Calls that return false change nothing and are no steps.                *)
(***************************************************************************)
EXTENDS Strings, Printf, FiniteSets

CONSTANTS
  UserName, Passwords,      \* strings callers pass: sequences of characters, no NUL
  FileName, Contents,
  USERNAME_LENGTH, PASSWORD_LENGTH, FILENAME_LENGTH, FILE_CONTENT_LENGTH,
  MAX_USERS, MAX_FILES,
  FirstUid,
  MaxAdds                   \* bound: users added in one behaviour

ASSUME TablesAssumption ==
  /\ USERNAME_LENGTH \in Nat \ {0} /\ PASSWORD_LENGTH \in Nat \ {0}
  /\ FILENAME_LENGTH \in Nat \ {0} /\ FILE_CONTENT_LENGTH \in Nat \ {0}
  /\ MAX_USERS \in Nat \ {0} /\ MAX_FILES \in Nat \ {0}
  /\ FirstUid \in Nat /\ MaxAdds \in Nat
  /\ \A s \in UserName \cup Passwords \cup FileName \cup Contents : s \in Seq(STRING \ {NUL})

\* Pieces of text that the formats and the commands name as one character,
\* and no character of a string is.
Wording == {"Users:", "  ", " (UID: ", ", ", "admin", "user", "Files:", "users", "files"}

\* What is listed can be read back: a number is shown as it is below 2^31, and
\* the names that init_file_system gives have no line breaks and no slashes.
ASSUME ListingAssumption ==
  /\ LONG \in Nat /\ FirstUid + MaxAdds =< LONG \div 2
  /\ \A s \in UserName \cup FileName : \A i \in DOMAIN s : s[i] \notin Wording
  /\ \A s \in FileName : Append(s, "/") \notin FileName /\ \A i \in DOMAIN s : s[i] # "\n"

VARIABLES
  users, user_count, next_uid,
  file_list, file_count,
  command,   \* history: <<"users">>, <<"files">>, the file read, or nothing
  console,   \* what that command has shown
  table      \* bound: the table a behaviour works on; no function touches both

uvars == <<users, user_count, next_uid>>
fvars == <<file_list, file_count>>
shown == <<command, console>>
vars  == <<uvars, fvars, shown, table>>

\* Mutant: the last entry is not moved.
RemovedShort(array, count, i) ==
  [j \in DOMAIN array |-> IF i =< j /\ j + 2 < count THEN array[j+1] ELSE array[j]]
\* The array after removal of entry i: the others move up.
Removed(array, count, i) ==
  [j \in DOMAIN array |-> IF i =< j /\ j + 1 < count THEN array[j+1] ELSE array[j]]

Quiet == command' = <<>> /\ console' = <<>> /\ UNCHANGED table
Show(what, text) == command' = what /\ console' = text /\ UNCHANGED <<uvars, fvars, table>>
-----------------------------------------------------------------------------
(***************************************************************************)
(* Users: char username[], then char password[].                           *)
(***************************************************************************)
NAME == 0
PASSWORD == USERNAME_LENGTH

UsersNamed(n) == {i \in 0..user_count-1 : strcmp(users[i].text, NAME, n)}

\* Mutant: an existing user of the name is not looked for.
RefusedDuplicate(n, password) ==
  user_count >= MAX_USERS \/ Len(n) >= USERNAME_LENGTH \/ Len(password) >= PASSWORD_LENGTH
\* Mutant: a name may fill its field.
RefusedLate(n, password) ==
  \/ user_count >= MAX_USERS \/ Len(n) > USERNAME_LENGTH \/ Len(password) >= PASSWORD_LENGTH
  \/ UsersNamed(n) # {}
Refused(n, password) ==
  \/ user_count >= MAX_USERS \/ Len(n) >= USERNAME_LENGTH \/ Len(password) >= PASSWORD_LENGTH
  \/ UsersNamed(n) # {}

\* Mutant: numbers are taken from the count.
FreshUid == FirstUid + user_count
NewUid == next_uid

add_user(n, password, is_admin) ==
  /\ table = "users" /\ ~Refused(n, password)
  /\ users' = [users EXCEPT ![user_count] =
       [text |-> strcpy(strcpy(@.text, NAME, n), PASSWORD, password),
        is_admin |-> is_admin, uid |-> NewUid, gid |-> IF is_admin THEN 0 ELSE 1000]]
  /\ next_uid' = next_uid + 1
  /\ user_count' = user_count + 1
  /\ Quiet /\ UNCHANGED fvars

remove_user(n) ==
  /\ UsersNamed(n) # {}
  /\ users' = Removed(users, user_count, Min(UsersNamed(n)))
  /\ user_count' = user_count - 1
  /\ Quiet /\ UNCHANGED <<next_uid, fvars>>

get_user(n) == users[Min(UsersNamed(n))]
authenticate_user(n, password) ==
  UsersNamed(n) # {} /\ strcmp(get_user(n).text, PASSWORD, password)

UserFormat == <<"  ", "%", "s", " (UID: ", "%", "d", ", ", "%", "s", ")", "\n">>
UserLine(u) ==
  printf(UserFormat, <<Text(u.text, NAME), u.uid, <<IF u.is_admin THEN "admin" ELSE "user">>>>)

list_users ==
  /\ table = "users"
  /\ Show(<<"users">>, <<"Users:", "\n">> \o FlattenSeq([i \in 1..user_count |-> UserLine(users[i-1])]))
-----------------------------------------------------------------------------
(***************************************************************************)
(* Files: char name[], char content[], then bool is_directory, here the    *)
(* character TRUE or NUL.                                                  *)
(***************************************************************************)
CONTENT == FILENAME_LENGTH
IS_DIRECTORY == FILENAME_LENGTH + FILE_CONTENT_LENGTH
SIZEOF_FILE == IS_DIRECTORY + 1

FilesNamed(n) == {i \in 0..file_count-1 : strcmp(file_list[i], NAME, n)}
FirstFile(n) == Min(FilesNamed(n))
IsDirectory(file) == file[IS_DIRECTORY] # NUL

\* Mutant: the limit is tested one file late.
FullLate == file_count > MAX_FILES
Full == file_count >= MAX_FILES

create_file(n, is_directory) ==
  /\ table = "files" /\ ~Full /\ Len(n) # 0 /\ Len(n) < FILENAME_LENGTH
  /\ file_list' = [file_list EXCEPT ![file_count] =
       [strcpy(@, NAME, n) EXCEPT ![IS_DIRECTORY] = IF is_directory THEN "TRUE" ELSE NUL,
                                  ![CONTENT] = NUL]]
  /\ file_count' = file_count + 1
  /\ Quiet /\ UNCHANGED uvars

\* delete_file, which deletes a directory of the name as well.
delete_file(n) ==
  /\ FilesNamed(n) # {}
  /\ file_list' = Removed(file_list, file_count, FirstFile(n))
  /\ file_count' = file_count - 1
  /\ Quiet /\ UNCHANGED uvars

delete_directory(n) ==
  /\ FilesNamed(n) # {} /\ IsDirectory(file_list[FirstFile(n)])
  /\ delete_file(n)

\* Mutant: strncpy may fill the field, and the NUL is not put at its end.
WrittenFull(file, content) == strncpy(file, CONTENT, content, FILE_CONTENT_LENGTH)
\* The field after strncpy, with a NUL at its end whatever was copied.
Written(file, content) ==
  [strncpy(file, CONTENT, content, FILE_CONTENT_LENGTH - 1)
     EXCEPT ![CONTENT + FILE_CONTENT_LENGTH - 1] = NUL]

write_file(n, content) ==
  /\ FilesNamed(n) # {} /\ ~IsDirectory(file_list[FirstFile(n)])
  /\ file_list' = [file_list EXCEPT ![FirstFile(n)] = Written(@, content)]
  /\ Quiet /\ UNCHANGED <<file_count, uvars>>

\* Mutant: the last file of the name is read.
ReadLast(n) == Max(FilesNamed(n))
Read(n) == FirstFile(n)

read_file(n) ==
  /\ FilesNamed(n) # {} /\ ~IsDirectory(file_list[Read(n)])
  /\ Show(n, printf(<<"%", "s", "\n">>, <<Text(file_list[Read(n)], CONTENT)>>))

FileLine(file) ==
  printf(<<"%", "s", "%", "s", "\n">>, <<Text(file, NAME), IF IsDirectory(file) THEN <<"/">> ELSE <<>>>>)

list_files ==
  /\ table = "files"
  /\ Show(<<"files">>, <<"Files:", "\n">> \o FlattenSeq([i \in 1..file_count |-> FileLine(file_list[i-1])]))
-----------------------------------------------------------------------------
Zeros(n) == [i \in 0..n-1 |-> NUL]
NoUser == [text |-> Zeros(USERNAME_LENGTH + PASSWORD_LENGTH), is_admin |-> FALSE, uid |-> 0, gid |-> 0]

\* The state user_init and fs_init leave; init_users and init_file_system
\* then call the operations.
Init ==
  /\ users = [i \in 0..MAX_USERS-1 |-> NoUser] /\ user_count = 0 /\ next_uid = FirstUid
  /\ file_list = [i \in 0..MAX_FILES-1 |-> Zeros(SIZEOF_FILE)] /\ file_count = 0
  /\ command = <<>> /\ console = <<>> /\ table \in {"users", "files"}

Next ==
  \/ \E n \in UserName :
    \/ /\ next_uid < FirstUid + MaxAdds
       /\ \E password \in Passwords, is_admin \in BOOLEAN : add_user(n, password, is_admin)
    \/ remove_user(n)
  \/ \E n \in FileName :
    \/ \E is_directory \in BOOLEAN : create_file(n, is_directory)
    \/ delete_file(n) \/ delete_directory(n) \/ read_file(n)
    \/ \E content \in Contents : write_file(n, content)
  \/ list_users \/ list_files

Spec == Init /\ [][Next]_vars
-----------------------------------------------------------------------------
TypeOK ==
  /\ user_count \in 0..MAX_USERS /\ next_uid \in FirstUid .. FirstUid + MaxAdds
  /\ DOMAIN users = 0..MAX_USERS-1 /\ file_count \in 0..MAX_FILES
  /\ \A i \in 0..MAX_FILES-1 : DOMAIN file_list[i] = 0..SIZEOF_FILE-1

(***************************************************************************)
(* The user table implements a set of accounts: a name belongs to at most  *)
(* one, adding and removing one leaves the password, rights and number of  *)
(* every other alone, and a number is never given twice; a name or a       *)
(* password is what was given, never a part of the field behind it.        *)
(***************************************************************************)
AccountOf(u) == [username |-> Text(u.text, NAME), password |-> Text(u.text, PASSWORD),
                 is_admin |-> u.is_admin, uid |-> u.uid, gid |-> u.gid]
AccountSet == {AccountOf(users[i]) : i \in 0..user_count-1}
UserNames == {a.username : a \in AccountSet}
AccountMap == IF UserNames = {} THEN <<>> ELSE [n \in UserNames |-> AccountOf(get_user(n))]
AccountTable == INSTANCE Accounts WITH
  Name <- {n \in UserName : Len(n) < USERNAME_LENGTH},
  Account <- [username : UserName, password : Passwords, is_admin : BOOLEAN,
              uid : FirstUid .. FirstUid + MaxAdds, gid : {0, 1000}],
  Limit <- MAX_USERS,
  account <- AccountMap,
  used <- FirstUid .. next_uid - 1
AccountsSpec == AccountTable!Spec

(***************************************************************************)
(* No more entries than names: a removed user cannot log in by a second    *)
(* entry of the name.                                                      *)
(***************************************************************************)
OneEntryPerUser == \A n \in UserName : Cardinality(UsersNamed(n)) =< 1

(***************************************************************************)
(* Every string of an entry ends within its own field, after strcpy and    *)
(* strncpy of names, passwords and contents of any length: none is read    *)
(* on into the field behind it.                                            *)
(***************************************************************************)
Ends(m, p, length) == strlen(m, p) < length
FieldsEnd ==
  /\ \A i \in 0..user_count-1 :
       Ends(users[i].text, NAME, USERNAME_LENGTH) /\ Ends(users[i].text, PASSWORD, PASSWORD_LENGTH)
  /\ \A i \in 0..file_count-1 :
       Ends(file_list[i], NAME, FILENAME_LENGTH) /\ Ends(file_list[i], CONTENT, FILE_CONTENT_LENGTH)

(***************************************************************************)
(* authenticate_user admits by name and password what add_user was given,  *)
(* until remove_user is: adding a user opens one login and closes none,    *)
(* removing one closes the logins of that name, of every entry and         *)
(* whatever was moved into its place, and no other.                        *)
(***************************************************************************)
Logins == {login \in UserName \X Passwords : authenticate_user(login[1], login[2])}
LoginsExact ==
  [][\A n \in UserName :
       /\ \A password \in Passwords, is_admin \in BOOLEAN :
            add_user(n, password, is_admin) => Logins' = Logins \cup {<<n, password>>}
       /\ remove_user(n) => Logins' = {login \in Logins : login[1] # n}]_vars

(***************************************************************************)
(* The file table implements queues of files, one queue per name: whatever *)
(* is created, deleted and written, files keep their kind, content and age *)
(* order, and an operation on a name reaches the oldest file of it only.   *)
(* A content that is too long keeps the beginning that fits.               *)
(***************************************************************************)
Kept(content) == SubSeq(content, 1, Min({Len(content), FILE_CONTENT_LENGTH - 1}))
Entry(file) == [is_directory |-> IsDirectory(file), content |-> Text(file, CONTENT)]
QueueOf(n) ==
  LET queue[k \in 0..file_count] ==
        IF k = 0 THEN <<>>
        ELSE queue[k-1] \o (IF strcmp(file_list[k-1], NAME, n) THEN <<Entry(file_list[k-1])>> ELSE <<>>)
  IN  queue[file_count]
FileNames == {n \in FileName : Len(n) \in 1 .. FILENAME_LENGTH - 1}
Queues == [n \in FileNames |-> QueueOf(n)]
FileQueues == INSTANCE NameQueues WITH
  Name <- FileNames,
  Content <- {Kept(content) : content \in Contents}, EMPTY <- <<>>,
  files <- Queues
FilesSpec == FileQueues!Spec

(***************************************************************************)
(* What the command users shows, read from the screen, is the accounts:    *)
(* each once, with its name, its rights and its number in decimal.         *)
(***************************************************************************)
Places(c) == {j \in 1..Len(console) : console[j] = c}
NextPlace(j, c) == Min({k \in Places(c) : j < k})
Value(digits) ==
  LET value[k \in 0..Len(digits)] ==
        IF k = 0 THEN 0 ELSE 10 * value[k-1] + (CHOOSE n \in 0..9 : Digit[n+1] = digits[k])
  IN  value[Len(digits)]
UserShown(from) ==
  LET to == NextPlace(from, " (UID: ")
      end == NextPlace(from, ", ")
  IN  [username |-> SubSeq(console, from + 1, to - 1),
       uid |-> Value(SubSeq(console, to + 1, end - 1)),
       is_admin |-> console[end + 1] = "admin"]
UsersShown ==
  command = <<"users">> =>
    /\ Cardinality(Places("  ")) = Cardinality(AccountSet)
    /\ {UserShown(from) : from \in Places("  ")} =
         {[username |-> a.username, uid |-> a.uid, is_admin |-> a.is_admin] : a \in AccountSet}

(***************************************************************************)
(* ls shows the files of every name with their kinds, oldest first, and    *)
(* read_file the content of the oldest file of the name.                   *)
(***************************************************************************)
LineTo(j) == SubSeq(console, Max({0} \cup {k \in Places("\n") : k < j}) + 1, j - 1)
LinesOf(n) ==
  LET lines[j \in 0..Len(console)] ==
        IF j = 0 THEN <<>>
        ELSE lines[j-1] \o (IF j \in Places("\n") /\ LineTo(j) \in {n, Append(n, "/")}
                            THEN <<LineTo(j)>> ELSE <<>>)
  IN  lines[Len(console)]
FilesShown ==
  /\ command = <<"files">> => \A n \in FileName :
       LinesOf(n) = [k \in 1..Len(QueueOf(n)) |-> IF QueueOf(n)[k].is_directory THEN Append(n, "/") ELSE n]
  /\ command \notin {<<>>, <<"users">>, <<"files">>} =>
       console = Append(QueueOf(command)[1].content, "\n")
=============================================================================
