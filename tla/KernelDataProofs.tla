-------------------------- MODULE KernelDataProofs --------------------------
(***************************************************************************)
(* Theorems about the user table and the file table of module KernelData,  *)
(* and the lemmas about C strings in memory that they rest on.             *)
(***************************************************************************)
EXTENDS KernelData, Arithmetic, FiniteSetTheorems, SequenceTheorems, TLAPS

(***************************************************************************)
(* Strings in memory.                                                      *)
(***************************************************************************)
Character == STRING \ {NUL}

\* A memory of size characters.
Memory(m, size) == DOMAIN m = 0 .. size - 1

\* The string at p ends before its field of length characters does.
EndsIn(m, p, length) == \E k \in p .. p + length - 1 : m[k] = NUL

\* The string at p has l characters.
IsLength(m, p, l) == m[p+l] = NUL /\ \A k \in 0 .. l-1 : m[p+k] # NUL

\* Min of a set of numbers is the member that none is below.
LEMMA MinIs ==
  ASSUME NEW S, NEW x \in S, S \subseteq Int, \A y \in S : x =< y
  PROVE  Min(S) = x
<1> DEFINE Least(z) == \A y \in S : z =< y
<1>1. \E z \in S : Least(z)
  OBVIOUS
<1>2. Min(S) \in S /\ Least(Min(S))
  <2>1. Min(S) = CHOOSE z \in S : Least(z)
    BY DEF Min
  <2> HIDE DEF Least
  <2> QED
    BY <1>1, <2>1, Zenon
<1>3. Min(S) =< x /\ x =< Min(S) /\ Min(S) \in Int /\ x \in Int
  BY <1>2
<1> QED
  BY <1>3

LEMMA SizeOfMemory ==
  ASSUME NEW m, NEW size \in Nat, Memory(m, size)
  PROVE  Cardinality(DOMAIN m) = size
<1>1. 0 \in Int /\ size - 1 \in Int
  OBVIOUS
<1>2. Cardinality(0 .. size - 1) = IF 0 > size - 1 THEN 0 ELSE size - 1 - 0 + 1
  BY <1>1, FS_Interval
<1> QED
  BY <1>2 DEF Memory

\* strlen finds the first NUL.
LEMMA LengthIs ==
  ASSUME NEW m, NEW size \in Nat, Memory(m, size),
         NEW p \in Nat, NEW l \in Nat, p + l < size, IsLength(m, p, l)
  PROVE  strlen(m, p) = l
<1> DEFINE S == {k \in 0 .. Cardinality(DOMAIN m) : p + k \in DOMAIN m => m[p+k] = NUL}
<1>1. Cardinality(DOMAIN m) = size
  BY SizeOfMemory
<1>2. l \in S
  BY <1>1 DEF IsLength
<1>3. \A k \in S : l =< k
  <2> SUFFICES ASSUME NEW k \in S, k < l PROVE FALSE
    BY <1>1
  <2>1. k \in 0 .. l-1 /\ p + k \in DOMAIN m
    BY <1>1 DEF Memory
  <2> QED
    BY <2>1 DEF IsLength
<1>4. S \subseteq Int
  BY <1>1
<1>5. Min(S) = l
  <2> HIDE DEF S
  <2> QED
    BY <1>2, <1>3, <1>4, MinIs
<1> QED
  BY <1>5 DEF strlen

\* A string that ends within its field has a length that is less.
LEMMA LengthWithin ==
  ASSUME NEW m, NEW size \in Nat, Memory(m, size),
         NEW p \in Nat, NEW length \in Nat, p + length =< size, EndsIn(m, p, length)
  PROVE  strlen(m, p) \in 0 .. length - 1 /\ IsLength(m, p, strlen(m, p))
<1> DEFINE S == {k \in Nat : k < length /\ m[p+k] = NUL}
<1>1. PICK e \in p .. p + length - 1 : m[e] = NUL
  BY DEF EndsIn
<1>2. e - p \in S
  BY <1>1
<1>3. PICK l \in S : \A k \in S : l =< k
  <2> HIDE DEF S
  <2>1. S \subseteq Nat /\ S # {}
    BY <1>2 DEF S
  <2> QED
    BY <2>1, LeastNumber
<1>4. IsLength(m, p, l)
  BY <1>3 DEF IsLength
<1>5. strlen(m, p) = l
  BY <1>4, LengthIs
<1> QED
  BY <1>4, <1>5

\* What a string is.
LEMMA TextIs ==
  ASSUME NEW m, NEW size \in Nat, Memory(m, size),
         NEW p \in Nat, NEW l \in Nat, p + l < size, IsLength(m, p, l)
  PROVE  Text(m, p) = [k \in 1..l |-> m[p+k-1]]
<1> DEFINE t == [k \in 1 .. size - p |-> m[p+k-1]]
           C == {m[i] : i \in 0 .. size - 1}
<1>1. Text(m, p) = SubSeq(t, 1, l)
  BY SizeOfMemory, LengthIs DEF Text
<1>2. t \in Seq(C) /\ Len(t) = size - p
  <2>1. \A k \in 1 .. size - p : m[p+k-1] \in C
    OBVIOUS
  <2>2. size - p \in Nat
    OBVIOUS
  <2> HIDE DEF C
  <2> QED
    BY <2>1, <2>2
<1>3. /\ Len(SubSeq(t, 1, l)) = l
      /\ \A k \in 1..l : SubSeq(t, 1, l)[k] = t[k]
      /\ SubSeq(t, 1, l) \in Seq(C)
  <2>1. 1 \in 1 .. Len(t) + 1 /\ l \in 0 .. Len(t)
    BY <1>2
  <2> HIDE DEF t, C
  <2> QED
    BY <1>2, <2>1, SubSeqProperties
<1>4. SubSeq(t, 1, l) = [k \in 1..l |-> t[k]]
  <2> HIDE DEF t, C
  <2> QED
    BY <1>3
<1>5. \A k \in 1..l : t[k] = m[p+k-1]
  OBVIOUS
<1> QED
  <2> HIDE DEF t
  <2> QED
    BY <1>1, <1>4, <1>5

\* Two memories that agree on a field hold the same string there.
LEMMA SameField ==
  ASSUME NEW m, NEW w, NEW size \in Nat, Memory(m, size), Memory(w, size),
         NEW p \in Nat, NEW length \in Nat, p + length =< size, EndsIn(m, p, length),
         \A k \in p .. p + length - 1 : w[k] = m[k]
  PROVE  EndsIn(w, p, length) /\ Text(w, p) = Text(m, p)
<1>1. EndsIn(w, p, length)
  BY DEF EndsIn
<1>2. PICK l \in 0 .. length - 1 : IsLength(m, p, l)
  BY LengthWithin
<1>3. l \in Nat /\ p + l < size
  BY <1>2
<1>4. IsLength(w, p, l)
  <2>1. p + l \in p .. p + length - 1 /\ \A k \in 0 .. l-1 : p + k \in p .. p + length - 1
    BY <1>2
  <2> QED
    BY <1>2, <2>1 DEF IsLength
<1>5. Text(m, p) = [k \in 1..l |-> m[p+k-1]]
  BY <1>2, <1>3, TextIs
<1>6. Text(w, p) = [k \in 1..l |-> w[p+k-1]]
  BY <1>3, <1>4, TextIs
<1>7. \A k \in 1..l : w[p+k-1] = m[p+k-1]
  <2>1. \A k \in 1..l : p+k-1 \in p .. p + length - 1
    BY <1>2
  <2> QED
    BY <2>1
<1> QED
  BY <1>1, <1>5, <1>6, <1>7

\* What Stored leaves.
StoredAt(w, m, size, p, t, l) ==
  /\ Memory(w, size)
  /\ \A i \in 0 .. size - 1 : w[i] = IF i \in p .. p + l - 1 THEN t[i-p+1] ELSE m[i]

LEMMA StoredIs ==
  ASSUME NEW m, NEW size \in Nat, Memory(m, size), NEW p \in Nat, NEW t, NEW l \in Nat, Len(t) = l
  PROVE  StoredAt(Stored(m, p, t), m, size, p, t, l)
BY DEF Memory, Stored, StoredAt

\* strcpy leaves the string it is given, and what lies outside of it.
LEMMA Copied ==
  ASSUME NEW m, NEW size \in Nat, Memory(m, size),
         NEW p \in Nat, NEW s \in Seq(Character), p + Len(s) < size
  PROVE  /\ Memory(strcpy(m, p, s), size)
         /\ IsLength(strcpy(m, p, s), p, Len(s))
         /\ Text(strcpy(m, p, s), p) = s
         /\ \A i \in (0 .. size - 1) \ (p .. p + Len(s)) : strcpy(m, p, s)[i] = m[i]
<1> DEFINE t == Append(s, NUL)
           w == strcpy(m, p, s)
           l == Len(s)
<1>1. l \in Nat /\ Len(t) = l + 1 /\ t[l+1] = NUL /\ \A k \in 1..l : t[k] = s[k]
  OBVIOUS
<1>2. \A k \in 1..l : s[k] # NUL
  <2>1. \A k \in 1..l : s[k] \in Character
    OBVIOUS
  <2> QED
    BY <2>1 DEF Character
<1> HIDE DEF t, l
<1>3. Memory(w, size) /\ \A i \in 0 .. size - 1 : w[i] = IF i \in p .. p + l THEN t[i-p+1] ELSE m[i]
  <2>1. l + 1 \in Nat /\ Len(t) = l + 1 /\ w = Stored(m, p, t)
    BY <1>1 DEF strcpy, t
  <2>2. Memory(w, size) /\ \A i \in 0 .. size - 1 : w[i] = IF i \in p .. p + (l + 1) - 1 THEN t[i-p+1] ELSE m[i]
    BY <2>1, StoredIs DEF StoredAt
  <2>3. p + (l + 1) - 1 = p + l
    BY <1>1
  <2> QED
    BY <2>2, <2>3
<1> HIDE DEF w
<1>4. p + l < size
  BY DEF l
<1>5. \A k \in 1..l : w[p+k-1] = s[k]
  <2> SUFFICES ASSUME NEW k \in 1..l PROVE w[p+k-1] = s[k]
    OBVIOUS
  <2>1. p+k-1 \in 0 .. size - 1 /\ p+k-1 \in p .. p + l /\ (p+k-1) - p + 1 = k
    BY <1>1, <1>4
  <2> QED
    BY <1>1, <1>3, <2>1
<1>6. IsLength(w, p, l)
  <2>1. p + l \in 0 .. size - 1 /\ p + l \in p .. p + l /\ (p + l) - p + 1 = l + 1
    BY <1>1, <1>4
  <2>2. w[p+l] = NUL
    BY <1>1, <1>3, <2>1
  <2>3. ASSUME NEW k \in 0 .. l-1 PROVE w[p+k] # NUL
    <3>1. k + 1 \in 1..l /\ p + (k + 1) - 1 = p + k
      BY <1>1
    <3> QED
      BY <1>2, <1>5, <3>1
  <2> QED
    BY <2>2, <2>3 DEF IsLength
<1>7. Text(w, p) = [k \in 1..l |-> w[p+k-1]]
  BY <1>1, <1>3, <1>4, <1>6, TextIs
<1>8. s = [k \in 1..l |-> s[k]]
  BY DEF l
<1>9. \A i \in (0 .. size - 1) \ (p .. p + l) : w[i] = m[i]
  BY <1>3
<1> QED
  BY <1>3, <1>5, <1>6, <1>7, <1>8, <1>9 DEF w, l
-----------------------------------------------------------------------------
(***************************************************************************)
(* The arrays.                                                             *)
(***************************************************************************)
\* The place in the old array of what removal of entry i leaves at j.
MovedFrom(i, j) == IF j < i THEN j ELSE j + 1

\* Removal of entry i leaves the others, each once and in their order.
Shortened(r, array, max, count, i) ==
  /\ DOMAIN r = 0 .. max - 1
  /\ \A j \in 0 .. max - 1 : \E k \in 0 .. max - 1 : r[j] = array[k]
  /\ \A j \in 0 .. count - 2 : /\ r[j] = array[MovedFrom(i, j)]
                               /\ MovedFrom(i, j) \in (0 .. count - 1) \ {i}
  /\ \A k \in (0 .. count - 1) \ {i} : \E j \in 0 .. count - 2 : MovedFrom(i, j) = k

LEMMA RemovedIs ==
  ASSUME NEW array, NEW max \in Nat, DOMAIN array = 0 .. max - 1,
         NEW count \in 0..max, NEW i \in 0 .. count - 1
  PROVE  Shortened(Removed(array, count, i), array, max, count, i)
<1> DEFINE r == Removed(array, count, i)
<1>1. DOMAIN r = 0 .. max - 1
  BY DEF Removed
<1>2. \A j \in 0 .. max - 1 : r[j] = IF i =< j /\ j + 1 < count THEN array[j+1] ELSE array[j]
  BY DEF Removed
<1> HIDE DEF r
<1>3. ASSUME NEW j \in 0 .. max - 1 PROVE \E k \in 0 .. max - 1 : r[j] = array[k]
  <2>1. CASE i =< j /\ j + 1 < count
    <3>1. j + 1 \in 0 .. max - 1
      BY <2>1
    <3> QED
      BY <1>2, <2>1, <3>1
  <2>2. CASE ~(i =< j /\ j + 1 < count)
    BY <1>2, <2>2
  <2> QED
    BY <2>1, <2>2
<1>4. ASSUME NEW j \in 0 .. count - 2
      PROVE  r[j] = array[MovedFrom(i, j)] /\ MovedFrom(i, j) \in (0 .. count - 1) \ {i}
  <2>1. j \in 0 .. max - 1 /\ j + 1 < count
    OBVIOUS
  <2> QED
    BY <1>2, <2>1 DEF MovedFrom
<1>5. ASSUME NEW k \in (0 .. count - 1) \ {i} PROVE \E j \in 0 .. count - 2 : MovedFrom(i, j) = k
  <2>1. CASE k < i
    <3>1. k \in 0 .. count - 2 /\ MovedFrom(i, k) = k
      BY <2>1 DEF MovedFrom
    <3> QED
      BY <3>1
  <2>2. CASE k > i
    <3>1. k - 1 \in 0 .. count - 2 /\ MovedFrom(i, k - 1) = k
      BY <2>2 DEF MovedFrom
    <3> QED
      BY <3>1
  <2> QED
    BY <2>1, <2>2
<1> QED
  BY <1>1, <1>3, <1>4, <1>5 DEF r, Shortened
-----------------------------------------------------------------------------
(***************************************************************************)
(* Users.                                                                  *)
(***************************************************************************)
SIZEOF_STRINGS == USERNAME_LENGTH + PASSWORD_LENGTH

\* The names and passwords of a table us of c users.
NameIn(us, i) == Text(us[i].text, NAME)
PasswordIn(us, i) == Text(us[i].text, PASSWORD)

OneEach(us, c) == \A i, j \in 0 .. c-1 : NameIn(us, i) = NameIn(us, j) => i = j

NamedIn(us, c, n) == {i \in 0 .. c-1 : strcmp(us[i].text, NAME, n)}

\* What a name finds, when no two entries have it.
LEMMA Found ==
  ASSUME NEW us, NEW c \in Nat, OneEach(us, c), NEW i \in 0 .. c-1
  PROVE  NamedIn(us, c, NameIn(us, i)) = {i} /\ Min(NamedIn(us, c, NameIn(us, i))) = i
<1>1. NamedIn(us, c, NameIn(us, i)) = {i}
  BY DEF NamedIn, OneEach, NameIn, strcmp
<1>2. Min({i}) = i
  <2>1. i \in {i} /\ {i} \subseteq Int /\ \A y \in {i} : i =< y
    OBVIOUS
  <2> QED
    BY <2>1, MinIs
<1> QED
  BY <1>1, <1>2

\* The entry add_user writes.
StringsOf(m, n, password) == strcpy(strcpy(m, NAME, n), PASSWORD, password)

LEMMA EntryWritten ==
  ASSUME NEW m, Memory(m, SIZEOF_STRINGS),
         NEW n \in Seq(Character), Len(n) < USERNAME_LENGTH,
         NEW password \in Seq(Character), Len(password) < PASSWORD_LENGTH
  PROVE  /\ Memory(StringsOf(m, n, password), SIZEOF_STRINGS)
         /\ EndsIn(StringsOf(m, n, password), NAME, USERNAME_LENGTH)
         /\ EndsIn(StringsOf(m, n, password), PASSWORD, PASSWORD_LENGTH)
         /\ Text(StringsOf(m, n, password), NAME) = n
         /\ Text(StringsOf(m, n, password), PASSWORD) = password
<1> USE TablesAssumption
<1> DEFINE w == strcpy(m, NAME, n)
           v == strcpy(w, PASSWORD, password)
<1>1. /\ SIZEOF_STRINGS \in Nat /\ NAME \in Nat /\ PASSWORD \in Nat
      /\ Len(n) \in Nat /\ Len(password) \in Nat
      /\ NAME + USERNAME_LENGTH =< SIZEOF_STRINGS
      /\ NAME + Len(n) < SIZEOF_STRINGS /\ PASSWORD + Len(password) < SIZEOF_STRINGS
  BY DEF SIZEOF_STRINGS, NAME, PASSWORD
<1>2. Memory(w, SIZEOF_STRINGS) /\ IsLength(w, NAME, Len(n)) /\ Text(w, NAME) = n
  BY <1>1, Copied
<1>3. /\ Memory(v, SIZEOF_STRINGS) /\ IsLength(v, PASSWORD, Len(password))
      /\ Text(v, PASSWORD) = password
      /\ \A i \in (0 .. SIZEOF_STRINGS - 1) \ (PASSWORD .. PASSWORD + Len(password)) : v[i] = w[i]
  <2> HIDE DEF w
  <2> QED
    BY <1>1, <1>2, Copied
<1> HIDE DEF w, v
<1>4. EndsIn(w, NAME, USERNAME_LENGTH)
  BY <1>1, <1>2 DEF EndsIn, IsLength, NAME
<1>5. EndsIn(v, PASSWORD, PASSWORD_LENGTH)
  BY <1>1, <1>3, SMTT(40) DEF EndsIn, IsLength
<1>6. \A k \in NAME .. NAME + USERNAME_LENGTH - 1 : v[k] = w[k]
  BY <1>1, <1>3 DEF NAME, PASSWORD, SIZEOF_STRINGS
<1>7. EndsIn(v, NAME, USERNAME_LENGTH) /\ Text(v, NAME) = n
  BY <1>1, <1>2, <1>3, <1>4, <1>6, SameField
<1> QED
  BY <1>3, <1>5, <1>7 DEF v, w, StringsOf

\* The user table as add_user and remove_user keep it: the strings of an entry
\* are ones add_user was given and end within their fields.
UserEnds(u) ==
  EndsIn(u.text, NAME, USERNAME_LENGTH) /\ EndsIn(u.text, PASSWORD, PASSWORD_LENGTH)
Given(u, next) ==
  /\ Text(u.text, NAME) \in UserName /\ Len(Text(u.text, NAME)) < USERNAME_LENGTH
  /\ Text(u.text, PASSWORD) \in Passwords
  /\ u.is_admin \in BOOLEAN /\ u.uid \in FirstUid .. next - 1 /\ u.gid \in {0, 1000}
UserMemory ==
  /\ user_count \in 0..MAX_USERS /\ next_uid \in FirstUid .. FirstUid + MaxAdds
  /\ DOMAIN users = 0 .. MAX_USERS - 1
  /\ \A i \in 0 .. MAX_USERS - 1 : Memory(users[i].text, SIZEOF_STRINGS)
UserInv ==
  /\ UserMemory
  /\ \A i \in 0 .. user_count - 1 : UserEnds(users[i]) /\ Given(users[i], next_uid)
  /\ OneEach(users, user_count)

\* What the steps do to the table, with the place they do it at.
Adds(n, password, is_admin) ==
  /\ user_count < MAX_USERS /\ Len(n) < USERNAME_LENGTH /\ Len(password) < PASSWORD_LENGTH
  /\ \A i \in 0 .. user_count - 1 : NameIn(users, i) # n
  /\ DOMAIN users' = DOMAIN users
  /\ \A i \in DOMAIN users \ {user_count} : users'[i] = users[i]
  /\ users'[user_count] =
       [text |-> StringsOf(users[user_count].text, n, password),
        is_admin |-> is_admin, uid |-> next_uid, gid |-> IF is_admin THEN 0 ELSE 1000]
  /\ user_count' = user_count + 1 /\ next_uid' = next_uid + 1
Removes(n, i) ==
  /\ i \in 0 .. user_count - 1 /\ NameIn(users, i) = n
  /\ users' = Removed(users, user_count, i)
  /\ user_count' = user_count - 1 /\ next_uid' = next_uid

LEMMA AddUserIs ==
  ASSUME UserInv, NEW n \in UserName, NEW password \in Passwords, NEW is_admin \in BOOLEAN,
         add_user(n, password, is_admin)
  PROVE  Adds(n, password, is_admin)
<1> USE TablesAssumption
<1>1. user_count \in 0 .. MAX_USERS - 1 /\ Len(n) \in Nat /\ Len(password) \in Nat
      /\ Len(n) < USERNAME_LENGTH /\ Len(password) < PASSWORD_LENGTH /\ UsersNamed(n) = {}
  BY SMTT(40) DEF add_user, Refused, UserInv, UserMemory
<1>2. \A i \in 0 .. user_count - 1 : NameIn(users, i) # n
  BY <1>1 DEF UsersNamed, strcmp, NameIn
<1>3. DOMAIN users = 0 .. MAX_USERS - 1
  BY DEF UserInv, UserMemory
<1>4. /\ user_count' = user_count + 1 /\ next_uid' = next_uid + 1
      /\ users' = [users EXCEPT ![user_count] =
           [text |-> StringsOf(users[user_count].text, n, password),
            is_admin |-> is_admin, uid |-> next_uid, gid |-> IF is_admin THEN 0 ELSE 1000]]
  BY DEF add_user, StringsOf, NewUid
<1> QED
  BY <1>1, <1>2, <1>3, <1>4 DEF Adds

LEMMA RemoveUserIs ==
  ASSUME UserInv, NEW n \in UserName, remove_user(n)
  PROVE  \E i \in 0 .. user_count - 1 : Removes(n, i)
<1>1. PICK i \in 0 .. user_count - 1 : NameIn(users, i) = n
  BY DEF remove_user, UsersNamed, strcmp, NameIn
<1>2. user_count \in Nat /\ OneEach(users, user_count)
  BY DEF UserInv, UserMemory
<1>3. UsersNamed(n) = NamedIn(users, user_count, n)
  BY DEF UsersNamed, NamedIn
<1>4. Min(UsersNamed(n)) = i
  BY <1>1, <1>2, <1>3, Found
<1> QED
  BY <1>1, <1>4 DEF remove_user, Removes

LEMMA UserStep ==
  ASSUME UserInv, NEW n \in UserName, NEW password \in Passwords, NEW is_admin \in BOOLEAN,
         Adds(n, password, is_admin)
  PROVE  /\ UserEnds(users'[user_count]) /\ Given(users'[user_count], next_uid')
         /\ Memory(users'[user_count].text, SIZEOF_STRINGS)
         /\ NameIn(users', user_count) = n /\ PasswordIn(users', user_count) = password
<1> USE TablesAssumption
<1> DEFINE m == users[user_count].text
           u == users'[user_count]
<1>1. user_count \in 0 .. MAX_USERS - 1 /\ Memory(m, SIZEOF_STRINGS)
      /\ next_uid \in Int /\ FirstUid =< next_uid
  BY SMTT(40) DEF UserInv, UserMemory, Adds
<1>2. n \in Seq(Character) /\ password \in Seq(Character)
  BY DEF Character
<1>3. Len(n) < USERNAME_LENGTH /\ Len(password) < PASSWORD_LENGTH
  BY DEF Adds
<1>4. u.text = StringsOf(m, n, password)
  BY DEF Adds
<1>5. /\ Memory(u.text, SIZEOF_STRINGS)
      /\ EndsIn(u.text, NAME, USERNAME_LENGTH) /\ EndsIn(u.text, PASSWORD, PASSWORD_LENGTH)
      /\ Text(u.text, NAME) = n /\ Text(u.text, PASSWORD) = password
  <2> HIDE DEF m, u
  <2> QED
    BY <1>1, <1>2, <1>3, <1>4, EntryWritten
<1>6. u.is_admin = is_admin /\ u.uid = next_uid /\ u.gid \in {0, 1000} /\ next_uid' = next_uid + 1
  BY DEF Adds
<1>7. Given(u, next_uid')
  <2> HIDE DEF u
  <2> QED
    BY <1>1, <1>3, <1>5, <1>6 DEF Given
<1> QED
  BY <1>5, <1>7 DEF UserEnds, NameIn, PasswordIn

LEMMA AddKeepsUsers ==
  ASSUME UserInv, NEW n \in UserName, NEW password \in Passwords, NEW is_admin \in BOOLEAN,
         Adds(n, password, is_admin), next_uid < FirstUid + MaxAdds
  PROVE  UserInv'
<1> USE TablesAssumption
<1>1. /\ user_count \in 0 .. MAX_USERS - 1 /\ next_uid \in FirstUid .. FirstUid + MaxAdds
      /\ DOMAIN users = 0 .. MAX_USERS - 1
      /\ user_count' = user_count + 1 /\ next_uid' = next_uid + 1 /\ DOMAIN users' = DOMAIN users
  BY DEF UserInv, UserMemory, Adds
<1>2. \A i \in (0 .. MAX_USERS - 1) \ {user_count} : users'[i] = users[i]
  BY <1>1 DEF Adds
<1>3. /\ UserEnds(users'[user_count]) /\ Given(users'[user_count], next_uid')
      /\ Memory(users'[user_count].text, SIZEOF_STRINGS) /\ NameIn(users', user_count) = n
  BY UserStep
<1>4. UserMemory'
  <2>1. ASSUME NEW i \in 0 .. MAX_USERS - 1 PROVE Memory(users'[i].text, SIZEOF_STRINGS)
    BY <1>2, <1>3 DEF UserInv, UserMemory
  <2> QED
    BY <1>1, <2>1 DEF UserMemory, SIZEOF_STRINGS, Memory
<1>5. ASSUME NEW i \in 0 .. user_count
      PROVE  UserEnds(users'[i]) /\ Given(users'[i], next_uid')
  <2>1. CASE i = user_count
    BY <1>3, <2>1
  <2>2. CASE i # user_count
    <3>1. i \in 0 .. user_count - 1 /\ users'[i] = users[i]
      BY <1>1, <1>2, <2>2
    <3>2. UserEnds(users[i]) /\ Given(users[i], next_uid)
      BY <3>1 DEF UserInv
    <3> QED
      BY <1>1, <3>1, <3>2, SMTT(40) DEF Given
  <2> QED
    BY <2>1, <2>2
<1>6. OneEach(users', user_count')
  <2>1. \A i \in 0 .. user_count - 1 : NameIn(users', i) = NameIn(users, i) /\ NameIn(users, i) # n
    BY <1>1, <1>2 DEF NameIn, Adds
  <2>2. OneEach(users, user_count)
    BY DEF UserInv
  <2> QED
    BY <1>1, <1>3, <2>1, <2>2 DEF OneEach
<1>7. 0 .. user_count' - 1 = 0 .. user_count
  BY <1>1
<1> QED
  BY <1>4, <1>5, <1>6, <1>7 DEF UserInv

LEMMA RemoveKeepsUsers ==
  ASSUME UserInv, NEW n \in UserName, NEW i \in 0 .. user_count - 1, Removes(n, i)
  PROVE  UserInv'
<1> USE TablesAssumption
<1>1. /\ user_count \in 1..MAX_USERS /\ MAX_USERS \in Nat /\ DOMAIN users = 0 .. MAX_USERS - 1
      /\ user_count' = user_count - 1 /\ next_uid' = next_uid
      /\ users' = Removed(users, user_count, i)
  BY DEF UserInv, UserMemory, Removes
<1>2. /\ DOMAIN users' = 0 .. MAX_USERS - 1
      /\ \A j \in 0 .. MAX_USERS - 1 : \E k \in 0 .. MAX_USERS - 1 : users'[j] = users[k]
      /\ \A j \in 0 .. user_count - 2 : /\ users'[j] = users[MovedFrom(i, j)]
                                        /\ MovedFrom(i, j) \in (0 .. user_count - 1) \ {i}
  <2>1. user_count \in 0..MAX_USERS
    BY <1>1
  <2>2. Shortened(users', users, MAX_USERS, user_count, i)
    BY <1>1, <2>1, RemovedIs
  <2> QED
    BY <2>2 DEF Shortened
<1>3. UserMemory'
  <2>1. ASSUME NEW j \in 0 .. MAX_USERS - 1 PROVE Memory(users'[j].text, SIZEOF_STRINGS)
    <3>1. PICK k \in 0 .. MAX_USERS - 1 : users'[j] = users[k]
      BY <1>2
    <3> QED
      BY <3>1 DEF UserInv, UserMemory
  <2>2. user_count' \in 0..MAX_USERS /\ next_uid' \in FirstUid .. FirstUid + MaxAdds
    BY <1>1 DEF UserInv, UserMemory
  <2> QED
    BY <1>2, <2>1, <2>2 DEF UserMemory, SIZEOF_STRINGS, Memory
<1>4. 0 .. user_count' - 1 = 0 .. user_count - 2
  BY <1>1
<1>5. ASSUME NEW j \in 0 .. user_count - 2
      PROVE  UserEnds(users'[j]) /\ Given(users'[j], next_uid')
  <2>1. MovedFrom(i, j) \in 0 .. user_count - 1 /\ users'[j] = users[MovedFrom(i, j)]
    BY <1>2
  <2> QED
    BY <1>1, <2>1 DEF UserInv
<1>6. OneEach(users', user_count')
  <2> SUFFICES ASSUME NEW j \in 0 .. user_count - 2, NEW k \in 0 .. user_count - 2,
                      NameIn(users', j) = NameIn(users', k)
               PROVE  j = k
    BY <1>4 DEF OneEach
  <2>1. /\ MovedFrom(i, j) \in 0 .. user_count - 1 /\ users'[j] = users[MovedFrom(i, j)]
        /\ MovedFrom(i, k) \in 0 .. user_count - 1 /\ users'[k] = users[MovedFrom(i, k)]
    BY <1>2
  <2>2. NameIn(users, MovedFrom(i, j)) = NameIn(users, MovedFrom(i, k))
    BY <2>1 DEF NameIn
  <2>3. MovedFrom(i, j) = MovedFrom(i, k)
    BY <2>1, <2>2 DEF UserInv, OneEach
  <2> QED
    BY <2>3, <1>1 DEF MovedFrom
<1> QED
  BY <1>3, <1>4, <1>5, <1>6 DEF UserInv

(***************************************************************************)
(* The logins a table admits.                                              *)
(***************************************************************************)
HasLogin(us, c, n, password) ==
  \E i \in 0 .. c-1 : NameIn(us, i) = n /\ PasswordIn(us, i) = password
LoginsOf(us, c) == {login \in UserName \X Passwords : HasLogin(us, c, login[1], login[2])}

\* What authenticate_user admits, in a table of any state.
Admits(us, c, n, password) ==
  NamedIn(us, c, n) # {} /\ strcmp(us[Min(NamedIn(us, c, n))].text, PASSWORD, password)

LEMMA AdmitsIs ==
  ASSUME NEW us, NEW c \in Nat, OneEach(us, c), NEW n, NEW password
  PROVE  Admits(us, c, n, password) <=> HasLogin(us, c, n, password)
<1>1. ASSUME NEW i \in 0 .. c-1, NameIn(us, i) = n
      PROVE  /\ Min(NamedIn(us, c, n)) = i /\ NamedIn(us, c, n) # {}
             /\ \A j \in 0 .. c-1 : NameIn(us, j) = n => j = i
  <2>1. NamedIn(us, c, n) = {i} /\ Min(NamedIn(us, c, n)) = i
    BY <1>1, Found
  <2> QED
    BY <1>1, <2>1 DEF OneEach
<1>2. NamedIn(us, c, n) # {} => \E i \in 0 .. c-1 : NameIn(us, i) = n
  BY DEF NamedIn, NameIn, strcmp
<1> QED
  BY <1>1, <1>2 DEF Admits, strcmp, PasswordIn, HasLogin

LEMMA LoginsAre ==
  ASSUME UserInv
  PROVE  Logins = LoginsOf(users, user_count)
<1>1. user_count \in Nat /\ OneEach(users, user_count)
  BY DEF UserInv, UserMemory
<1>2. ASSUME NEW n, NEW password
      PROVE  authenticate_user(n, password) <=> Admits(users, user_count, n, password)
  BY DEF authenticate_user, get_user, UsersNamed, Admits, NamedIn
<1> QED
  BY <1>1, <1>2, AdmitsIs DEF Logins, LoginsOf

LEMMA LoginsAreNext ==
  ASSUME UserInv'
  PROVE  Logins' = LoginsOf(users', user_count')
<1>1. user_count' \in Nat /\ OneEach(users', user_count')
  BY DEF UserInv, UserMemory
<1>2. Logins' = {login \in UserName \X Passwords : Admits(users', user_count', login[1], login[2])}
  BY DEF Logins, authenticate_user, get_user, UsersNamed, Admits, NamedIn
<1>3. ASSUME NEW login \in UserName \X Passwords
      PROVE  Admits(users', user_count', login[1], login[2]) <=>
               HasLogin(users', user_count', login[1], login[2])
  BY <1>1, AdmitsIs
<1> QED
  BY <1>2, <1>3, Zenon DEF LoginsOf

LEMMA AddLogin ==
  ASSUME UserInv, UserInv', NEW n \in UserName, NEW password \in Passwords, NEW is_admin \in BOOLEAN,
         add_user(n, password, is_admin)
  PROVE  Logins' = Logins \cup {<<n, password>>}
<1>1. Adds(n, password, is_admin)
  BY AddUserIs
<1>2. /\ user_count \in 0 .. MAX_USERS - 1 /\ MAX_USERS \in Nat /\ DOMAIN users = 0 .. MAX_USERS - 1
      /\ user_count' = user_count + 1
      /\ \A i \in 0 .. user_count - 1 : users'[i] = users[i]
  BY <1>1, TablesAssumption, SMTT(40) DEF Adds, UserInv, UserMemory
<1>3. NameIn(users', user_count) = n /\ PasswordIn(users', user_count) = password
  BY <1>1, UserStep
<1>4. \A i \in 0 .. user_count - 1 : /\ NameIn(users', i) = NameIn(users, i)
                                     /\ PasswordIn(users', i) = PasswordIn(users, i)
  BY <1>2 DEF NameIn, PasswordIn
<1>5. 0 .. user_count' - 1 = (0 .. user_count - 1) \cup {user_count}
  BY <1>2
<1>6. LoginsOf(users', user_count') = LoginsOf(users, user_count) \cup {<<n, password>>}
  <2>1. ASSUME NEW m \in UserName, NEW w \in Passwords
        PROVE  (\E i \in 0 .. user_count' - 1 : NameIn(users', i) = m /\ PasswordIn(users', i) = w) <=>
                 \/ \E i \in 0 .. user_count - 1 : NameIn(users, i) = m /\ PasswordIn(users, i) = w
                 \/ m = n /\ w = password
    BY <1>3, <1>4, <1>5
  <2>2. ASSUME NEW login \in UserName \X Passwords
        PROVE  HasLogin(users', user_count', login[1], login[2]) <=>
                 HasLogin(users, user_count, login[1], login[2]) \/ login = <<n, password>>
    BY <2>1 DEF HasLogin
  <2> QED
    BY <2>2 DEF LoginsOf
<1>7. Logins = LoginsOf(users, user_count)
  BY LoginsAre
<1>8. Logins' = LoginsOf(users', user_count')
  BY LoginsAreNext
<1> QED
  BY <1>6, <1>7, <1>8

LEMMA RemoveLogin ==
  ASSUME UserInv, UserInv', NEW n \in UserName, remove_user(n)
  PROVE  Logins' = {login \in Logins : login[1] # n}
<1>1. PICK i \in 0 .. user_count - 1 : Removes(n, i)
  BY RemoveUserIs
<1>2. /\ user_count \in 1..MAX_USERS /\ MAX_USERS \in Nat /\ DOMAIN users = 0 .. MAX_USERS - 1
      /\ user_count' = user_count - 1 /\ NameIn(users, i) = n
      /\ users' = Removed(users, user_count, i)
  BY <1>1, TablesAssumption DEF Removes, UserInv, UserMemory
<1>3. Shortened(users', users, MAX_USERS, user_count, i)
  <2>1. user_count \in 0..MAX_USERS
    BY <1>2
  <2> QED
    BY <1>2, <2>1, RemovedIs
<1>4. \A k \in (0 .. user_count - 1) \ {i} : NameIn(users, k) # n
  BY <1>2 DEF UserInv, OneEach
<1>5. ASSUME NEW login \in UserName \X Passwords
      PROVE  HasLogin(users', user_count', login[1], login[2]) <=>
               HasLogin(users, user_count, login[1], login[2]) /\ login[1] # n
  <2>1. ASSUME HasLogin(users', user_count', login[1], login[2])
        PROVE  HasLogin(users, user_count, login[1], login[2]) /\ login[1] # n
    <3>1. PICK j \in 0 .. user_count - 2 :
            NameIn(users', j) = login[1] /\ PasswordIn(users', j) = login[2]
      BY <1>2, <2>1 DEF HasLogin
    <3>2. users'[j] = users[MovedFrom(i, j)] /\ MovedFrom(i, j) \in (0 .. user_count - 1) \ {i}
      BY <1>3 DEF Shortened
    <3> QED
      BY <1>4, <3>1, <3>2 DEF HasLogin, NameIn, PasswordIn
  <2>2. ASSUME HasLogin(users, user_count, login[1], login[2]), login[1] # n
        PROVE  HasLogin(users', user_count', login[1], login[2])
    <3>1. PICK k \in 0 .. user_count - 1 :
            NameIn(users, k) = login[1] /\ PasswordIn(users, k) = login[2]
      BY <2>2 DEF HasLogin
    <3>2. k \in (0 .. user_count - 1) \ {i}
      BY <1>2, <2>2, <3>1
    <3>3. PICK j \in 0 .. user_count - 2 : MovedFrom(i, j) = k
      BY <1>3, <3>2 DEF Shortened
    <3>4. users'[j] = users[k]
      BY <1>3, <3>3 DEF Shortened
    <3>5. j \in 0 .. user_count' - 1
      BY <1>2
    <3> QED
      BY <3>1, <3>4, <3>5 DEF HasLogin, NameIn, PasswordIn
  <2> QED
    BY <2>1, <2>2
<1>6. Logins = LoginsOf(users, user_count) /\ Logins' = LoginsOf(users', user_count')
  BY LoginsAre, LoginsAreNext
<1> QED
  BY <1>5, <1>6 DEF LoginsOf
-----------------------------------------------------------------------------
(***************************************************************************)
(* Files.                                                                  *)
(***************************************************************************)
\* The length of what write_file keeps.
KeptLength(content) == IF Len(content) < FILE_CONTENT_LENGTH THEN Len(content) ELSE FILE_CONTENT_LENGTH - 1

LEMMA KeptIs ==
  ASSUME NEW content \in Seq(Character)
  PROVE  Kept(content) = [k \in 1..KeptLength(content) |-> content[k]]
<1> USE TablesAssumption
<1> DEFINE l == KeptLength(content)
<1>1. l \in 0 .. Len(content) /\ Len(content) \in Nat /\ l =< FILE_CONTENT_LENGTH - 1
  BY DEF KeptLength
<1>2. Min({Len(content), FILE_CONTENT_LENGTH - 1}) = l
  <2>1. /\ l \in {Len(content), FILE_CONTENT_LENGTH - 1}
        /\ {Len(content), FILE_CONTENT_LENGTH - 1} \subseteq Int
        /\ \A y \in {Len(content), FILE_CONTENT_LENGTH - 1} : l =< y
    BY DEF KeptLength
  <2> QED
    BY <2>1, MinIs
<1>3. /\ SubSeq(content, 1, l) \in Seq(Character)
      /\ Len(SubSeq(content, 1, l)) = l
      /\ \A k \in 1..l : SubSeq(content, 1, l)[k] = content[k]
  <2>1. \A k \in 1..l : content[k] \in Character
    BY <1>1
  <2>2. 1 \in Int /\ l \in Int /\ \A k \in 1 .. l : 1 + k - 1 = k
    BY <1>1
  <2>3. l - 1 + 1 = l /\ (IF 1 <= l THEN l - 1 + 1 ELSE 0) = l
    BY <1>1
  <2> HIDE DEF l
  <2> QED
    BY <2>1, <2>2, <2>3, SubSeqProperties
<1>4. Kept(content) = SubSeq(content, 1, l)
  BY <1>2 DEF Kept
<1> HIDE DEF l
<1>5. SubSeq(content, 1, l) = [k \in 1..l |-> content[k]]
  BY <1>1, <1>3
<1> QED
  BY <1>4, <1>5 DEF l

\* What write_file leaves of a file.
LEMMA WrittenIs ==
  ASSUME NEW m, Memory(m, SIZEOF_FILE), NEW content \in Seq(Character)
  PROVE  /\ Memory(Written(m, content), SIZEOF_FILE)
         /\ EndsIn(Written(m, content), CONTENT, FILE_CONTENT_LENGTH)
         /\ Text(Written(m, content), CONTENT) = Kept(content)
         /\ \A i \in (0 .. SIZEOF_FILE - 1) \ (CONTENT .. CONTENT + FILE_CONTENT_LENGTH - 1) :
              Written(m, content)[i] = m[i]
<1> USE TablesAssumption
<1> DEFINE n == FILE_CONTENT_LENGTH - 1
           c == IF Len(content) < n THEN n + 1 ELSE n
           t == Padded(content, c)
           s == Stored(m, CONTENT, t)
           w == Written(m, content)
           l == KeptLength(content)
<1>1. /\ n \in Nat /\ c \in Nat /\ l \in 0..n /\ Len(content) \in Nat /\ l =< Len(content)
      /\ n =< c /\ c =< n + 1 /\ (l < n => c = n + 1 /\ l = Len(content))
      /\ CONTENT \in Nat /\ SIZEOF_FILE \in Nat /\ FILE_CONTENT_LENGTH = n + 1
      /\ CONTENT + n + 1 < SIZEOF_FILE
  BY DEF KeptLength, CONTENT, SIZEOF_FILE, IS_DIRECTORY
<1>2. /\ Len(t) = c /\ \A k \in 1..l : k =< c => t[k] = content[k]
      /\ (l < n => t[l+1] = NUL)
  BY <1>1 DEF Padded
<1>3. w = [s EXCEPT ![CONTENT + n] = NUL]
  BY DEF Written, strncpy
<1> HIDE DEF n, c, t, w, l
<1>4. Memory(s, SIZEOF_FILE) /\ \A i \in 0 .. SIZEOF_FILE - 1 :
         s[i] = IF i \in CONTENT .. CONTENT + c - 1 THEN t[i-CONTENT+1] ELSE m[i]
  <2>1. CONTENT \in Nat /\ SIZEOF_FILE \in Nat /\ c \in Nat /\ Len(t) = c
    BY <1>1, <1>2
  <2>2. StoredAt(s, m, SIZEOF_FILE, CONTENT, t, c)
    BY <2>1, StoredIs
  <2> QED
    BY <2>2, Zenon DEF StoredAt
<1> HIDE DEF s
<1>5. /\ Memory(w, SIZEOF_FILE) /\ w[CONTENT + n] = NUL
      /\ \A i \in (0 .. SIZEOF_FILE - 1) \ {CONTENT + n} :
           w[i] = IF i \in CONTENT .. CONTENT + c - 1 THEN t[i-CONTENT+1] ELSE m[i]
  BY <1>1, <1>3, <1>4, SMTT(40) DEF Memory
<1>6. \A k \in 1..l : w[CONTENT+k-1] = content[k]
  <2> SUFFICES ASSUME NEW k \in 1..l PROVE w[CONTENT+k-1] = content[k]
    OBVIOUS
  <2>1. /\ CONTENT+k-1 \in (0 .. SIZEOF_FILE - 1) \ {CONTENT + n}
        /\ CONTENT+k-1 \in CONTENT .. CONTENT + c - 1 /\ (CONTENT+k-1) - CONTENT + 1 = k
    BY <1>1
  <2> QED
    BY <1>1, <1>2, <1>5, <2>1
<1>7. IsLength(w, CONTENT, l)
  <2>1. w[CONTENT + l] = NUL
    <3>1. CASE l = n
      BY <1>5, <3>1
    <3>2. CASE l < n
      <4>1. /\ CONTENT+l \in (0 .. SIZEOF_FILE - 1) \ {CONTENT + n}
            /\ CONTENT+l \in CONTENT .. CONTENT + c - 1 /\ (CONTENT+l) - CONTENT + 1 = l + 1
        BY <1>1, <3>2
      <4> QED
        BY <1>2, <1>5, <3>2, <4>1
    <3> QED
      BY <1>1, <3>1, <3>2
  <2>2. ASSUME NEW k \in 0 .. l-1 PROVE w[CONTENT + k] # NUL
    <3>1. k + 1 \in 1..l /\ k + 1 \in 1..Len(content) /\ CONTENT + (k+1) - 1 = CONTENT + k
      BY <1>1
    <3>2. content[k+1] \in Character
      BY <3>1
    <3> QED
      BY <1>6, <3>1, <3>2 DEF Character
  <2> QED
    BY <2>1, <2>2 DEF IsLength
<1>8. Text(w, CONTENT) = [k \in 1..l |-> w[CONTENT+k-1]]
  <2>1. l \in Nat /\ CONTENT \in Nat /\ SIZEOF_FILE \in Nat /\ CONTENT + l < SIZEOF_FILE
    BY <1>1
  <2>2. Memory(w, SIZEOF_FILE)
    BY <1>5
  <2> QED
    BY <1>7, <2>1, <2>2, TextIs
<1>9. Text(w, CONTENT) = Kept(content)
  BY <1>6, <1>8, KeptIs DEF l
<1>10. EndsIn(w, CONTENT, FILE_CONTENT_LENGTH)
  BY <1>1, <1>5 DEF EndsIn
<1>11. \A i \in (0 .. SIZEOF_FILE - 1) \ (CONTENT .. CONTENT + FILE_CONTENT_LENGTH - 1) : w[i] = m[i]
  BY <1>1, <1>5
<1> QED
  BY <1>5, <1>9, <1>10, <1>11 DEF w

\* The entry create_file writes.
NewFile(m, n, is_directory) ==
  [strcpy(m, NAME, n) EXCEPT ![IS_DIRECTORY] = IF is_directory THEN "TRUE" ELSE NUL,
                             ![CONTENT] = NUL]

LEMMA NewFileIs ==
  ASSUME NEW m, Memory(m, SIZEOF_FILE), NEW is_directory \in BOOLEAN,
         NEW n \in Seq(Character), Len(n) < FILENAME_LENGTH
  PROVE  /\ Memory(NewFile(m, n, is_directory), SIZEOF_FILE)
         /\ EndsIn(NewFile(m, n, is_directory), NAME, FILENAME_LENGTH)
         /\ EndsIn(NewFile(m, n, is_directory), CONTENT, FILE_CONTENT_LENGTH)
         /\ Text(NewFile(m, n, is_directory), NAME) = n
         /\ Entry(NewFile(m, n, is_directory)) = [is_directory |-> is_directory, content |-> <<>>]
<1> USE TablesAssumption
<1> DEFINE w == strcpy(m, NAME, n)
           f == NewFile(m, n, is_directory)
<1>1. /\ SIZEOF_FILE \in Nat /\ NAME \in Nat /\ CONTENT \in Nat /\ IS_DIRECTORY \in Nat
      /\ Len(n) \in Nat /\ NAME + Len(n) < SIZEOF_FILE /\ NAME + Len(n) < NAME + FILENAME_LENGTH
      /\ NAME + FILENAME_LENGTH = CONTENT /\ CONTENT + FILE_CONTENT_LENGTH = IS_DIRECTORY
      /\ IS_DIRECTORY + 1 = SIZEOF_FILE /\ CONTENT < IS_DIRECTORY /\ NAME =< CONTENT
  BY DEF SIZEOF_FILE, NAME, CONTENT, IS_DIRECTORY
<1>2. Memory(w, SIZEOF_FILE) /\ IsLength(w, NAME, Len(n)) /\ Text(w, NAME) = n
  BY <1>1, Copied
<1>3. f = [w EXCEPT ![IS_DIRECTORY] = IF is_directory THEN "TRUE" ELSE NUL, ![CONTENT] = NUL]
  BY DEF NewFile
<1> HIDE DEF w, f
<1>4. /\ Memory(f, SIZEOF_FILE) /\ f[CONTENT] = NUL
      /\ f[IS_DIRECTORY] = IF is_directory THEN "TRUE" ELSE NUL
      /\ \A i \in (0 .. SIZEOF_FILE - 1) \ {CONTENT, IS_DIRECTORY} : f[i] = w[i]
  <2>1. PICK flag : flag = IF is_directory THEN "TRUE" ELSE NUL
    OBVIOUS
  <2>2. f = [w EXCEPT ![IS_DIRECTORY] = flag, ![CONTENT] = NUL]
    BY <1>3, <2>1
  <2>3. DOMAIN w = 0 .. SIZEOF_FILE - 1
    BY <1>2 DEF Memory
  <2>4. CONTENT \in DOMAIN w /\ IS_DIRECTORY \in DOMAIN w /\ CONTENT # IS_DIRECTORY
    BY <1>1, <2>3
  <2>5. /\ DOMAIN f = DOMAIN w /\ f[CONTENT] = NUL /\ f[IS_DIRECTORY] = flag
        /\ \A i \in DOMAIN w \ {CONTENT, IS_DIRECTORY} : f[i] = w[i]
    BY <2>2, <2>4
  <2> QED
    BY <2>1, <2>3, <2>5 DEF Memory
<1>5. EndsIn(w, NAME, FILENAME_LENGTH)
  BY <1>1, <1>2 DEF EndsIn, IsLength
<1>6. EndsIn(f, NAME, FILENAME_LENGTH) /\ Text(f, NAME) = n
  <2>1. \A k \in NAME .. NAME + FILENAME_LENGTH - 1 : f[k] = w[k]
    BY <1>1, <1>4
  <2>2. NAME + FILENAME_LENGTH =< SIZEOF_FILE
    BY <1>1
  <2> QED
    BY <1>1, <1>2, <1>4, <1>5, <2>1, <2>2, SameField
<1>7. EndsIn(f, CONTENT, FILE_CONTENT_LENGTH)
  BY <1>1, <1>4 DEF EndsIn
<1>8. Text(f, CONTENT) = <<>>
  <2>1. 0 \in Nat /\ CONTENT + 0 = CONTENT /\ CONTENT + 0 < SIZEOF_FILE
    BY <1>1
  <2>2. IsLength(f, CONTENT, 0)
    BY <1>4, <2>1 DEF IsLength
  <2>3. Memory(f, SIZEOF_FILE) /\ SIZEOF_FILE \in Nat /\ CONTENT \in Nat
    BY <1>1, <1>4
  <2>4. Text(f, CONTENT) = [k \in 1..0 |-> f[CONTENT+k-1]]
    BY <2>1, <2>2, <2>3, TextIs
  <2> QED
    BY <2>4
<1>9. IsDirectory(f) = is_directory
  BY <1>4 DEF IsDirectory, NUL
<1> QED
  BY <1>4, <1>6, <1>7, <1>8, <1>9 DEF f, Entry

\* The file table as its operations keep it.
FileEnds(file) ==
  EndsIn(file, NAME, FILENAME_LENGTH) /\ EndsIn(file, CONTENT, FILE_CONTENT_LENGTH)
FileNamed(file) == Text(file, NAME) \in FileName /\ Len(Text(file, NAME)) \in 1 .. FILENAME_LENGTH - 1
FileMemory ==
  /\ file_count \in 0..MAX_FILES /\ DOMAIN file_list = 0 .. MAX_FILES - 1
  /\ \A i \in 0 .. MAX_FILES - 1 : Memory(file_list[i], SIZEOF_FILE)
FileInv ==
  /\ FileMemory
  /\ \A i \in 0 .. file_count - 1 : FileEnds(file_list[i]) /\ FileNamed(file_list[i])

\* What the steps do to the table, with the place they do it at.
FirstAt(n, i) ==
  /\ i \in 0 .. file_count - 1 /\ Text(file_list[i], NAME) = n
  /\ \A j \in 0 .. i-1 : Text(file_list[j], NAME) # n
Creates(n, is_directory) ==
  /\ file_count < MAX_FILES /\ Len(n) \in 1 .. FILENAME_LENGTH - 1
  /\ DOMAIN file_list' = DOMAIN file_list
  /\ \A i \in DOMAIN file_list \ {file_count} : file_list'[i] = file_list[i]
  /\ file_list'[file_count] = NewFile(file_list[file_count], n, is_directory)
  /\ file_count' = file_count + 1
Deletes(n, i) ==
  /\ FirstAt(n, i)
  /\ file_list' = Removed(file_list, file_count, i)
  /\ file_count' = file_count - 1
Writes(n, content, i) ==
  /\ FirstAt(n, i) /\ ~IsDirectory(file_list[i])
  /\ DOMAIN file_list' = DOMAIN file_list
  /\ \A j \in DOMAIN file_list \ {i} : file_list'[j] = file_list[j]
  /\ file_list'[i] = Written(file_list[i], content)
  /\ file_count' = file_count

LEMMA FirstFileIs ==
  ASSUME FileInv, NEW n, FilesNamed(n) # {}
  PROVE  FirstAt(n, FirstFile(n))
<1>1. FilesNamed(n) \subseteq Nat
  BY DEF FilesNamed
<1>2. PICK i \in FilesNamed(n) : \A j \in FilesNamed(n) : i =< j
  BY <1>1, LeastNumber
<1>3. FirstFile(n) = i
  <2>1. FilesNamed(n) \subseteq Int
    BY <1>1
  <2> QED
    BY <1>2, <2>1, MinIs DEF FirstFile
<1>4. file_count \in Nat
  BY DEF FileInv, FileMemory
<1> QED
  BY <1>2, <1>3, <1>4 DEF FirstAt, FilesNamed, strcmp

LEMMA CreateFileIs ==
  ASSUME FileInv, NEW n \in FileName, NEW is_directory \in BOOLEAN, create_file(n, is_directory)
  PROVE  Creates(n, is_directory)
<1> USE TablesAssumption
<1>1. file_count \in 0 .. MAX_FILES - 1 /\ DOMAIN file_list = 0 .. MAX_FILES - 1
  BY DEF create_file, Full, FileInv, FileMemory
<1>2. Len(n) \in 1 .. FILENAME_LENGTH - 1
  BY DEF create_file
<1>3. file_list' = [file_list EXCEPT ![file_count] = NewFile(file_list[file_count], n, is_directory)]
      /\ file_count' = file_count + 1
  BY DEF create_file, NewFile
<1> QED
  BY <1>1, <1>2, <1>3 DEF Creates

LEMMA DeleteFileIs ==
  ASSUME FileInv, NEW n \in FileName, delete_file(n)
  PROVE  Deletes(n, FirstFile(n))
BY FirstFileIs DEF delete_file, Deletes

LEMMA WriteFileIs ==
  ASSUME FileInv, NEW n \in FileName, NEW content \in Contents, write_file(n, content)
  PROVE  Writes(n, content, FirstFile(n))
<1> USE TablesAssumption
<1>1. FirstAt(n, FirstFile(n))
  BY FirstFileIs DEF write_file
<1>2. FirstFile(n) \in DOMAIN file_list
  BY <1>1 DEF FirstAt, FileInv, FileMemory
<1> QED
  BY <1>1, <1>2 DEF write_file, Writes

LEMMA CreateKeepsFiles ==
  ASSUME FileInv, NEW n \in FileName, NEW is_directory \in BOOLEAN, Creates(n, is_directory)
  PROVE  FileInv'
<1> USE TablesAssumption
<1>1. /\ file_count \in 0 .. MAX_FILES - 1 /\ DOMAIN file_list = 0 .. MAX_FILES - 1
      /\ file_count' = file_count + 1 /\ DOMAIN file_list' = DOMAIN file_list
      /\ \A i \in (0 .. MAX_FILES - 1) \ {file_count} : file_list'[i] = file_list[i]
  BY DEF Creates, FileInv, FileMemory
<1> DEFINE f == file_list'[file_count]
<1>2. /\ Memory(f, SIZEOF_FILE) /\ EndsIn(f, NAME, FILENAME_LENGTH)
      /\ EndsIn(f, CONTENT, FILE_CONTENT_LENGTH) /\ Text(f, NAME) = n
  <2>1. Memory(file_list[file_count], SIZEOF_FILE)
    BY <1>1 DEF FileInv, FileMemory
  <2>2. n \in Seq(Character) /\ Len(n) < FILENAME_LENGTH
    BY DEF Creates, Character
  <2>3. f = NewFile(file_list[file_count], n, is_directory)
    BY DEF Creates
  <2> HIDE DEF f
  <2> QED
    BY <2>1, <2>2, <2>3, NewFileIs
<1>3. FileEnds(f) /\ FileNamed(f)
  <2>1. Len(n) \in 1 .. FILENAME_LENGTH - 1
    BY DEF Creates
  <2> HIDE DEF f
  <2> QED
    BY <1>2, <2>1 DEF FileEnds, FileNamed
<1>4. FileMemory'
  <2>1. \A i \in 0 .. MAX_FILES - 1 : Memory(file_list'[i], SIZEOF_FILE)
    BY <1>1, <1>2 DEF FileInv, FileMemory
  <2> QED
    BY <1>1, <2>1 DEF FileMemory
<1>5. ASSUME NEW i \in 0 .. file_count PROVE FileEnds(file_list'[i]) /\ FileNamed(file_list'[i])
  <2>1. CASE i = file_count
    BY <1>3, <2>1
  <2>2. CASE i # file_count
    <3>1. i \in 0 .. file_count - 1 /\ file_list'[i] = file_list[i]
      BY <1>1, <2>2
    <3> QED
      BY <3>1 DEF FileInv
  <2> QED
    BY <2>1, <2>2
<1>6. 0 .. file_count' - 1 = 0 .. file_count
  BY <1>1
<1> QED
  BY <1>4, <1>5, <1>6 DEF FileInv

LEMMA DeleteShortens ==
  ASSUME FileInv, NEW n, NEW i, Deletes(n, i)
  PROVE  Shortened(file_list', file_list, MAX_FILES, file_count, i)
<1>1. /\ file_count \in 0..MAX_FILES /\ MAX_FILES \in Nat /\ DOMAIN file_list = 0 .. MAX_FILES - 1
      /\ i \in 0 .. file_count - 1 /\ file_list' = Removed(file_list, file_count, i)
  BY TablesAssumption DEF Deletes, FirstAt, FileInv, FileMemory
<1> QED
  BY <1>1, RemovedIs

LEMMA DeleteKeepsFiles ==
  ASSUME FileInv, NEW n, NEW i, Deletes(n, i)
  PROVE  FileInv'
<1> USE TablesAssumption
<1>1. /\ file_count \in 1..MAX_FILES /\ i \in 0 .. file_count - 1
      /\ file_count' = file_count - 1
  BY DEF Deletes, FirstAt, FileInv, FileMemory
<1>2. Shortened(file_list', file_list, MAX_FILES, file_count, i)
  BY DeleteShortens
<1>3. FileMemory'
  <2>1. ASSUME NEW j \in 0 .. MAX_FILES - 1 PROVE Memory(file_list'[j], SIZEOF_FILE)
    <3>1. PICK k \in 0 .. MAX_FILES - 1 : file_list'[j] = file_list[k]
      BY <1>2 DEF Shortened
    <3> QED
      BY <3>1 DEF FileInv, FileMemory
  <2> QED
    BY <1>1, <1>2, <2>1 DEF FileMemory, Shortened
<1>4. ASSUME NEW j \in 0 .. file_count - 2
      PROVE  FileEnds(file_list'[j]) /\ FileNamed(file_list'[j])
  <2>1. MovedFrom(i, j) \in 0 .. file_count - 1 /\ file_list'[j] = file_list[MovedFrom(i, j)]
    BY <1>2 DEF Shortened
  <2> QED
    BY <2>1 DEF FileInv
<1>5. 0 .. file_count' - 1 = 0 .. file_count - 2
  BY <1>1
<1> QED
  BY <1>3, <1>4, <1>5 DEF FileInv

\* Writing leaves the name, and a content that ends within its field.
LEMMA WriteStep ==
  ASSUME FileInv, NEW n, NEW content \in Contents, NEW i, Writes(n, content, i)
  PROVE  /\ i \in 0 .. file_count - 1 /\ Memory(file_list'[i], SIZEOF_FILE)
         /\ FileEnds(file_list'[i]) /\ FileNamed(file_list'[i])
         /\ Text(file_list'[i], NAME) = Text(file_list[i], NAME)
         /\ Entry(file_list'[i]) = [is_directory |-> FALSE, content |-> Kept(content)]
<1> USE TablesAssumption
<1>1. PICK m : m = file_list[i]
  OBVIOUS
<1>2. PICK w : w = file_list'[i]
  OBVIOUS
<1>3. /\ i \in 0 .. file_count - 1 /\ w = Written(m, content) /\ ~IsDirectory(m)
      /\ Memory(m, SIZEOF_FILE) /\ FileEnds(m) /\ FileNamed(m) /\ content \in Seq(Character)
  BY <1>1, <1>2 DEF Writes, FirstAt, FileInv, FileMemory, Character
<1>4. /\ Memory(w, SIZEOF_FILE) /\ EndsIn(w, CONTENT, FILE_CONTENT_LENGTH)
      /\ Text(w, CONTENT) = Kept(content)
      /\ \A k \in (0 .. SIZEOF_FILE - 1) \ (CONTENT .. CONTENT + FILE_CONTENT_LENGTH - 1) : w[k] = m[k]
  BY <1>3, WrittenIs
<1>5. /\ SIZEOF_FILE \in Nat /\ NAME \in Nat /\ NAME + FILENAME_LENGTH =< SIZEOF_FILE
      /\ \A k \in NAME .. NAME + FILENAME_LENGTH - 1 :
           k \in (0 .. SIZEOF_FILE - 1) \ (CONTENT .. CONTENT + FILE_CONTENT_LENGTH - 1)
      /\ IS_DIRECTORY \in (0 .. SIZEOF_FILE - 1) \ (CONTENT .. CONTENT + FILE_CONTENT_LENGTH - 1)
  BY DEF SIZEOF_FILE, NAME, CONTENT, IS_DIRECTORY
<1>6. EndsIn(w, NAME, FILENAME_LENGTH) /\ Text(w, NAME) = Text(m, NAME)
  <2>1. \A k \in NAME .. NAME + FILENAME_LENGTH - 1 : w[k] = m[k]
    BY <1>4, <1>5
  <2>2. EndsIn(m, NAME, FILENAME_LENGTH)
    BY <1>3 DEF FileEnds
  <2> QED
    BY <1>3, <1>4, <1>5, <2>1, <2>2, SameField
<1>7. IsDirectory(w) = FALSE
  BY <1>3, <1>4, <1>5 DEF IsDirectory
<1>8. Entry(w) = [is_directory |-> FALSE, content |-> Kept(content)]
  BY <1>4, <1>7 DEF Entry
<1>9. FileEnds(w) /\ FileNamed(w)
  BY <1>3, <1>4, <1>6 DEF FileEnds, FileNamed
<1> QED
  BY <1>1, <1>2, <1>3, <1>4, <1>6, <1>8, <1>9

LEMMA WriteKeepsFiles ==
  ASSUME FileInv, NEW n, NEW content \in Contents, NEW i, Writes(n, content, i)
  PROVE  FileInv'
<1> USE TablesAssumption
<1>1. /\ i \in 0 .. file_count - 1 /\ Memory(file_list'[i], SIZEOF_FILE)
      /\ FileEnds(file_list'[i]) /\ FileNamed(file_list'[i])
  BY WriteStep
<1>2. /\ file_count \in 0..MAX_FILES /\ file_count' = file_count
      /\ DOMAIN file_list = 0 .. MAX_FILES - 1 /\ DOMAIN file_list' = DOMAIN file_list
      /\ \A j \in (0 .. MAX_FILES - 1) \ {i} : file_list'[j] = file_list[j]
  BY DEF Writes, FileInv, FileMemory
<1>3. \A j \in 0 .. MAX_FILES - 1 : Memory(file_list'[j], SIZEOF_FILE)
  BY <1>1, <1>2 DEF FileInv, FileMemory
<1>4. \A j \in 0 .. file_count - 1 : FileEnds(file_list'[j]) /\ FileNamed(file_list'[j])
  BY <1>1, <1>2 DEF FileInv
<1> QED
  BY <1>2, <1>3, <1>4 DEF FileInv, FileMemory
-----------------------------------------------------------------------------
(***************************************************************************)
(* The invariant of both tables.                                           *)
(***************************************************************************)
DataInv == UserInv /\ FileInv

LEMMA DataStart ==
  ASSUME Init
  PROVE  DataInv
<1> USE TablesAssumption
<1>1. UserMemory
  BY DEF Init, UserMemory, NoUser, Zeros, Memory, SIZEOF_STRINGS
<1>2. FileMemory
  BY DEF Init, FileMemory, Zeros, Memory
<1>3. 0 .. user_count - 1 = {} /\ 0 .. file_count - 1 = {}
  BY DEF Init
<1> QED
  BY <1>1, <1>2, <1>3 DEF DataInv, UserInv, FileInv, OneEach

LEMMA UsersLeft ==
  ASSUME UserInv, UNCHANGED uvars
  PROVE  UserInv'
BY DEF UserInv, UserMemory, uvars

LEMMA FilesLeft ==
  ASSUME FileInv, UNCHANGED fvars
  PROVE  FileInv'
BY DEF FileInv, FileMemory, fvars

LEMMA DataStep ==
  ASSUME DataInv, [Next]_vars
  PROVE  DataInv'
<1> SUFFICES UserInv' /\ FileInv'
  BY DEF DataInv
<1> USE DEF DataInv
<1>1. ASSUME NEW n \in UserName, NEW password \in Passwords, NEW is_admin \in BOOLEAN,
             next_uid < FirstUid + MaxAdds, add_user(n, password, is_admin)
      PROVE  UserInv' /\ FileInv'
  <2>1. UserInv'
    BY <1>1, AddUserIs, AddKeepsUsers
  <2>2. UNCHANGED fvars
    BY <1>1 DEF add_user
  <2> QED
    BY <2>1, <2>2, FilesLeft
<1>2. ASSUME NEW n \in UserName, remove_user(n)
      PROVE  UserInv' /\ FileInv'
  <2>1. UserInv'
    BY <1>2, RemoveUserIs, RemoveKeepsUsers
  <2>2. UNCHANGED fvars
    BY <1>2 DEF remove_user
  <2> QED
    BY <2>1, <2>2, FilesLeft
<1>3. ASSUME NEW n \in FileName, NEW is_directory \in BOOLEAN, create_file(n, is_directory)
      PROVE  UserInv' /\ FileInv'
  <2>1. FileInv'
    BY <1>3, CreateFileIs, CreateKeepsFiles
  <2>2. UNCHANGED uvars
    BY <1>3 DEF create_file
  <2> QED
    BY <2>1, <2>2, UsersLeft
<1>4. ASSUME NEW n \in FileName, delete_file(n)
      PROVE  UserInv' /\ FileInv'
  <2>1. FileInv'
    BY <1>4, DeleteFileIs, DeleteKeepsFiles
  <2>2. UNCHANGED uvars
    BY <1>4 DEF delete_file
  <2> QED
    BY <2>1, <2>2, UsersLeft
<1>5. ASSUME NEW n \in FileName, NEW content \in Contents, write_file(n, content)
      PROVE  UserInv' /\ FileInv'
  <2>1. FileInv'
    BY <1>5, WriteFileIs, WriteKeepsFiles
  <2>2. UNCHANGED uvars
    BY <1>5 DEF write_file
  <2> QED
    BY <2>1, <2>2, UsersLeft
<1>6. ASSUME UNCHANGED <<uvars, fvars>>
      PROVE  UserInv' /\ FileInv'
  BY <1>6, UsersLeft, FilesLeft
<1>7. ASSUME NEW n \in FileName, read_file(n)
      PROVE  UNCHANGED <<uvars, fvars>>
  BY <1>7 DEF read_file, Show
<1>8. ASSUME list_users \/ list_files
      PROVE  UNCHANGED <<uvars, fvars>>
  BY <1>8 DEF list_users, list_files, Show
<1>9. ASSUME NEW n \in FileName, delete_directory(n)
      PROVE  delete_file(n)
  BY <1>9 DEF delete_directory
<1>10. CASE UNCHANGED vars
  BY <1>6, <1>10 DEF vars
<1> QED
  BY <1>1, <1>2, <1>3, <1>4, <1>5, <1>6, <1>7, <1>8, <1>9, <1>10 DEF Next

(***************************************************************************)
(* The counts stay within the tables, and every entry keeps its size.      *)
(***************************************************************************)
THEOREM DataTypeCorrect == Spec => []TypeOK
<1>1. DataInv => TypeOK
  BY DEF DataInv, UserInv, FileInv, UserMemory, FileMemory, Memory, TypeOK
<1> QED
  BY <1>1, DataStart, DataStep, PTL DEF Spec

(***************************************************************************)
(* No name has two entries of the user table: remove_user leaves none that *)
(* would still log in.                                                     *)
(***************************************************************************)
THEOREM NamesStayUnique == Spec => []OneEntryPerUser
<1>1. ASSUME UserInv, NEW n \in UserName
      PROVE  Cardinality(UsersNamed(n)) =< 1
  <2>1. CASE UsersNamed(n) = {}
    BY <2>1, FS_EmptySet
  <2>2. CASE UsersNamed(n) # {}
    <3>1. PICK i \in UsersNamed(n) : TRUE
      BY <2>2
    <3>2. UsersNamed(n) = {i}
      BY <1>1, <3>1 DEF UserInv, OneEach, UsersNamed, NameIn, strcmp
    <3> QED
      BY <3>2, FS_Singleton
  <2> QED
    BY <2>1, <2>2
<1>2. DataInv => OneEntryPerUser
  BY <1>1 DEF DataInv, OneEntryPerUser
<1> QED
  BY <1>2, DataStart, DataStep, PTL DEF Spec

(***************************************************************************)
(* Every name, password and content in the tables ends within its field,   *)
(* whatever lengths strcpy and strncpy were given.                         *)
(***************************************************************************)
THEOREM StringsEnd == Spec => []FieldsEnd
<1>1. ASSUME DataInv
      PROVE  FieldsEnd
  <2> USE TablesAssumption
  <2>1. /\ SIZEOF_STRINGS \in Nat /\ SIZEOF_FILE \in Nat
        /\ NAME \in Nat /\ PASSWORD \in Nat /\ CONTENT \in Nat
        /\ USERNAME_LENGTH \in Nat /\ PASSWORD_LENGTH \in Nat
        /\ FILENAME_LENGTH \in Nat /\ FILE_CONTENT_LENGTH \in Nat
        /\ NAME + USERNAME_LENGTH =< SIZEOF_STRINGS /\ PASSWORD + PASSWORD_LENGTH =< SIZEOF_STRINGS
        /\ NAME + FILENAME_LENGTH =< SIZEOF_FILE /\ CONTENT + FILE_CONTENT_LENGTH =< SIZEOF_FILE
    BY DEF SIZEOF_STRINGS, SIZEOF_FILE, NAME, PASSWORD, CONTENT, IS_DIRECTORY
  <2>2. ASSUME NEW m, NEW size \in Nat, Memory(m, size), NEW p \in Nat, NEW length \in Nat,
               p + length =< size, EndsIn(m, p, length)
        PROVE  Ends(m, p, length)
    <3>1. strlen(m, p) \in 0 .. length - 1
      BY <2>2, LengthWithin
    <3> QED
      BY <2>2, <3>1 DEF Ends
  <2>3. ASSUME NEW i \in 0 .. user_count - 1
        PROVE  Ends(users[i].text, NAME, USERNAME_LENGTH) /\ Ends(users[i].text, PASSWORD, PASSWORD_LENGTH)
    <3>1. Memory(users[i].text, SIZEOF_STRINGS) /\ UserEnds(users[i])
      BY <1>1 DEF DataInv, UserInv, UserMemory
    <3> QED
      BY <2>1, <2>2, <3>1 DEF UserEnds
  <2>4. ASSUME NEW i \in 0 .. file_count - 1
        PROVE  Ends(file_list[i], NAME, FILENAME_LENGTH) /\ Ends(file_list[i], CONTENT, FILE_CONTENT_LENGTH)
    <3>1. Memory(file_list[i], SIZEOF_FILE) /\ FileEnds(file_list[i])
      BY <1>1 DEF DataInv, FileInv, FileMemory
    <3> QED
      BY <2>1, <2>2, <3>1 DEF FileEnds
  <2> QED
    BY <2>3, <2>4 DEF FieldsEnd
<1> QED
  BY <1>1, DataStart, DataStep, PTL DEF Spec

(***************************************************************************)
(* add_user opens the login it is given and no other, and remove_user      *)
(* closes those of its name and no other.                                  *)
(***************************************************************************)
THEOREM LoginsStayExact == Spec => LoginsExact
<1>1. ASSUME DataInv, DataInv',
             NEW n \in UserName, NEW password \in Passwords, NEW is_admin \in BOOLEAN,
             add_user(n, password, is_admin)
      PROVE  Logins' = Logins \cup {<<n, password>>}
  BY <1>1, AddLogin DEF DataInv
<1>2. ASSUME DataInv, DataInv', NEW n \in UserName, remove_user(n)
      PROVE  Logins' = {login \in Logins : login[1] # n}
  BY <1>2, RemoveLogin DEF DataInv
<1>3. DataInv /\ DataInv' =>
        [\A n \in UserName :
           /\ \A password \in Passwords, is_admin \in BOOLEAN :
                add_user(n, password, is_admin) => Logins' = Logins \cup {<<n, password>>}
           /\ remove_user(n) => Logins' = {login \in Logins : login[1] # n}]_vars
  BY <1>1, <1>2
<1> QED
  BY <1>3, DataStart, DataStep, PTL DEF Spec, LoginsExact
-----------------------------------------------------------------------------
(***************************************************************************)
(* The accounts of a table us of c users.                                  *)
(***************************************************************************)
NamesOf(us, c) == {NameIn(us, i) : i \in 0 .. c-1}
AccountsOf(us, c) == [n \in NamesOf(us, c) |-> AccountOf(us[Min(NamedIn(us, c, n))])]

LEMMA AccountsOfIs ==
  ASSUME NEW us, NEW c \in Nat, OneEach(us, c), NEW i \in 0 .. c-1
  PROVE  NameIn(us, i) \in DOMAIN AccountsOf(us, c)
         /\ AccountsOf(us, c)[NameIn(us, i)] = AccountOf(us[i])
<1>1. Min(NamedIn(us, c, NameIn(us, i))) = i
  BY Found
<1> QED
  BY <1>1 DEF AccountsOf, NamesOf

LEMMA NamesOfAccounts ==
  ASSUME NEW us, NEW c \in Nat
  PROVE  {a.username : a \in {AccountOf(us[i]) : i \in 0 .. c-1}} = NamesOf(us, c)
<1>1. \A i \in 0 .. c-1 : AccountOf(us[i]).username = NameIn(us, i)
  BY DEF AccountOf, NameIn
<1> QED
  BY <1>1 DEF NamesOf

LEMMA AccountMapIs ==
  ASSUME user_count \in Nat, user_count' \in Nat
  PROVE  AccountMap = AccountsOf(users, user_count) /\ AccountMap' = AccountsOf(users', user_count')
<1>1. UserNames = NamesOf(users, user_count)
  BY NamesOfAccounts DEF UserNames, AccountSet
<1>2. UserNames' = NamesOf(users', user_count')
  BY NamesOfAccounts DEF UserNames, AccountSet
<1>3. AccountMap = AccountsOf(users, user_count)
  <2>1. UserNames = {} => AccountsOf(users, user_count) = <<>>
    BY <1>1 DEF AccountsOf
  <2>2. [n \in UserNames |-> AccountOf(get_user(n))] = AccountsOf(users, user_count)
    BY <1>1 DEF AccountsOf, get_user, UsersNamed, NamedIn
  <2> QED
    BY <2>1, <2>2 DEF AccountMap
<1>4. AccountMap' = AccountsOf(users', user_count')
  <2>1. UserNames' = {} => AccountsOf(users', user_count') = <<>>
    BY <1>2 DEF AccountsOf
  <2>2. [n \in UserNames |-> AccountOf(get_user(n))]' = AccountsOf(users', user_count')
    BY <1>2 DEF AccountsOf, get_user, UsersNamed, NamedIn
  <2> QED
    BY <2>1, <2>2 DEF AccountMap
<1> QED
  BY <1>3, <1>4

\* No more names than entries.
LEMMA FewNames ==
  ASSUME NEW us, NEW c \in Nat
  PROVE  Cardinality(DOMAIN AccountsOf(us, c)) =< c /\ Cardinality(DOMAIN AccountsOf(us, c)) \in Nat
<1> DEFINE f == [i \in 0 .. c-1 |-> NameIn(us, i)]
<1>1. f \in Surjection(0 .. c-1, NamesOf(us, c))
  BY DEF Surjection, NamesOf
<1>2. IsFiniteSet(0 .. c-1) /\ Cardinality(0 .. c-1) = c
  <2>1. 0 \in Int /\ c - 1 \in Int
    OBVIOUS
  <2>2. IsFiniteSet(0 .. c-1) /\ Cardinality(0 .. c-1) = IF 0 > c-1 THEN 0 ELSE c - 1 - 0 + 1
    BY <2>1, FS_Interval
  <2> QED
    BY <2>2
<1>3. IsFiniteSet(NamesOf(us, c)) /\ Cardinality(NamesOf(us, c)) =< c
  <2> HIDE DEF f
  <2> QED
    BY <1>1, <1>2, FS_Surjection
<1>4. DOMAIN AccountsOf(us, c) = NamesOf(us, c)
  BY DEF AccountsOf
<1> QED
  BY <1>3, <1>4, FS_CardinalityType

LEMMA AccountsStart ==
  ASSUME Init
  PROVE  AccountTable!Init
<1>1. NamesOf(users, user_count) = {}
  BY DEF Init, NamesOf
<1>2. AccountsOf(users, user_count) = <<>>
  BY <1>1 DEF AccountsOf
<1>3. FirstUid .. next_uid - 1 = {}
  BY TablesAssumption DEF Init
<1> QED
  <2>1. AccountMap = <<>>
    BY <1>1, <1>2, NamesOfAccounts DEF Init, AccountMap, UserNames, AccountSet
  <2> QED
    BY <1>3, <2>1 DEF AccountTable!Init

LEMMA AccountsAdd ==
  ASSUME UserInv, UserInv', NEW n \in UserName, NEW password \in Passwords, NEW is_admin \in BOOLEAN,
         Adds(n, password, is_admin), next_uid < FirstUid + MaxAdds
  PROVE  AccountTable!Add
<1> USE TablesAssumption
<1> DEFINE c == user_count
           A == AccountsOf(users, c)
           B == AccountsOf(users', c + 1)
           u == users'[c]
<1>1. /\ c \in 0 .. MAX_USERS - 1 /\ next_uid \in FirstUid .. FirstUid + MaxAdds - 1
      /\ user_count' = c + 1 /\ next_uid' = next_uid + 1
      /\ OneEach(users, c) /\ OneEach(users', c + 1)
  BY DEF UserInv, UserMemory, Adds
<1>2. /\ \A i \in 0 .. c-1 : users'[i] = users[i] /\ NameIn(users', i) = NameIn(users, i)
      /\ \A i \in 0 .. c-1 : NameIn(users, i) # n
  <2>1. DOMAIN users = 0 .. MAX_USERS - 1
    BY DEF UserInv, UserMemory
  <2>2. \A i \in 0 .. c-1 : users'[i] = users[i]
    BY <1>1, <2>1 DEF Adds
  <2> QED
    BY <2>2 DEF Adds, NameIn
<1>3. /\ NameIn(users', c) = n /\ PasswordIn(users', c) = password /\ Given(u, next_uid')
      /\ u.uid = next_uid
  BY UserStep DEF Adds
<1>4. Cardinality(DOMAIN A) < MAX_USERS
  <2>1. Cardinality(DOMAIN A) =< c /\ Cardinality(DOMAIN A) \in Nat
    BY <1>1, FewNames
  <2> QED
    BY <1>1, <2>1
<1>5. n \notin DOMAIN A
  BY <1>2 DEF AccountsOf, NamesOf
<1>6. DOMAIN B = DOMAIN A \cup {n}
  <2>1. 0 .. (c + 1) - 1 = (0 .. c-1) \cup {c}
    BY <1>1
  <2> QED
    BY <1>2, <1>3, <2>1, SMTT(40) DEF AccountsOf, NamesOf
<1>7. \A m \in DOMAIN A : B[m] = A[m]
  <2> SUFFICES ASSUME NEW m \in DOMAIN A PROVE B[m] = A[m]
    OBVIOUS
  <2>1. PICK i \in 0 .. c-1 : NameIn(users, i) = m
    BY DEF AccountsOf, NamesOf
  <2>2. A[m] = AccountOf(users[i])
    BY <1>1, <2>1, AccountsOfIs
  <2>3. i \in 0 .. (c + 1) - 1 /\ c + 1 \in Nat
    BY <1>1
  <2>4. B[NameIn(users', i)] = AccountOf(users'[i])
    BY <1>1, <2>3, AccountsOfIs
  <2> QED
    BY <1>2, <2>1, <2>2, <2>4
<1>8. B[n] = AccountOf(u)
  <2>1. c \in 0 .. (c + 1) - 1 /\ c + 1 \in Nat
    BY <1>1
  <2> QED
    BY <1>1, <1>3, <2>1, AccountsOfIs
<1>9. /\ B[n] \in [username : UserName, password : Passwords, is_admin : BOOLEAN,
                   uid : FirstUid .. FirstUid + MaxAdds, gid : {0, 1000}]
      /\ B[n].uid = next_uid
  <2>1. u.uid \in FirstUid .. FirstUid + MaxAdds
    BY <1>1, <1>3
  <2> HIDE DEF B, u
  <2> QED
    BY <1>3, <1>8, <2>1 DEF AccountOf, Given
<1>10. /\ B[n].uid \notin FirstUid .. next_uid - 1
       /\ FirstUid .. next_uid' - 1 = (FirstUid .. next_uid - 1) \cup {B[n].uid}
  <2>1. /\ next_uid \notin FirstUid .. next_uid - 1
        /\ FirstUid .. next_uid' - 1 = (FirstUid .. next_uid - 1) \cup {next_uid}
    BY <1>1
  <2>2. B[n].uid = next_uid
    BY <1>9
  <2> HIDE DEF B
  <2> QED
    BY <2>1, <2>2
<1>11. n \in {m \in UserName : Len(m) < USERNAME_LENGTH}
  BY DEF Adds
<1>12. AccountTable!Restrict(B, DOMAIN A) = A
  <2>1. A = [m \in DOMAIN A |-> A[m]]
    BY DEF AccountsOf
  <2> HIDE DEF A, B
  <2> QED
    BY <1>7, <2>1 DEF AccountTable!Restrict
<1>13. AccountMap = A /\ AccountMap' = B
  BY <1>1, AccountMapIs
<1> HIDE DEF A, B
<1>14. AccountTable!Cardinality(DOMAIN A) = Cardinality(DOMAIN A)
  BY DEF AccountTable!Cardinality, Cardinality
<1> QED
  BY <1>4, <1>5, <1>6, <1>9, <1>10, <1>11, <1>12, <1>13, <1>14, SMTT(40) DEF AccountTable!Add

LEMMA AccountsRemove ==
  ASSUME UserInv, UserInv', NEW n \in UserName, NEW i \in 0 .. user_count - 1, Removes(n, i)
  PROVE  AccountTable!Remove
<1> USE TablesAssumption
<1> DEFINE c == user_count
           A == AccountsOf(users, c)
           B == AccountsOf(users', c - 1)
<1>1. /\ c \in 1..MAX_USERS /\ user_count' = c - 1 /\ next_uid' = next_uid /\ NameIn(users, i) = n
      /\ DOMAIN users = 0 .. MAX_USERS - 1 /\ users' = Removed(users, c, i)
      /\ OneEach(users, c) /\ OneEach(users', c - 1)
  BY DEF UserInv, UserMemory, Removes
<1>2. Shortened(users', users, MAX_USERS, c, i)
  <2>1. c \in 0..MAX_USERS
    BY <1>1
  <2> QED
    BY <1>1, <2>1, RemovedIs
<1>3. \A k \in (0 .. c-1) \ {i} : NameIn(users, k) # n
  BY <1>1 DEF OneEach
<1>4. n \in DOMAIN A
  BY <1>1 DEF AccountsOf, NamesOf
<1>5. ASSUME NEW j \in 0 .. c-2
      PROVE  /\ users'[j] = users[MovedFrom(i, j)] /\ MovedFrom(i, j) \in (0 .. c-1) \ {i}
             /\ NameIn(users', j) = NameIn(users, MovedFrom(i, j))
  BY <1>2 DEF Shortened, NameIn
<1>6. (c - 1) - 1 = c - 2
  BY <1>1
<1>7. DOMAIN B = DOMAIN A \ {n}
  <2>1. NamesOf(users', c - 1) \subseteq NamesOf(users, c) \ {n}
    BY <1>3, <1>5, <1>6 DEF NamesOf
  <2>2. ASSUME NEW m \in NamesOf(users, c) \ {n} PROVE m \in NamesOf(users', c - 1)
    <3>1. PICK k \in (0 .. c-1) \ {i} : NameIn(users, k) = m
      BY <1>1, <2>2 DEF NamesOf
    <3>2. PICK j \in 0 .. c-2 : MovedFrom(i, j) = k
      BY <1>2 DEF Shortened
    <3>3. NameIn(users', j) = m
      BY <1>5, <3>1, <3>2
    <3> QED
      BY <1>6, <3>3 DEF NamesOf
  <2> QED
    BY <2>1, <2>2 DEF AccountsOf
<1>8. \A m \in DOMAIN B : B[m] = A[m]
  <2> SUFFICES ASSUME NEW m \in DOMAIN B PROVE B[m] = A[m]
    OBVIOUS
  <2>1. PICK j \in 0 .. c-2 : NameIn(users', j) = m
    BY <1>6 DEF AccountsOf, NamesOf
  <2>2. c - 1 \in Nat /\ j \in 0 .. (c - 1) - 1 /\ c \in Nat /\ MovedFrom(i, j) \in 0 .. c-1
    BY <1>1, <1>5
  <2>3. B[NameIn(users', j)] = AccountOf(users'[j])
    BY <1>1, <2>2, AccountsOfIs
  <2>4. A[NameIn(users, MovedFrom(i, j))] = AccountOf(users[MovedFrom(i, j)])
    BY <1>1, <2>2, AccountsOfIs
  <2> QED
    BY <1>5, <2>1, <2>3, <2>4
<1>9. B = AccountTable!Restrict(A, DOMAIN A \ {n})
  <2>1. B = [m \in DOMAIN B |-> B[m]]
    BY DEF AccountsOf
  <2> HIDE DEF A, B
  <2> QED
    BY <1>7, <1>8, <2>1 DEF AccountTable!Restrict
<1>10. AccountMap = A /\ AccountMap' = B
  BY <1>1, AccountMapIs
<1> HIDE DEF A, B
<1> QED
  BY <1>1, <1>4, <1>9, <1>10 DEF AccountTable!Remove

LEMMA AccountsLeft ==
  ASSUME UserInv, UNCHANGED uvars
  PROVE  UNCHANGED <<AccountMap, FirstUid .. next_uid - 1>>
<1>1. user_count \in Nat /\ user_count' \in Nat
  BY TablesAssumption DEF UserInv, UserMemory, uvars
<1> QED
  BY <1>1, AccountMapIs DEF uvars

(***************************************************************************)
(* The user table implements a set of accounts (Accounts): each name has   *)
(* one, adding or removing one leaves the others as they are, and no uid   *)
(* is given twice.                                                         *)
(***************************************************************************)
THEOREM UsersImplementAccounts == Spec => AccountsSpec
<1>1. ASSUME DataInv, DataInv', [Next]_vars
      PROVE  AccountTable!Next \/ UNCHANGED <<AccountMap, FirstUid .. next_uid - 1>>
  <2>1. ASSUME NEW n \in UserName, NEW password \in Passwords, NEW is_admin \in BOOLEAN,
               next_uid < FirstUid + MaxAdds, add_user(n, password, is_admin)
        PROVE  AccountTable!Next
    BY <1>1, <2>1, AddUserIs, AccountsAdd DEF DataInv, AccountTable!Next
  <2>2. ASSUME NEW n \in UserName, remove_user(n)
        PROVE  AccountTable!Next
    <3>1. PICK i \in 0 .. user_count - 1 : Removes(n, i)
      BY <1>1, <2>2, RemoveUserIs DEF DataInv
    <3> QED
      BY <1>1, <3>1, AccountsRemove DEF DataInv, AccountTable!Next
  <2>3. CASE UNCHANGED uvars
    BY <1>1, <2>3, AccountsLeft DEF DataInv
  <2>4. ASSUME NEW n \in FileName
        PROVE  /\ \A is_directory \in BOOLEAN : create_file(n, is_directory) => UNCHANGED uvars
               /\ delete_file(n) \/ delete_directory(n) \/ read_file(n) => UNCHANGED uvars
               /\ \A content \in Contents : write_file(n, content) => UNCHANGED uvars
    BY DEF create_file, delete_file, delete_directory, read_file, write_file, Show
  <2>5. list_users \/ list_files \/ UNCHANGED vars => UNCHANGED uvars
    BY DEF list_users, list_files, Show, vars
  <2> QED
    BY <1>1, <2>1, <2>2, <2>3, <2>4, <2>5 DEF Next
<1>2. Spec => AccountTable!Init /\ [][AccountTable!Next]_<<AccountMap, FirstUid .. next_uid - 1>>
  BY <1>1, AccountsStart, DataStart, DataStep, PTL DEF Spec
<1> QED
  BY <1>2 DEF AccountsSpec, AccountTable!Spec, AccountTable!vars
-----------------------------------------------------------------------------
(***************************************************************************)
(* The queues of a table fl of c files: one entry after the other, those   *)
(* of the name n are put behind what there is.                             *)
(***************************************************************************)
PartOf(file, n) == IF strcmp(file, NAME, n) THEN <<Entry(file)>> ELSE <<>>
Chain(fl, c, n) ==
  CHOOSE queue : queue = [k \in 0..c |-> IF k = 0 THEN <<>> ELSE queue[k-1] \o PartOf(fl[k-1], n)]
QueueIn(fl, c, n) == Chain(fl, c, n)[c]

\* q[k] is the queue of the first k files; the entries are from E.
IsQueue(q, E, fl, c, n) ==
  /\ q \in [0..c -> Seq(E)] /\ q[0] = <<>>
  /\ \A k \in 0 .. c-1 : q[k+1] = q[k] \o PartOf(fl[k], n)

LEMMA QueueIs ==
  ASSUME NEW fl, NEW c \in Nat, NEW n, NEW E, \A k \in 0 .. c-1 : Entry(fl[k]) \in E
  PROVE  IsQueue(Chain(fl, c, n), E, fl, c, n)
<1> DEFINE part(k) == IF k < c THEN PartOf(fl[k], n) ELSE <<>>
           step == [x \in Nat \X Seq(E) |-> x[2] \o part(x[1])]
           Rec(queue) == [k \in 0..c |-> IF k = 0 THEN <<>> ELSE queue[k-1] \o PartOf(fl[k-1], n)]
<1>1. \A k \in Nat : part(k) \in Seq(E)
  <2> SUFFICES ASSUME NEW k \in Nat PROVE part(k) \in Seq(E)
    OBVIOUS
  <2>1. CASE k < c
    <3>1. Entry(fl[k]) \in E
      BY <2>1
    <3>2. <<Entry(fl[k])>> \in Seq(E)
      BY <3>1
    <3> QED
      BY <2>1, <3>2 DEF PartOf
  <2>2. CASE ~(k < c)
    BY <2>2
  <2> QED
    BY <2>1, <2>2
<1>2. \A k \in Nat, x \in Seq(E) : step[<<k, x>>] = x \o part(k)
  <2> HIDE DEF part
  <2> QED
    OBVIOUS
<1>3. PICK f : f \in [Nat -> Seq(E)] /\ f[0] = <<>> /\ \A k \in Nat : f[k+1] = f[k] \o part(k)
  <2> HIDE DEF part, step
  <2>1. ASSUME NEW k \in Nat, NEW x \in Seq(E) PROVE step[<<k, x>>] \in Seq(E)
    <3>1. part(k) \in Seq(E)
      BY <1>1
    <3> QED
      BY <1>2, <3>1, ConcatProperties
  <2>2. StaysIn(Seq(E), <<>>, step)
    <3>1. <<>> \in Seq(E)
      OBVIOUS
    <3> QED
      BY <2>1, <3>1, Zenon DEF StaysIn
  <2>3. PICK f : Iterates(f, Seq(E), <<>>, step)
    BY <2>2, Iteration
  <2>4. ASSUME NEW k \in Nat PROVE f[k+1] = f[k] \o part(k)
    BY <1>2, <2>3 DEF Iterates
  <2> QED
    BY <2>3, <2>4 DEF Iterates
<1> HIDE DEF part
<1>4. \E queue : queue = Rec(queue)
  <2> DEFINE g == [k \in 0..c |-> f[k]]
  <2>1. ASSUME NEW k \in 0..c PROVE f[k] = IF k = 0 THEN <<>> ELSE g[k-1] \o PartOf(fl[k-1], n)
    <3>1. CASE k = 0
      BY <1>3, <3>1
    <3>2. CASE k # 0
      <4>1. k - 1 \in Nat /\ k - 1 \in 0..c /\ (k-1) + 1 = k /\ k - 1 < c
        BY <3>2
      <4>2. f[k] = f[k-1] \o part(k-1)
        BY <1>3, <4>1
      <4>3. part(k-1) = PartOf(fl[k-1], n) /\ g[k-1] = f[k-1]
        BY <4>1 DEF part
      <4> QED
        BY <3>2, <4>2, <4>3
    <3> QED
      BY <3>1, <3>2
  <2>2. g = Rec(g)
    BY <2>1
  <2> QED
    BY <2>2
<1> DEFINE q == Chain(fl, c, n)
<1>5. q = Rec(q)
  <2>1. q = CHOOSE queue : queue = Rec(queue)
    BY DEF Chain
  <2> HIDE DEF Rec, q
  <2> QED
    BY <1>4, <2>1, Zenon
<1> HIDE DEF q
<1>6. /\ DOMAIN q = 0..c /\ q[0] = <<>>
      /\ \A k \in 0 .. c-1 : q[k+1] = q[k] \o PartOf(fl[k], n)
  <2>1. DOMAIN q = 0..c
    BY <1>5, Zenon
  <2>2. \A k \in 0..c : q[k] = IF k = 0 THEN <<>> ELSE q[k-1] \o PartOf(fl[k-1], n)
    BY <1>5, Zenon
  <2>3. ASSUME NEW k \in 0 .. c-1 PROVE q[k+1] = q[k] \o PartOf(fl[k], n)
    <3>1. k + 1 \in 0..c /\ k + 1 # 0 /\ (k+1) - 1 = k
      OBVIOUS
    <3>2. q[k+1] = IF k+1 = 0 THEN <<>> ELSE q[(k+1)-1] \o PartOf(fl[(k+1)-1], n)
      BY <2>2, <3>1, Zenon
    <3> QED
      BY <3>1, <3>2, Zenon
  <2>4. q[0] = <<>>
    <3>1. 0 \in 0..c
      OBVIOUS
    <3> QED
      BY <2>2, <3>1, Zenon
  <2> QED
    BY <2>1, <2>3, <2>4
<1>7. \A k \in Nat : k =< c => q[k] \in Seq(E)
  <2> DEFINE S == {k \in Nat : k =< c => q[k] \in Seq(E)}
  <2>1. 0 \in S
    <3>1. <<>> \in Seq(E)
      OBVIOUS
    <3>2. q[0] \in Seq(E)
      BY <1>6, <3>1, Zenon
    <3> QED
      BY <3>2
  <2>2. ASSUME NEW k \in Nat, k \in S PROVE k + 1 \in S
    <3> SUFFICES ASSUME k + 1 =< c PROVE q[k+1] \in Seq(E)
      OBVIOUS
    <3>1. k \in 0 .. c-1 /\ k < c /\ q[k] \in Seq(E)
      BY <2>2
    <3>2. q[k+1] = q[k] \o PartOf(fl[k], n) /\ PartOf(fl[k], n) \in Seq(E)
      BY <1>1, <1>6, <3>1 DEF part
    <3> QED
      BY <3>1, <3>2, ConcatProperties
  <2>3. S \in SUBSET Nat
    OBVIOUS
  <2> HIDE DEF S
  <2>4. S = Nat
    BY <2>1, <2>2, <2>3, AllNumbers
  <2> QED
    BY <2>4 DEF S
<1>8. q = [k \in 0..c |-> q[k]]
  BY <1>5, Zenon
<1>9. q \in [0..c -> Seq(E)]
  BY <1>6, <1>7, <1>8
<1> QED
  BY <1>6, <1>9 DEF IsQueue, q

\* Where two tables hold files of the same name and entry, the same is put
\* behind the queues they have there.
Alike(q, r, E, a, b, len) == \E t \in Seq(E) : q[a+len] = q[a] \o t /\ r[b+len] = r[b] \o t
SameParts(fl, a, gl, b, len, n) == \A k \in 0 .. len-1 : PartOf(fl[a+k], n) = PartOf(gl[b+k], n)

LEMMA Parallel ==
  ASSUME NEW E, NEW n, NEW fl, NEW c \in Nat, NEW q, IsQueue(q, E, fl, c, n),
         \A k \in 0 .. c-1 : PartOf(fl[k], n) \in Seq(E),
         NEW gl, NEW d \in Nat, NEW r, IsQueue(r, E, gl, d, n),
         NEW a \in Nat, NEW b \in Nat, NEW len \in Nat, a + len =< c, b + len =< d,
         SameParts(fl, a, gl, b, len, n)
  PROVE  Alike(q, r, E, a, b, len)
<1> DEFINE S == {l \in Nat : l =< len => Alike(q, r, E, a, b, l)}
<1>1. 0 \in S
  <2>1. q[a] \in Seq(E) /\ r[b] \in Seq(E) /\ <<>> \in Seq(E)
    BY SMTT(40) DEF IsQueue
  <2>2. q[a] \o <<>> = q[a] /\ r[b] \o <<>> = r[b]
    BY <2>1, ConcatEmptySeq
  <2>3. a + 0 = a /\ b + 0 = b
    OBVIOUS
  <2> QED
    BY <2>1, <2>2, <2>3 DEF Alike
<1>2. ASSUME NEW l \in Nat, l \in S PROVE l + 1 \in S
  <2> SUFFICES ASSUME l + 1 =< len PROVE Alike(q, r, E, a, b, l + 1)
    OBVIOUS
  <2>1. l < len /\ l \in 0 .. len-1 /\ a + l \in 0 .. c-1 /\ b + l \in 0 .. d-1
        /\ a + (l + 1) = (a + l) + 1 /\ b + (l + 1) = (b + l) + 1 /\ a \in 0..c /\ b \in 0..d
    OBVIOUS
  <2>2. PICK t \in Seq(E) : q[a+l] = q[a] \o t /\ r[b+l] = r[b] \o t
    <3>1. Alike(q, r, E, a, b, l)
      <4> HIDE DEF Alike
      <4> QED
        BY <1>2, <2>1
    <3> QED
      BY <3>1, Zenon DEF Alike
  <2>3. PICK p : p = PartOf(fl[a+l], n)
    OBVIOUS
  <2>4. p \in Seq(E) /\ p = PartOf(gl[b+l], n)
    BY <2>1, <2>3 DEF SameParts
  <2>5. q[a+(l+1)] = q[a+l] \o p /\ r[b+(l+1)] = r[b+l] \o p
    BY <2>1, <2>3, <2>4 DEF IsQueue
  <2>6. q[a] \in Seq(E) /\ r[b] \in Seq(E)
    BY <2>1 DEF IsQueue
  <2>7. (q[a] \o t) \o p = q[a] \o (t \o p) /\ (r[b] \o t) \o p = r[b] \o (t \o p)
    <3>1. ASSUME NEW x \in Seq(E)
          PROVE  (x \o t) \o p = x \o (t \o p)
      BY ONLY <2>4, ConcatAssociative
    <3> QED
      BY <2>6, <3>1
  <2>8. t \o p \in Seq(E)
    BY <2>4, ConcatProperties
  <2> QED
    BY <2>2, <2>5, <2>7, <2>8 DEF Alike
<1>3. S \in SUBSET Nat
  OBVIOUS
<1> HIDE DEF S
<1>4. S = Nat
  BY <1>1, <1>2, <1>3, AllNumbers
<1> QED
  BY <1>4 DEF S

\* The entries of both tables.
EntriesOf(fl, c) == {Entry(fl[k]) : k \in 0 .. c-1}

LEMMA PartsAreIn ==
  ASSUME NEW E, NEW file, Entry(file) \in E, NEW n
  PROVE  PartOf(file, n) \in Seq(E)
<1>1. <<Entry(file)>> \in Seq(E)
  OBVIOUS
<1> QED
  BY <1>1 DEF PartOf

\* Files of other names at the ends, and what is alike in between.
LEMMA SameQueues ==
  ASSUME NEW n, NEW fl, NEW c \in Nat, NEW gl, SameParts(fl, 0, gl, 0, c, n)
  PROVE  QueueIn(gl, c, n) = QueueIn(fl, c, n)
<1> DEFINE E == EntriesOf(fl, c) \cup EntriesOf(gl, c)
           q == Chain(fl, c, n)
           r == Chain(gl, c, n)
<1>1. \A k \in 0 .. c-1 : Entry(fl[k]) \in E /\ Entry(gl[k]) \in E
  BY DEF EntriesOf
<1> HIDE DEF E
<1>2. IsQueue(q, E, fl, c, n) /\ IsQueue(r, E, gl, c, n)
  BY <1>1, QueueIs
<1>3. \A k \in 0 .. c-1 : PartOf(fl[k], n) \in Seq(E)
  BY <1>1, PartsAreIn
<1> HIDE DEF q, r
<1>4. Alike(q, r, E, 0, 0, c)
  <2>1. 0 \in Nat /\ 0 + c =< c
    OBVIOUS
  <2> QED
    BY <1>2, <1>3, <2>1, Parallel
<1>5. PICK t \in Seq(E) : q[c] = <<>> \o t /\ r[c] = <<>> \o t
  BY <1>2, <1>4 DEF Alike, IsQueue
<1> QED
  BY <1>5 DEF QueueIn, q, r

\* The queues after creation of a file.
LEMMA QueueLonger ==
  ASSUME NEW n, NEW fl, NEW c \in Nat, NEW gl, \A k \in 0 .. c-1 : gl[k] = fl[k]
  PROVE  QueueIn(gl, c + 1, n) = QueueIn(fl, c, n) \o PartOf(gl[c], n)
<1> DEFINE E == EntriesOf(fl, c + 1) \cup EntriesOf(gl, c + 1)
           q == Chain(fl, c, n)
           r == Chain(gl, c + 1, n)
<1>1. \A k \in 0 .. c : Entry(fl[k]) \in E /\ Entry(gl[k]) \in E
  BY DEF EntriesOf
<1> HIDE DEF E
<1>2. IsQueue(q, E, fl, c, n)
  BY <1>1, QueueIs
<1>3. IsQueue(r, E, gl, c + 1, n)
  <2>1. c + 1 \in Nat /\ \A k \in 0 .. (c + 1) - 1 : Entry(gl[k]) \in E
    BY <1>1
  <2> QED
    BY <2>1, QueueIs
<1>4. \A k \in 0 .. c-1 : PartOf(fl[k], n) \in Seq(E)
  BY <1>1, PartsAreIn
<1> HIDE DEF q, r
<1>5. Alike(q, r, E, 0, 0, c)
  <2>1. 0 \in Nat /\ 0 + c =< c /\ 0 + c =< c + 1 /\ c + 1 \in Nat
    OBVIOUS
  <2>2. SameParts(fl, 0, gl, 0, c, n)
    BY DEF SameParts
  <2> QED
    BY <1>2, <1>3, <1>4, <2>1, <2>2, Parallel
<1>6. PICK t \in Seq(E) : q[c] = <<>> \o t /\ r[c] = <<>> \o t
  BY <1>2, <1>3, <1>5 DEF Alike, IsQueue
<1>7. r[c+1] = r[c] \o PartOf(gl[c], n)
  <2>1. c \in 0 .. (c + 1) - 1
    OBVIOUS
  <2> QED
    BY <1>3, <2>1 DEF IsQueue
<1> QED
  BY <1>6, <1>7 DEF QueueIn, q, r

\* Where the first file of the name n is at i, its entry is at the front.
FirstIn(fl, c, n, i) ==
  /\ i \in 0 .. c-1 /\ strcmp(fl[i], NAME, n) /\ \A j \in 0 .. i-1 : ~strcmp(fl[j], NAME, n)
AtFront(q, i, e) == q[i] = <<>> /\ q[i+1] = <<e>>

LEMMA FrontOfQueue ==
  ASSUME NEW n, NEW fl, NEW c \in Nat, NEW E, NEW q, IsQueue(q, E, fl, c, n),
         NEW i \in 0 .. c-1, FirstIn(fl, c, n, i)
  PROVE  AtFront(q, i, Entry(fl[i]))
<1> DEFINE S == {k \in Nat : k =< i => q[k] = <<>>}
<1>1. 0 \in S
  BY DEF IsQueue
<1>2. ASSUME NEW k \in Nat, k \in S PROVE k + 1 \in S
  <2> SUFFICES ASSUME k + 1 =< i PROVE q[k+1] = <<>>
    OBVIOUS
  <2>1. k \in 0 .. i-1 /\ k \in 0 .. c-1 /\ q[k] = <<>>
    BY <1>2
  <2>2. PartOf(fl[k], n) = <<>>
    BY <2>1 DEF FirstIn, PartOf
  <2>3. q[k+1] = q[k] \o PartOf(fl[k], n)
    BY <2>1 DEF IsQueue
  <2> QED
    BY <2>1, <2>2, <2>3
<1>3. S \in SUBSET Nat
  OBVIOUS
<1>4. q[i] = <<>>
  <2> HIDE DEF S
  <2>1. S = Nat
    BY <1>1, <1>2, <1>3, AllNumbers
  <2> QED
    BY <2>1 DEF S
<1>5. q[i+1] = q[i] \o PartOf(fl[i], n)
  BY DEF IsQueue
<1>6. PartOf(fl[i], n) = <<Entry(fl[i])>>
  BY DEF FirstIn, PartOf
<1>7. \A e : <<>> \o <<e>> = <<e>>
  OBVIOUS
<1> QED
  BY <1>4, <1>5, <1>6, <1>7, Zenon DEF AtFront

\* The queues after removal of the file at i.
Behind(queue, e, rest) == \E E : rest \in Seq(E) /\ e \in E /\ queue = <<e>> \o rest

LEMMA QueueShorter ==
  ASSUME NEW n, NEW fl, NEW c \in Nat, NEW gl, NEW max, NEW i \in 0 .. c-1,
         Shortened(gl, fl, max, c, i)
  PROVE  /\ ~strcmp(fl[i], NAME, n) => QueueIn(gl, c - 1, n) = QueueIn(fl, c, n)
         /\ FirstIn(fl, c, n, i) => Behind(QueueIn(fl, c, n), Entry(fl[i]), QueueIn(gl, c - 1, n))
<1> DEFINE E == EntriesOf(fl, c)
           q == Chain(fl, c, n)
           r == Chain(gl, c - 1, n)
<1>1. \A k \in 0 .. c-1 : Entry(fl[k]) \in E
  BY DEF EntriesOf
<1>2. \A k \in 0 .. c-2 : gl[k] = fl[MovedFrom(i, k)] /\ MovedFrom(i, k) \in (0 .. c-1) \ {i}
  BY DEF Shortened
<1> HIDE DEF E
<1>3. c - 1 \in Nat /\ (c - 1) - 1 = c - 2
  OBVIOUS
<1>4. IsQueue(q, E, fl, c, n)
  BY <1>1, QueueIs
<1>5. IsQueue(r, E, gl, c - 1, n)
  <2>1. \A k \in 0 .. (c - 1) - 1 : Entry(gl[k]) \in E
    BY <1>1, <1>2, <1>3
  <2> QED
    BY <1>3, <2>1, QueueIs
<1>6. \A k \in 0 .. c-1 : PartOf(fl[k], n) \in Seq(E)
  BY <1>1, PartsAreIn
<1> HIDE DEF q, r
<1>7. Alike(q, r, E, 0, 0, i)
  <2>1. 0 \in Nat /\ i \in Nat /\ 0 + i =< c /\ 0 + i =< c - 1
    OBVIOUS
  <2>2. SameParts(fl, 0, gl, 0, i, n)
    BY <1>2 DEF SameParts, MovedFrom
  <2> QED
    BY <1>3, <1>4, <1>5, <1>6, <2>1, <2>2, Parallel
<1>8. q[i] = r[i] /\ q[i] \in Seq(E)
  BY <1>4, <1>5, <1>7 DEF Alike, IsQueue
<1>9. Alike(q, r, E, i + 1, i, c - 1 - i)
  <2>1. /\ i + 1 \in Nat /\ i \in Nat /\ c - 1 - i \in Nat
        /\ (i + 1) + (c - 1 - i) =< c /\ i + (c - 1 - i) =< c - 1
    OBVIOUS
  <2>2. SameParts(fl, i + 1, gl, i, c - 1 - i, n)
    <3> SUFFICES ASSUME NEW k \in 0 .. (c - 1 - i) - 1 PROVE gl[i+k] = fl[(i+1)+k]
      BY DEF SameParts
    <3>1. i + k \in 0 .. c-2 /\ ~(i + k < i) /\ (i + k) + 1 = (i + 1) + k
      OBVIOUS
    <3> QED
      BY <1>2, <3>1 DEF MovedFrom
  <2> QED
    BY <1>3, <1>4, <1>5, <1>6, <2>1, <2>2, Parallel
<1>10. PICK t \in Seq(E) : q[c] = q[i+1] \o t /\ r[c-1] = r[i] \o t
  <2>1. (i + 1) + (c - 1 - i) = c /\ i + (c - 1 - i) = c - 1
    OBVIOUS
  <2> QED
    BY <1>9, <2>1 DEF Alike
<1>11. ASSUME ~strcmp(fl[i], NAME, n) PROVE r[c-1] = q[c]
  <2>1. q[i+1] = q[i] \o PartOf(fl[i], n) /\ PartOf(fl[i], n) = <<>>
    BY <1>4, <1>11 DEF IsQueue, PartOf
  <2>2. q[i+1] = q[i]
    BY <1>8, <2>1
  <2> QED
    BY <1>8, <1>10, <2>2
<1>12. ASSUME FirstIn(fl, c, n, i) PROVE Behind(q[c], Entry(fl[i]), r[c-1])
  <2>1. q[i] = <<>> /\ q[i+1] = <<Entry(fl[i])>>
    <3>1. AtFront(q, i, Entry(fl[i]))
      BY <1>4, <1>12, FrontOfQueue
    <3> QED
      BY <3>1 DEF AtFront
  <2>2. r[c-1] = t
    BY <1>8, <1>10, <2>1
  <2> QED
    BY <1>1, <1>10, <2>1, <2>2 DEF Behind
<1> QED
  BY <1>11, <1>12 DEF QueueIn, q, r

\* The queue after a write to its first file.
LEMMA QueueWritten ==
  ASSUME NEW n, NEW fl, NEW c \in Nat, NEW gl, NEW i \in 0 .. c-1,
         FirstIn(fl, c, n, i), strcmp(gl[i], NAME, n), \A k \in (0 .. c-1) \ {i} : gl[k] = fl[k]
  PROVE  \E rest : /\ Behind(QueueIn(fl, c, n), Entry(fl[i]), rest)
                   /\ Behind(QueueIn(gl, c, n), Entry(gl[i]), rest)
<1> DEFINE E == EntriesOf(fl, c) \cup EntriesOf(gl, c)
           q == Chain(fl, c, n)
           r == Chain(gl, c, n)
<1>1. \A k \in 0 .. c-1 : Entry(fl[k]) \in E /\ Entry(gl[k]) \in E
  BY DEF EntriesOf
<1> HIDE DEF E
<1>2. IsQueue(q, E, fl, c, n) /\ IsQueue(r, E, gl, c, n)
  BY <1>1, QueueIs
<1>3. \A k \in 0 .. c-1 : PartOf(fl[k], n) \in Seq(E)
  BY <1>1, PartsAreIn
<1> HIDE DEF q, r
<1>4. FirstIn(gl, c, n, i)
  BY DEF FirstIn
<1>5. q[i+1] = <<Entry(fl[i])>> /\ r[i+1] = <<Entry(gl[i])>>
  BY <1>2, <1>4, FrontOfQueue DEF AtFront
<1>6. Alike(q, r, E, i + 1, i + 1, c - 1 - i)
  <2>1. i + 1 \in Nat /\ c - 1 - i \in Nat /\ (i + 1) + (c - 1 - i) =< c
    OBVIOUS
  <2>2. SameParts(fl, i + 1, gl, i + 1, c - 1 - i, n)
    BY DEF SameParts
  <2> QED
    BY <1>2, <1>3, <2>1, <2>2, Parallel
<1>7. PICK t \in Seq(E) : q[c] = q[i+1] \o t /\ r[c] = r[i+1] \o t
  <2>1. (i + 1) + (c - 1 - i) = c
    OBVIOUS
  <2> QED
    BY <1>6, <2>1 DEF Alike
<1>8. Behind(q[c], Entry(fl[i]), t) /\ Behind(r[c], Entry(gl[i]), t)
  BY <1>1, <1>5, <1>7 DEF Behind
<1> QED
  BY <1>8 DEF QueueIn, q, r

\* The front of a queue, and what is behind it.
LEMMA BehindIs ==
  ASSUME NEW queue, NEW e, NEW rest, Behind(queue, e, rest)
  PROVE  queue # <<>> /\ queue[1] = e /\ Tail(queue) = rest
<1>1. PICK E : rest \in Seq(E) /\ e \in E /\ queue = <<e>> \o rest
  BY DEF Behind
<1>2. <<e>> \in Seq(E) /\ Len(<<e>>) = 1 /\ <<e>>[1] = e
  BY <1>1
<1>3. /\ queue \in Seq(E) /\ Len(queue) = 1 + Len(rest)
      /\ \A k \in 1 .. 1 + Len(rest) : queue[k] = IF k <= 1 THEN <<e>>[k] ELSE rest[k-1]
  BY <1>1, <1>2, ConcatProperties
<1>4. Len(rest) \in Nat
  BY <1>1
<1>5. queue # <<>> /\ queue[1] = e
  BY <1>2, <1>3, <1>4
<1>6. /\ Tail(queue) \in Seq(E) /\ Len(Tail(queue)) = Len(rest)
      /\ \A k \in 1..Len(rest) : Tail(queue)[k] = queue[k+1]
  <2>1. /\ Tail(queue) \in Seq(E) /\ Len(Tail(queue)) = Len(queue) - 1
        /\ \A k \in 1..Len(Tail(queue)) : Tail(queue)[k] = queue[k+1]
    BY <1>3, <1>5, HeadTailProperties
  <2> QED
    BY <1>3, <1>4, <2>1
<1>7. \A k \in 1..Len(rest) : Tail(queue)[k] = rest[k]
  BY <1>3, <1>4, <1>6
<1>8. Tail(queue) = rest
  BY <1>1, <1>6, <1>7
<1> QED
  BY <1>5, <1>8

\* Where only the content of the first entry differs.
LEMMA FrontReplaced ==
  ASSUME NEW queue, NEW later, NEW e, NEW f, NEW rest, Behind(queue, e, rest), Behind(later, f, rest),
         NEW is_directory, NEW content, NEW old,
         e = [is_directory |-> is_directory, content |-> old],
         f = [is_directory |-> is_directory, content |-> content]
  PROVE  later = [queue EXCEPT ![1].content = content]
<1>1. PICK E : rest \in Seq(E) /\ e \in E /\ queue = <<e>> \o rest
  BY DEF Behind
<1>2. later = <<f>> \o rest
  BY DEF Behind
<1>3. f = [e EXCEPT !.content = content]
  OBVIOUS
<1>4. <<e>> \o rest = [k \in 1 .. 1 + Len(rest) |-> IF k = 1 THEN e ELSE rest[k-1]]
  BY <1>1
<1>5. <<f>> \o rest = [k \in 1 .. 1 + Len(rest) |-> IF k = 1 THEN f ELSE rest[k-1]]
  BY <1>1
<1>6. 1 \in 1 .. 1 + Len(rest)
  BY <1>1
<1>7. PICK g : g = [e EXCEPT !.content = content]
  OBVIOUS
<1>8. [queue EXCEPT ![1].content = content] = [queue EXCEPT ![1] = g]
  BY <1>1, <1>4, <1>6, <1>7
<1>9. [queue EXCEPT ![1] = f] = <<f>> \o rest
  <2>1. PICK len \in Nat : len = Len(rest)
    BY <1>1
  <2>2. queue = [k \in 1 .. 1 + len |-> IF k = 1 THEN e ELSE rest[k-1]]
    BY <1>1, <1>4, <2>1
  <2>3. [queue EXCEPT ![1] = f] = [k \in 1 .. 1 + len |-> IF k = 1 THEN f ELSE rest[k-1]]
    BY ONLY <2>2
  <2> QED
    BY <1>5, <2>1, <2>3
<1> QED
  BY <1>2, <1>3, <1>7, <1>8, <1>9, Zenon

LEMMA QueuesAre ==
  /\ Queues = [n \in FileNames |-> QueueIn(file_list, file_count, n)]
  /\ Queues' = [n \in FileNames |-> QueueIn(file_list', file_count', n)]
BY DEF Queues, QueueOf, QueueIn, Chain, PartOf

LEMMA QueuesStart ==
  ASSUME Init
  PROVE  FileQueues!Init
<1>1. ASSUME NEW n \in FileNames PROVE QueueIn(file_list, file_count, n) = <<>>
  <2>1. file_count = 0 /\ 0 \in Nat /\ \A k \in 0 .. 0-1 : Entry(file_list[k]) \in {}
    BY DEF Init
  <2>2. IsQueue(Chain(file_list, 0, n), {}, file_list, 0, n)
    BY <2>1, QueueIs
  <2> QED
    BY <2>1, <2>2 DEF IsQueue, QueueIn
<1> QED
  BY <1>1, QueuesAre DEF FileQueues!Init

LEMMA QueuesCreate ==
  ASSUME FileInv, NEW n \in FileName, NEW is_directory \in BOOLEAN, Creates(n, is_directory)
  PROVE  FileQueues!Next
<1> USE TablesAssumption
<1>1. PICK c : c = file_count
  OBVIOUS
<1>2. PICK f : f = file_list'[c]
  OBVIOUS
<1>3. /\ c \in 0 .. MAX_FILES - 1 /\ DOMAIN file_list = 0 .. MAX_FILES - 1 /\ file_count' = c + 1
      /\ \A k \in 0 .. c-1 : file_list'[k] = file_list[k]
  BY <1>1 DEF Creates, FileInv, FileMemory
<1>4. Text(f, NAME) = n /\ Entry(f) = [is_directory |-> is_directory, content |-> <<>>]
  <2>1. PICK m : m = file_list[c]
    OBVIOUS
  <2>2. Memory(m, SIZEOF_FILE) /\ f = NewFile(m, n, is_directory)
    BY <1>1, <1>2, <1>3, <2>1 DEF Creates, FileInv, FileMemory
  <2>3. n \in Seq(Character) /\ Len(n) < FILENAME_LENGTH
    BY DEF Creates, Character
  <2> QED
    BY <2>2, <2>3, NewFileIs
<1>5. ASSUME NEW m \in FileNames
      PROVE  Queues'[m] = IF m = n THEN Append(Queues[m], Entry(f)) ELSE Queues[m]
  <2>1. QueueIn(file_list', c + 1, m) = QueueIn(file_list, c, m) \o PartOf(f, m)
    <3>1. PICK gl : gl = file_list'
      OBVIOUS
    <3>2. c \in Nat /\ \A k \in 0 .. c-1 : gl[k] = file_list[k]
      BY <1>3, <3>1
    <3>3. QueueIn(gl, c + 1, m) = QueueIn(file_list, c, m) \o PartOf(gl[c], m)
      BY <3>2, QueueLonger
    <3> QED
      BY <1>2, <3>1, <3>3
  <2>2. QueueIn(file_list, c, m) \in Seq(EntriesOf(file_list, c))
    <3>1. c \in Nat /\ \A k \in 0 .. c-1 : Entry(file_list[k]) \in EntriesOf(file_list, c)
      BY <1>3, SMTT(40) DEF EntriesOf
    <3>2. IsQueue(Chain(file_list, c, m), EntriesOf(file_list, c), file_list, c, m)
      BY <3>1, QueueIs
    <3> QED
      BY <3>1, <3>2 DEF IsQueue, QueueIn
  <2>3. Queues[m] = QueueIn(file_list, c, m) /\ Queues'[m] = QueueIn(file_list', c + 1, m)
    BY <1>1, <1>3, QueuesAre
  <2>4. CASE m = n
    <3>1. PartOf(f, m) = <<Entry(f)>>
      BY <1>4, <2>4 DEF PartOf, strcmp
    <3>2. PICK s : s = QueueIn(file_list, c, m)
      OBVIOUS
    <3>3. PICK e : e = Entry(f)
      OBVIOUS
    <3>4. s \o <<e>> = Append(s, e)
      BY <2>2, <3>2
    <3> QED
      BY <2>1, <2>3, <2>4, <3>1, <3>2, <3>3, <3>4
  <2>5. CASE m # n
    <3>1. PartOf(f, m) = <<>>
      BY <1>4, <2>5 DEF PartOf, strcmp
    <3>2. PICK s : s = QueueIn(file_list, c, m)
      OBVIOUS
    <3>3. s \o <<>> = s
      BY <2>2, <3>2
    <3> QED
      BY <2>1, <2>3, <2>5, <3>1, <3>2, <3>3
  <2> QED
    BY <2>4, <2>5
<1>6. n \in FileNames
  BY DEF Creates, FileNames
<1>7. Queues' = [Queues EXCEPT ![n] = Append(Queues[n], [is_directory |-> is_directory, content |-> <<>>])]
  BY <1>4, <1>5, <1>6, QueuesAre
<1> QED
  BY <1>6, <1>7 DEF FileQueues!Next, FileQueues!Create

\* What a file found by its name is in the queues.
LEMMA FirstIsFirst ==
  ASSUME FileInv, NEW n \in FileName, NEW i, FirstAt(n, i)
  PROVE  /\ file_count \in Nat /\ i \in 0 .. file_count - 1 /\ n \in FileNames
         /\ FirstIn(file_list, file_count, n, i)
         /\ \A m : m # n => ~strcmp(file_list[i], NAME, m)
<1>1. file_count \in Nat /\ i \in 0 .. file_count - 1
  BY TablesAssumption DEF FirstAt, FileInv, FileMemory
<1>2. n \in FileNames
  BY <1>1 DEF FirstAt, FileInv, FileNamed, FileNames
<1>3. FirstIn(file_list, file_count, n, i)
  BY <1>1 DEF FirstAt, FirstIn, strcmp
<1>4. \A m : m # n => ~strcmp(file_list[i], NAME, m)
  BY DEF FirstAt, strcmp
<1> QED
  BY <1>1, <1>2, <1>3, <1>4

LEMMA QueuesDelete ==
  ASSUME FileInv, NEW n \in FileName, NEW i, Deletes(n, i)
  PROVE  FileQueues!Next
<1>1. PICK c : c = file_count
  OBVIOUS
<1>2. /\ c \in Nat /\ i \in 0 .. c-1 /\ n \in FileNames /\ FirstIn(file_list, c, n, i)
      /\ \A m : m # n => ~strcmp(file_list[i], NAME, m)
  BY <1>1, FirstIsFirst DEF Deletes
<1>3. Shortened(file_list', file_list, MAX_FILES, c, i)
  BY <1>1, DeleteShortens
<1>4. file_count' = c - 1
  BY <1>1 DEF Deletes
<1>5. ASSUME NEW m \in FileNames
      PROVE  Queues[m] = QueueIn(file_list, c, m) /\ Queues'[m] = QueueIn(file_list', c - 1, m)
  BY <1>1, <1>4, QueuesAre
<1>6. Behind(Queues[n], Entry(file_list[i]), Queues'[n])
  <2>1. Behind(QueueIn(file_list, c, n), Entry(file_list[i]), QueueIn(file_list', c - 1, n))
    BY <1>2, <1>3, QueueShorter
  <2> QED
    BY <1>2, <1>5, <2>1
<1>7. Queues[n] # <<>> /\ Tail(Queues[n]) = Queues'[n]
  BY <1>6, BehindIs
<1>8. ASSUME NEW m \in FileNames, m # n PROVE Queues'[m] = Queues[m]
  <2>1. ~strcmp(file_list[i], NAME, m)
    BY <1>2, <1>8
  <2>2. QueueIn(file_list', c - 1, m) = QueueIn(file_list, c, m)
    BY <1>2, <1>3, <2>1, QueueShorter
  <2> QED
    BY <1>5, <2>2
<1>9. Queues' = [Queues EXCEPT ![n] = Tail(Queues[n])]
  <2>1. DOMAIN Queues = FileNames /\ Queues' = [m \in FileNames |-> Queues'[m]]
    BY QueuesAre
  <2> QED
    BY <1>7, <1>8, <2>1
<1> QED
  BY <1>2, <1>7, <1>9 DEF FileQueues!Next, FileQueues!Delete

LEMMA QueuesWrite ==
  ASSUME FileInv, NEW n \in FileName, NEW content \in Contents, NEW i, Writes(n, content, i)
  PROVE  FileQueues!Next
<1>1. PICK c : c = file_count
  OBVIOUS
<1>2. /\ c \in Nat /\ i \in 0 .. c-1 /\ n \in FileNames /\ FirstIn(file_list, c, n, i)
      /\ \A m : m # n => ~strcmp(file_list[i], NAME, m)
  BY <1>1, FirstIsFirst DEF Writes
<1>3. /\ Text(file_list'[i], NAME) = Text(file_list[i], NAME)
      /\ Entry(file_list'[i]) = [is_directory |-> FALSE, content |-> Kept(content)]
  BY WriteStep
<1>4. file_count' = c /\ \A k \in (0 .. c-1) \ {i} : file_list'[k] = file_list[k]
  BY <1>1, <1>2, TablesAssumption DEF Writes, FileInv, FileMemory
<1>5. ASSUME NEW m \in FileNames
      PROVE  Queues[m] = QueueIn(file_list, c, m) /\ Queues'[m] = QueueIn(file_list', c, m)
  BY <1>1, <1>4, QueuesAre
<1>6. \A m : strcmp(file_list'[i], NAME, m) <=> strcmp(file_list[i], NAME, m)
  BY <1>3 DEF strcmp
<1>7. Entry(file_list[i]) = [is_directory |-> FALSE, content |-> Text(file_list[i], CONTENT)]
  <2>1. IsDirectory(file_list[i]) = FALSE
    BY DEF Writes, IsDirectory
  <2> QED
    BY <2>1 DEF Entry
<1>8. PICK rest : /\ Behind(Queues[n], Entry(file_list[i]), rest)
                  /\ Behind(Queues'[n], Entry(file_list'[i]), rest)
  <2>1. strcmp(file_list'[i], NAME, n)
    BY <1>2, <1>6 DEF FirstIn
  <2>2. \E rest : /\ Behind(QueueIn(file_list, c, n), Entry(file_list[i]), rest)
                  /\ Behind(QueueIn(file_list', c, n), Entry(file_list'[i]), rest)
    BY <1>2, <1>4, <2>1, QueueWritten
  <2> QED
    BY <1>2, <1>5, <2>2
<1>9. Queues'[n] = [Queues[n] EXCEPT ![1].content = Kept(content)]
  <2>1. PICK e, f, kept, old : /\ e = Entry(file_list[i]) /\ f = Entry(file_list'[i])
                               /\ kept = Kept(content) /\ old = Text(file_list[i], CONTENT)
    OBVIOUS
  <2>2. PICK is_directory : is_directory = FALSE
    OBVIOUS
  <2>3. e = [is_directory |-> is_directory, content |-> old]
        /\ f = [is_directory |-> is_directory, content |-> kept]
    BY <1>3, <1>7, <2>1, <2>2
  <2>4. PICK q, later : q = Queues[n] /\ later = Queues'[n]
    OBVIOUS
  <2>5. Behind(q, e, rest) /\ Behind(later, f, rest)
    BY <1>8, <2>1, <2>4
  <2>6. later = [q EXCEPT ![1].content = kept]
    BY <2>3, <2>5, FrontReplaced
  <2> QED
    BY <2>1, <2>4, <2>6
<1>10. Queues[n] # <<>> /\ ~Queues[n][1].is_directory
  <2>1. Queues[n] # <<>> /\ Queues[n][1] = Entry(file_list[i])
    BY <1>8, BehindIs
  <2> QED
    BY <1>7, <2>1
<1>11. ASSUME NEW m \in FileNames, m # n PROVE Queues'[m] = Queues[m]
  <2>1. ~strcmp(file_list[i], NAME, m) /\ ~strcmp(file_list'[i], NAME, m)
    BY <1>2, <1>6, <1>11
  <2>2. SameParts(file_list, 0, file_list', 0, c, m)
    BY <1>4, <2>1 DEF SameParts, PartOf
  <2>3. QueueIn(file_list', c, m) = QueueIn(file_list, c, m)
    BY <1>2, <2>2, SameQueues
  <2> QED
    BY <1>5, <2>3
<1>12. Queues' = [Queues EXCEPT ![n] = [Queues[n] EXCEPT ![1].content = Kept(content)]]
  <2>1. DOMAIN Queues = FileNames /\ Queues' = [m \in FileNames |-> Queues'[m]]
    BY QueuesAre
  <2> QED
    BY <1>9, <1>11, <2>1
<1> QED
  BY <1>2, <1>10, <1>12 DEF FileQueues!Next, FileQueues!Write

(***************************************************************************)
(* The file table implements one queue of files per name (NameQueues):     *)
(* every operation reaches the oldest file of its name only, and whatever  *)
(* is moved forward keeps its kind, its content and its place in its       *)
(* queue.                                                                  *)
(***************************************************************************)
THEOREM FilesImplementQueues == Spec => FilesSpec
<1>1. ASSUME FileInv, [Next]_vars
      PROVE  FileQueues!Next \/ UNCHANGED Queues
  <2>1. ASSUME NEW n \in FileName, NEW is_directory \in BOOLEAN, create_file(n, is_directory)
        PROVE  FileQueues!Next
    BY <1>1, <2>1, CreateFileIs, QueuesCreate
  <2>2. ASSUME NEW n \in FileName, delete_file(n)
        PROVE  FileQueues!Next
    BY <1>1, <2>2, DeleteFileIs, QueuesDelete
  <2>3. ASSUME NEW n \in FileName, delete_directory(n)
        PROVE  delete_file(n)
    BY <2>3 DEF delete_directory
  <2>4. ASSUME NEW n \in FileName, NEW content \in Contents, write_file(n, content)
        PROVE  FileQueues!Next
    BY <1>1, <2>4, WriteFileIs, QueuesWrite
  <2>5. CASE UNCHANGED fvars
    BY <2>5, QueuesAre DEF fvars
  <2>6. ASSUME NEW n \in FileName, read_file(n)
        PROVE  UNCHANGED fvars
    BY <2>6 DEF read_file, Show
  <2>7. ASSUME NEW n \in UserName
        PROVE  /\ \A password \in Passwords, is_admin \in BOOLEAN :
                    add_user(n, password, is_admin) => UNCHANGED fvars
               /\ remove_user(n) => UNCHANGED fvars
    BY DEF add_user, remove_user
  <2>8. list_users \/ list_files \/ UNCHANGED vars => UNCHANGED fvars
    BY DEF list_users, list_files, Show, vars
  <2> QED
    BY <1>1, <2>1, <2>2, <2>3, <2>4, <2>5, <2>6, <2>7, <2>8 DEF Next
<1>2. DataInv => FileInv
  BY DEF DataInv
<1>3. Spec => FileQueues!Init /\ [][FileQueues!Next]_Queues
  BY <1>1, <1>2, QueuesStart, DataStart, DataStep, PTL DEF Spec
<1> QED
  BY <1>3 DEF FilesSpec, FileQueues!Spec

-----------------------------------------------------------------------------
(***************************************************************************)
(* Numbers on the console: print_number divides by the base and puts the   *)
(* remainders one before the other, and reading them back gives the number.*)
(***************************************************************************)
DecimalDigit == {Digit[i] : i \in 1..10}
Numerals == Seq(DecimalDigit)
LastDigit(m) == Digit[(m % 10) + 1]
DigitValue(c) == CHOOSE n \in 0..9 : Digit[n+1] = c

\* The digits of every number.
AreNumerals(d) ==
  /\ d \in [Nat -> Numerals] /\ d[0] = <<>>
  /\ \A m \in Nat \ {0} : d[m] = Append(d[m \div 10], LastDigit(m))

\* The ten digits are told apart.
LEMMA DigitsDiffer ==
  ASSUME NEW n \in 0..9
  PROVE  Digit[n+1] \in DecimalDigit /\ DigitValue(Digit[n+1]) = n
<1>1. n + 1 \in 1..10
  OBVIOUS
<1>2. \A k \in 0..9 : Digit[k+1] = Digit[n+1] => k = n
  BY DEF Digit
<1> QED
  BY <1>1, <1>2 DEF DecimalDigit, DigitValue

\* A number is ten tenths of it and its last digit.
LEMMA TenthIs ==
  ASSUME NEW m \in Nat
  PROVE  /\ m \div 10 \in Nat /\ m % 10 \in 0..9 /\ m = 10 * (m \div 10) + (m % 10)
         /\ m # 0 => m \div 10 < m
         /\ LastDigit(m) \in DecimalDigit
<1>1. m \div 10 \in Nat /\ m % 10 \in 0..9 /\ m = 10 * (m \div 10) + (m % 10)
  BY Quotient
<1>2. LastDigit(m) \in DecimalDigit
  BY <1>1, DigitsDiffer DEF LastDigit
<1> QED
  BY <1>1, <1>2

\* Such a function exists: cut off after k digits, it is the same for all
\* numbers up to k.
LEMMA NumeralsExist == \E d : AreNumerals(d)
<1> DEFINE more(f) == [m \in Nat |-> IF m = 0 THEN <<>> ELSE Append(f[m \div 10], LastDigit(m))]
           none == [m \in Nat |-> <<>>]
           A == [Nat -> Numerals]
           step == [x \in Nat \X A |-> more(x[2])]
<1>1. ASSUME NEW f \in A PROVE more(f) \in A
  <2> SUFFICES ASSUME NEW m \in Nat, m # 0 PROVE Append(f[m \div 10], LastDigit(m)) \in Numerals
    BY EmptySeq DEF Numerals
  <2>1. f[m \div 10] \in Numerals /\ LastDigit(m) \in DecimalDigit
    BY TenthIs
  <2> QED
    BY <2>1, AppendProperties DEF Numerals
<1>2. \A k \in Nat, f \in A : step[<<k, f>>] = more(f)
  <2> HIDE DEF more, A
  <2> QED
    OBVIOUS
<1>3. StaysIn(A, none, step)
  <2>1. none \in A
    BY EmptySeq DEF Numerals
  <2> HIDE DEF none, step, more, A
  <2> QED
    BY <1>1, <1>2, <2>1 DEF StaysIn
<1>4. PICK g : Iterates(g, A, none, step)
  <2> HIDE DEF none, step, more, A
  <2> QED
    BY <1>3, Iteration
<1>5. /\ g[0] = none
      /\ \A k \in Nat : g[k] \in A /\ g[k+1] = more(g[k])
  <2> HIDE DEF none, step, more, A
  <2> QED
    BY <1>2, <1>4 DEF Iterates
<1>6. ASSUME NEW k \in Nat
      PROVE  \A m \in Nat : g[k+1][m] = IF m = 0 THEN <<>> ELSE Append(g[k][m \div 10], LastDigit(m))
  <2>1. PICK f \in A : f = g[k]
    BY <1>5
  <2>2. g[k+1] = more(f)
    <3> HIDE DEF more, A, none
    <3> QED
      BY <1>5, <2>1
  <2> QED
    BY <2>1, <2>2
<1>7. \A k \in Nat : g[k][0] = <<>>
  <2> SUFFICES ASSUME NEW k \in Nat PROVE g[k][0] = <<>>
    OBVIOUS
  <2>1. CASE k = 0
    <3>1. g[0] = none
      BY <1>5
    <3> QED
      BY <2>1, <3>1
  <2>2. CASE k # 0
    <3>1. k - 1 \in Nat /\ (k - 1) + 1 = k /\ 0 \in Nat
      BY <2>2
    <3> HIDE DEF more, A, none
    <3>2. g[(k-1)+1][0] = <<>>
      BY <1>6, <3>1
    <3> QED
      BY <3>1, <3>2
  <2> QED
    BY <2>1, <2>2
<1>8. \A k \in Nat : \A m \in Nat \ {0} : g[k+1][m] = Append(g[k][m \div 10], LastDigit(m))
  BY <1>6
<1> HIDE DEF none, step, more
\* From k on the digits of numbers up to k no longer change.
<1>9. \A k \in Nat : \A m \in 0..k : g[k+1][m] = g[k][m]
  <2> DEFINE S == {k \in Nat : \A m \in 0..k : g[k+1][m] = g[k][m]}
  <2>1. 0 \in S
    <3>1. 0 + 1 \in Nat /\ 0 \in Nat /\ \A m \in 0..0 : m = 0
      OBVIOUS
    <3>2. g[0+1][0] = g[0][0]
      BY <1>7, <3>1
    <3> QED
      BY <3>1, <3>2
  <2>2. ASSUME NEW k \in Nat, k \in S PROVE k + 1 \in S
    <3> SUFFICES ASSUME NEW m \in 0..k+1 PROVE g[(k+1)+1][m] = g[k+1][m]
      OBVIOUS
    <3>1. CASE m = 0
      <4>1. k + 1 \in Nat /\ (k + 1) + 1 \in Nat
        OBVIOUS
      <4> QED
        BY <1>7, <3>1, <4>1
    <3>2. CASE m # 0
      <4>1. m \in Nat \ {0} /\ m \div 10 \in 0..k
        BY <3>2, TenthIs
      <4>2. g[(k+1)+1][m] = Append(g[k+1][m \div 10], LastDigit(m))
            /\ g[k+1][m] = Append(g[k][m \div 10], LastDigit(m))
        <5>1. k + 1 \in Nat
          OBVIOUS
        <5> QED
          BY <1>8, <4>1, <5>1
      <4>3. g[k+1][m \div 10] = g[k][m \div 10]
        BY <2>2, <4>1
      <4> QED
        BY <4>2, <4>3
    <3> QED
      BY <3>1, <3>2
  <2>3. S \in SUBSET Nat
    OBVIOUS
  <2> HIDE DEF S
  <2>4. S = Nat
    BY <2>1, <2>2, <2>3, AllNumbers
  <2> QED
    BY <2>4 DEF S
<1>10. ASSUME NEW m \in Nat
      PROVE  \A j \in Nat : g[m+j][m] = g[m][m]
  <2> DEFINE S == {j \in Nat : g[m+j][m] = g[m][m]}
  <2>1. 0 \in S
    OBVIOUS
  <2>2. ASSUME NEW j \in Nat, j \in S PROVE j + 1 \in S
    <3>1. m + j \in Nat /\ m \in 0..m+j /\ m + (j + 1) = (m + j) + 1
      OBVIOUS
    <3>2. g[(m+j)+1][m] = g[m+j][m]
      BY <1>9, <3>1
    <3> QED
      BY <2>2, <3>1, <3>2
  <2>3. S \in SUBSET Nat
    OBVIOUS
  <2> HIDE DEF S
  <2>4. S = Nat
    BY <2>1, <2>2, <2>3, AllNumbers
  <2> QED
    BY <2>4 DEF S
<1> DEFINE d == [m \in Nat |-> g[m][m]]
<1>11. d \in A /\ d[0] = <<>>
  BY <1>5, <1>7
<1>12. ASSUME NEW m \in Nat \ {0} PROVE d[m] = Append(d[m \div 10], LastDigit(m))
  <2>1. PICK t : t = m \div 10
    OBVIOUS
  <2>2. t \in Nat /\ t < m
    BY <2>1, TenthIs
  <2>3. m - 1 \in Nat /\ (m - 1) + 1 = m /\ (m - 1) - t \in Nat /\ t + ((m - 1) - t) = m - 1
    BY <2>2
  <2>4. g[m][m] = Append(g[m-1][t], LastDigit(m))
    BY <1>8, <2>1, <2>3
  <2>5. g[m-1][t] = g[t][t]
    BY <1>10, <2>2, <2>3
  <2> QED
    BY <2>1, <2>2, <2>4, <2>5
<1> HIDE DEF d
<1> QED
  BY <1>11, <1>12 DEF AreNumerals

\* The values of none, one, ... of the characters of s.
Values(v, s) ==
  /\ v \in [0..Len(s) -> Nat] /\ v[0] = 0
  /\ \A k \in 1..Len(s) : v[k] = 10 * v[k-1] + DigitValue(s[k])

\* Value walks a numeral digit by digit.
LEMMA ValuesExist ==
  ASSUME NEW s \in Numerals
  PROVE  \E v : Values(v, s) /\ Value(s) = v[Len(s)]
<1>1. PICK n \in Nat : n = Len(s)
  BY LenProperties DEF Numerals
<1>2. \A k \in 1..n : s[k] \in DecimalDigit /\ DigitValue(s[k]) \in Nat
  <2> SUFFICES ASSUME NEW k \in 1..n PROVE s[k] \in DecimalDigit /\ DigitValue(s[k]) \in Nat
    OBVIOUS
  <2>1. s[k] \in DecimalDigit
    BY <1>1, ElementOfSeq DEF Numerals
  <2>2. PICK i \in 1..10 : s[k] = Digit[i]
    BY <2>1 DEF DecimalDigit
  <2>3. i - 1 \in 0..9 /\ (i - 1) + 1 = i
    OBVIOUS
  <2>4. DigitValue(Digit[(i-1)+1]) = i - 1
    BY <2>3, DigitsDiffer
  <2> QED
    BY <2>1, <2>2, <2>3, <2>4
<1> DEFINE digit(k) == IF k \in 1..n THEN DigitValue(s[k]) ELSE 0
           step == [x \in Nat \X Nat |-> 10 * x[2] + digit(x[1] + 1)]
           Rec(value) == [k \in 0..n |->
             IF k = 0 THEN 0 ELSE 10 * value[k-1] + (CHOOSE i \in 0..9 : Digit[i+1] = s[k])]
<1>3. \A k \in Nat : digit(k) \in Nat
  BY <1>2
<1>4. PICK f : f \in [Nat -> Nat] /\ f[0] = 0 /\ \A k \in Nat : f[k+1] = 10 * f[k] + digit(k+1)
  <2> HIDE DEF digit
  <2>1. \A k \in Nat, x \in Nat : step[<<k, x>>] = 10 * x + digit(k+1) /\ step[<<k, x>>] \in Nat
    <3> SUFFICES ASSUME NEW k \in Nat, NEW x \in Nat
                 PROVE  step[<<k, x>>] = 10 * x + digit(k+1) /\ step[<<k, x>>] \in Nat
      OBVIOUS
    <3>1. step[<<k, x>>] = 10 * x + digit(k+1)
      OBVIOUS
    <3>2. k + 1 \in Nat
      OBVIOUS
    <3>3. digit(k+1) \in Nat
      BY <1>3, <3>2
    <3> QED
      BY <3>1, <3>3
  <2> HIDE DEF step
  <2>2. StaysIn(Nat, 0, step)
    BY <2>1 DEF StaysIn
  <2>3. PICK f : Iterates(f, Nat, 0, step)
    BY <2>2, Iteration
  <2>4. ASSUME NEW k \in Nat PROVE f[k+1] = 10 * f[k] + digit(k+1)
    <3>1. f[k] \in Nat /\ f[k+1] = step[<<k, f[k]>>]
      BY <2>3 DEF Iterates
    <3> QED
      BY <2>1, <3>1
  <2> QED
    BY <2>3, <2>4 DEF Iterates
<1> DEFINE g == [k \in 0..n |-> f[k]]
<1>5. \A k \in 1..n : k - 1 \in 0..n /\ k - 1 \in Nat /\ (k - 1) + 1 = k
  OBVIOUS
<1>6. g \in [0..n -> Nat] /\ g[0] = 0 /\ \A k \in 1..n : g[k] = 10 * g[k-1] + DigitValue(s[k])
  <2>1. ASSUME NEW k \in 1..n PROVE g[k] = 10 * g[k-1] + DigitValue(s[k])
    <3>1. f[(k-1)+1] = 10 * f[k-1] + digit((k-1)+1)
      <4> HIDE DEF digit
      <4> QED
        BY <1>4, <1>5
    <3>2. digit(k) = DigitValue(s[k]) /\ g[k] = f[k] /\ g[k-1] = f[k-1]
      BY <1>5
    <3> HIDE DEF digit, g
    <3> QED
      BY <1>5, <3>1, <3>2
  <2>2. g \in [0..n -> Nat] /\ g[0] = 0
    <3> HIDE DEF digit
    <3>1. 0 \in 0..n /\ \A k \in 0..n : k \in Nat
      OBVIOUS
    <3> QED
      BY <1>4, <3>1
  <2> HIDE DEF g
  <2> QED
    BY <2>1, <2>2
<1>7. g = Rec(g)
  <2>1. ASSUME NEW k \in 0..n
        PROVE  g[k] = IF k = 0 THEN 0 ELSE 10 * g[k-1] + (CHOOSE i \in 0..9 : Digit[i+1] = s[k])
    <3>1. k = 0 \/ k \in 1..n
      OBVIOUS
    <3> HIDE DEF g
    <3> QED
      BY <1>6, <3>1 DEF DigitValue
  <2>2. g = [k \in 0..n |-> g[k]]
    OBVIOUS
  <2> HIDE DEF g
  <2> QED
    BY <2>1, <2>2
<1> DEFINE v == CHOOSE value : value = Rec(value)
<1>8. v = Rec(v)
  <2> HIDE DEF Rec, g
  <2> QED
    BY <1>7
<1>9. Value(s) = v[n]
  BY <1>1 DEF Value
<1> HIDE DEF v, g
<1>10. DOMAIN v = 0..n /\ v[0] = 0 /\ \A k \in 1..n : v[k] = 10 * v[k-1] + DigitValue(s[k])
  <2>1. \A k \in 0..n : v[k] = IF k = 0 THEN 0 ELSE 10 * v[k-1] + (CHOOSE i \in 0..9 : Digit[i+1] = s[k])
    BY <1>8, Zenon
  <2>2. DOMAIN v = 0..n
    BY <1>8, Zenon
  <2>3. 0 \in 0..n /\ \A k \in 1..n : k \in 0..n /\ k # 0
    OBVIOUS
  <2> QED
    BY <2>1, <2>2, <2>3, Zenon DEF DigitValue
<1>11. \A k \in Nat : k =< n => v[k] \in Nat
  <2> DEFINE S == {k \in Nat : k =< n => v[k] \in Nat}
  <2>1. 0 \in S
    BY <1>10
  <2>2. ASSUME NEW k \in Nat, k \in S PROVE k + 1 \in S
    <3> SUFFICES ASSUME k + 1 =< n PROVE v[k+1] \in Nat
      OBVIOUS
    <3>1. k + 1 \in 1..n /\ (k + 1) - 1 = k /\ v[k] \in Nat
      BY <2>2
    <3>2. v[k+1] = 10 * v[k] + DigitValue(s[k+1]) /\ DigitValue(s[k+1]) \in Nat
      BY <1>2, <1>10, <3>1
    <3> QED
      BY <3>1, <3>2
  <2>3. S \in SUBSET Nat
    OBVIOUS
  <2> HIDE DEF S
  <2>4. S = Nat
    BY <2>1, <2>2, <2>3, AllNumbers
  <2> QED
    BY <2>4 DEF S
<1>12. v \in [0..n -> Nat]
  <2>1. v = [k \in 0..n |-> v[k]]
    BY <1>8, Zenon
  <2> QED
    BY <1>11, <2>1
<1>13. Values(v, s)
  BY <1>1, <1>10, <1>12 DEF Values
<1> QED
  BY <1>1, <1>9, <1>13

\* A digit behind a numeral: ten times the value, and the digit.
LEMMA ValueLonger ==
  ASSUME NEW s \in Numerals, NEW n \in 0..9
  PROVE  Value(Append(s, Digit[n+1])) = 10 * Value(s) + n /\ Value(s) \in Nat
<1>1. PICK t : t = Append(s, Digit[n+1])
  OBVIOUS
<1>2. PICK l \in Nat : l = Len(s)
  BY LenProperties DEF Numerals
<1>3. t \in Numerals /\ Len(t) = l + 1 /\ t[l+1] = Digit[n+1] /\ \A k \in 1..l : t[k] = s[k]
  BY <1>1, <1>2, DigitsDiffer, AppendProperties DEF Numerals
<1>4. PICK v : Values(v, s) /\ Value(s) = v[l]
  BY <1>2, ValuesExist
<1>5. PICK w : Values(w, t) /\ Value(t) = w[l+1]
  BY <1>3, ValuesExist
<1>6. \A k \in Nat : k =< l => v[k] = w[k]
  <2> DEFINE S == {k \in Nat : k =< l => v[k] = w[k]}
  <2>1. 0 \in S
    BY <1>4, <1>5 DEF Values
  <2>2. ASSUME NEW k \in Nat, k \in S PROVE k + 1 \in S
    <3> SUFFICES ASSUME k + 1 =< l PROVE v[k+1] = w[k+1]
      OBVIOUS
    <3>1. k + 1 \in 1..l /\ k + 1 \in 1..l+1 /\ (k + 1) - 1 = k /\ v[k] = w[k]
      BY <2>2
    <3>2. v[k+1] = 10 * v[k] + DigitValue(s[k+1]) /\ w[k+1] = 10 * w[k] + DigitValue(t[k+1])
      BY <1>2, <1>3, <1>4, <1>5, <3>1 DEF Values
    <3>3. s[k+1] = t[k+1]
      BY <1>3, <3>1
    <3> QED
      BY <3>1, <3>2, <3>3
  <2>3. S \in SUBSET Nat
    OBVIOUS
  <2> HIDE DEF S
  <2>4. S = Nat
    BY <2>1, <2>2, <2>3, AllNumbers
  <2> QED
    BY <2>4 DEF S
<1>7. l + 1 \in 1..Len(t) /\ (l + 1) - 1 = l
  BY <1>3
<1>8. w[l+1] = 10 * w[l] + n
  BY <1>3, <1>5, <1>7, DigitsDiffer DEF Values
<1>9. v[l] = w[l] /\ v[l] \in Nat
  BY <1>2, <1>4, <1>6 DEF Values
<1> QED
  BY <1>1, <1>4, <1>5, <1>8, <1>9

LEMMA ValueOfNone == Value(<<>>) = 0
<1>1. <<>> \in Numerals /\ Len(<<>>) = 0
  BY EmptySeq DEF Numerals
<1>2. PICK v : Values(v, <<>>) /\ Value(<<>>) = v[0]
  BY <1>1, ValuesExist
<1> QED
  BY <1>2 DEF Values

\* print_number, read back, is the number: no digit is lost or misplaced.
LEMMA NumberShown ==
  ASSUME NEW num \in Nat
  PROVE  print_number(num, 10) \in Numerals /\ Value(print_number(num, 10)) = num
<1> DEFINE Rec(digits) == [n \in Nat |->
             IF n = 0 THEN <<>> ELSE Preceded(Digit[(n % 10) + 1], digits[n \div 10])]
           d == CHOOSE digits : digits = Rec(digits)
<1>1. d = Rec(d)
  <2>1. PICK f : AreNumerals(f)
    BY NumeralsExist
  <2>2. f = [n \in Nat |-> f[n]]
    BY <2>1 DEF AreNumerals
  <2>3. \A n \in Nat : f[n] = IF n = 0 THEN <<>> ELSE Preceded(Digit[(n % 10) + 1], f[n \div 10])
    BY <2>1 DEF AreNumerals, Preceded, LastDigit
  <2>4. f = Rec(f)
    BY <2>2, <2>3
  <2> HIDE DEF Rec
  <2> QED
    BY <2>4
<1>2. print_number(num, 10) = IF num = 0 THEN <<"0">> ELSE d[num]
  BY DEF print_number
<1> HIDE DEF d
<1>3. d[0] = <<>> /\ \A n \in Nat \ {0} : d[n] = Append(d[n \div 10], LastDigit(n))
  BY <1>1 DEF Preceded, LastDigit
<1>4. \A n \in Nat : d[n] \in Numerals /\ Value(d[n]) = n
  <2> DEFINE Right(n) == d[n] \in Numerals /\ Value(d[n]) = n
             Wrong == {n \in Nat : ~Right(n)}
  <2> SUFFICES ASSUME Wrong # {} PROVE FALSE
    OBVIOUS
  <2>1. PICK n \in Wrong : \A m \in Wrong : n =< m
    <3>1. Wrong \in SUBSET Nat
      OBVIOUS
    <3> HIDE DEF Wrong
    <3> QED
      BY <3>1, LeastNumber
  <2>2. n # 0
    <3>1. <<>> \in Numerals
      BY EmptySeq DEF Numerals
    <3> QED
      BY <1>3, <2>1, <3>1, ValueOfNone
  <2>3. PICK t : t = n \div 10
    OBVIOUS
  <2>4. t \in Nat /\ t < n /\ n % 10 \in 0..9 /\ n = 10 * t + (n % 10)
    BY <2>2, <2>3, TenthIs
  <2>5. Right(t)
    BY <2>1, <2>4
  <2>6. d[n] = Append(d[t], Digit[(n % 10) + 1])
    BY <1>3, <2>2, <2>3 DEF LastDigit
  <2>7. d[n] \in Numerals
    BY <2>4, <2>5, <2>6, DigitsDiffer, AppendProperties DEF Numerals
  <2>8. Value(d[n]) = n
    BY <2>4, <2>5, <2>6, ValueLonger
  <2> QED
    BY <2>1, <2>7, <2>8
<1>5. num = 0 => <<"0">> \in Numerals /\ Value(<<"0">>) = 0
  <2>1. Digit[0+1] = "0" /\ 0 \in 0..9
    BY DEF Digit
  <2>2. <<>> \in Numerals /\ Append(<<>>, "0") = <<"0">>
    BY EmptySeq DEF Numerals
  <2>3. <<"0">> \in Numerals
    BY <2>1, <2>2, DigitsDiffer, AppendProperties DEF Numerals
  <2>4. Value(Append(<<>>, Digit[0+1])) = 10 * Value(<<>>) + 0
    BY <2>1, <2>2, ValueLonger
  <2> QED
    BY <2>1, <2>2, <2>3, <2>4, ValueOfNone
<1> QED
  BY <1>2, <1>4, <1>5

-----------------------------------------------------------------------------
(***************************************************************************)
(* printf: what it shows after each character of the format.               *)
(***************************************************************************)
LEMMA MaxIs ==
  ASSUME NEW S, NEW x \in S, S \subseteq Int, \A y \in S : y =< x
  PROVE  Max(S) = x
<1> DEFINE Greatest(z) == \A y \in S : z >= y
<1>1. \E z \in S : Greatest(z)
  OBVIOUS
<1>2. Max(S) \in S /\ Greatest(Max(S))
  <2>1. Max(S) = CHOOSE z \in S : Greatest(z)
    BY DEF Max
  <2> HIDE DEF Greatest
  <2> QED
    BY <1>1, <2>1, Zenon
<1>3. Max(S) =< x /\ x =< Max(S) /\ Max(S) \in Int /\ x \in Int
  BY <1>2
<1> QED
  BY <1>3

\* The fold over 1..k takes k last.
LEMMA MaxOfPrefix ==
  ASSUME NEW k \in Nat \ {0}
  PROVE  1..k # {} /\ Max(1..k) = k /\ (1..k) \ {k} = 1 .. k-1
<1>1. k \in 1..k /\ 1..k \subseteq Int /\ \A y \in 1..k : y =< k
  OBVIOUS
<1>2. Max(1..k) = k
  BY <1>1, MaxIs
<1> QED
  BY <1>1, <1>2

State(out, percent, args) == [out |-> out, percent |-> percent, args |-> args]

\* The recursion of FoldLeft, as module Folds defines it.
PrintfFrom(iter, format, args, n) ==
  [t \in SUBSET (1..n) |-> IF t = {} THEN State(<<>>, FALSE, args)
                           ELSE Formatted(iter[t \ {Max(t)}], format[Max(t)])]

\* f[k] is the state of printf after k characters of the format.
Prints(f, format, args) ==
  /\ f[0] = State(<<>>, FALSE, args)
  /\ \A k \in 1..Len(format) : f[k] = Formatted(f[k-1], format[k])
  /\ printf(format, args) = f[Len(format)].out

\* There is a function with the equation of the fold in printf.
LEMMA PrintfExists ==
  ASSUME NEW format, NEW args, NEW n \in Nat
  PROVE  \E iter : iter = PrintfFrom(iter, format, args, n)
<1> DEFINE S == {k \in Nat : \E iter : iter = PrintfFrom(iter, format, args, k)}
<1>1. 0 \in S
  <2> DEFINE g == [t \in SUBSET (1..0) |-> State(<<>>, FALSE, args)]
  <2>1. \A t \in SUBSET (1..0) : t = {}
    OBVIOUS
  <2>2. g = PrintfFrom(g, format, args, 0)
    BY <2>1 DEF PrintfFrom
  <2> HIDE DEF g
  <2> QED
    BY <2>2
<1>2. ASSUME NEW k \in Nat, k \in S PROVE k + 1 \in S
  <2>1. PICK g : g = PrintfFrom(g, format, args, k)
    BY <1>2
  <2> DEFINE h == [t \in SUBSET (1..k+1) |->
                     IF k + 1 \in t THEN Formatted(g[t \ {k+1}], format[k+1]) ELSE g[t]]
  <2>2. ASSUME NEW t \in SUBSET (1..k+1)
        PROVE  h[t] = IF t = {} THEN State(<<>>, FALSE, args)
                      ELSE Formatted(h[t \ {Max(t)}], format[Max(t)])
    <3>1. CASE k + 1 \in t
      <4>1. t \subseteq Int /\ \A y \in t : y =< k + 1
        OBVIOUS
      <4>2. Max(t) = k + 1
        BY <3>1, <4>1, MaxIs
      <4>3. t \ {k+1} \in SUBSET (1..k+1) /\ k + 1 \notin t \ {k+1} /\ t # {}
        BY <3>1
      <4>4. h[t] = Formatted(g[t \ {k+1}], format[k+1]) /\ h[t \ {k+1}] = g[t \ {k+1}]
        BY <3>1, <4>3
      <4> HIDE DEF h
      <4> QED
        BY <4>2, <4>3, <4>4
    <3>2. CASE k + 1 \notin t
      <4>1. t \in SUBSET (1..k)
        BY <3>2
      <4>2. PICK u : u = t \ {Max(t)}
        OBVIOUS
      <4>3. u \in SUBSET (1..k) /\ u \in SUBSET (1..k+1) /\ k + 1 \notin u
        <5>1. u \subseteq t
          BY <4>2
        <5> QED
          BY <3>2, <4>1, <5>1
      <4>4. h[t] = g[t] /\ h[u] = g[u]
        BY <3>2, <4>3
      <4>5. g[t] = IF t = {} THEN State(<<>>, FALSE, args) ELSE Formatted(g[u], format[Max(t)])
        BY <2>1, <4>1, <4>2, Zenon DEF PrintfFrom
      <4> HIDE DEF h
      <4> QED
        BY <4>2, <4>4, <4>5
    <3> QED
      BY <3>1, <3>2
  <2>3. h = [t \in SUBSET (1..k+1) |-> h[t]]
    OBVIOUS
  <2> HIDE DEF h
  <2>4. h = PrintfFrom(h, format, args, k + 1)
    BY <2>2, <2>3 DEF PrintfFrom
  <2> QED
    BY <2>4
<1>3. S \in SUBSET Nat
  OBVIOUS
<1> HIDE DEF S
<1>4. S = Nat
  BY <1>1, <1>2, <1>3, AllNumbers
<1> QED
  BY <1>4 DEF S

\* printf walks its format character by character.
LEMMA PrintfWalks ==
  ASSUME NEW format, NEW n \in Nat, Len(format) = n, DOMAIN format = 1..n, NEW args
  PROVE  \E f : Prints(f, format, args)
<1> DEFINE g == CHOOSE iter : iter = PrintfFrom(iter, format, args, n)
<1>1. g = PrintfFrom(g, format, args, n)
  BY PrintfExists
<1>2. printf(format, args) = g[1..n].out
  BY DEF printf, FoldLeft, MapThenFoldSet, PrintfFrom, State
<1> HIDE DEF g
<1> DEFINE f == [k \in 0..n |-> g[1..k]]
<1>3. \A t \in SUBSET (1..n) : g[t] = IF t = {} THEN State(<<>>, FALSE, args)
                                       ELSE Formatted(g[t \ {Max(t)}], format[Max(t)])
  BY <1>1, Zenon DEF PrintfFrom
<1>4. f[0] = State(<<>>, FALSE, args)
  <2>1. 1..0 = {} /\ 0 \in 0..n /\ {} \in SUBSET (1..n)
    OBVIOUS
  <2> QED
    BY <1>3, <2>1
<1>5. ASSUME NEW k \in 1..n PROVE f[k] = Formatted(f[k-1], format[k])
  <2>1. k \in Nat \ {0} /\ k \in 0..n /\ k - 1 \in 0..n /\ 1..k \in SUBSET (1..n)
    OBVIOUS
  <2>2. g[1..k] = Formatted(g[1 .. k-1], format[k])
    BY <1>3, <2>1, MaxOfPrefix
  <2> QED
    BY <2>1, <2>2
<1>6. f[n] = g[1..n]
  OBVIOUS
<1> HIDE DEF f
<1>7. Prints(f, format, args)
  BY <1>2, <1>4, <1>5, <1>6 DEF Prints
<1> QED
  BY <1>7

\* One character of a format.
LEMMA PlainChar ==
  ASSUME NEW out, NEW args, NEW c, c # "%"
  PROVE  Formatted(State(out, FALSE, args), c) = State(out \o <<c>>, FALSE, args)
BY DEF Formatted, State, Put

LEMMA PercentSign ==
  ASSUME NEW out, NEW args
  PROVE  Formatted(State(out, FALSE, args), "%") = State(out, TRUE, args)
BY DEF Formatted, State

LEMMA StringShown ==
  ASSUME NEW out, NEW args
  PROVE  Formatted(State(out, TRUE, args), "s") = State(out \o Head(args), FALSE, Tail(args))
BY DEF Formatted, State, Conversion, Convert, Put

LEMMA DecimalShown ==
  ASSUME NEW out, NEW args
  PROVE  Formatted(State(out, TRUE, args), "d") = State(out \o Signed(Head(args)), FALSE, Tail(args))
BY DEF Formatted, State, Conversion, Convert, Put

\* The line of a user, and where its parts are: name and number after a
\* character each, with three between number and the end, of which the second
\* tells the rights.
LineOf(name, number, role) ==
  <<"  ">> \o name \o <<" (UID: ">> \o number \o <<", ">> \o <<role>> \o <<")">> \o <<"\n">>
Role(u) == IF u.is_admin THEN "admin" ELSE "user"

\* The line of a user: his name, his number and his role, between fixed text.
LEMMA UserLineIs ==
  ASSUME NEW u, u.uid \in Nat, u.uid < LONG \div 2, LONG \in Nat
  PROVE  UserLine(u) = LineOf(Text(u.text, NAME), print_number(u.uid, 10), Role(u))
<1> DEFINE name == Text(u.text, NAME)
           number == print_number(u.uid, 10)
           a0 == <<name, u.uid, <<Role(u)>>>>
           a1 == <<u.uid, <<Role(u)>>>>
           a2 == <<<<Role(u)>>>>
<1>1. UserLine(u) = printf(UserFormat, a0)
  BY DEF UserLine, Role
<1>2. UserFormat[1] = "  " /\ Len(UserFormat) = 11 /\ DOMAIN UserFormat = 1..11
  BY DEF UserFormat
<1>3. PICK f : Prints(f, UserFormat, a0)
  <2> HIDE DEF a0
  <2> QED
    BY <1>2, PrintfWalks
<1>4. f[0] = State(<<>>, FALSE, a0) /\ UserLine(u) = f[11].out
  BY <1>1, <1>2, <1>3 DEF Prints
<1>5. \A k \in 1..11 : f[k] = Formatted(f[k-1], UserFormat[k])
  BY <1>2, <1>3 DEF Prints
<1>6. /\ f[1] = Formatted(f[0], "  ") /\ f[2] = Formatted(f[1], "%") /\ f[3] = Formatted(f[2], "s")
      /\ f[4] = Formatted(f[3], " (UID: ") /\ f[5] = Formatted(f[4], "%") /\ f[6] = Formatted(f[5], "d")
      /\ f[7] = Formatted(f[6], ", ") /\ f[8] = Formatted(f[7], "%") /\ f[9] = Formatted(f[8], "s")
      /\ f[10] = Formatted(f[9], ")") /\ f[11] = Formatted(f[10], "\n")
  <2>1. /\ UserFormat[1] = "  " /\ UserFormat[2] = "%" /\ UserFormat[3] = "s" /\ UserFormat[4] = " (UID: "
        /\ UserFormat[5] = "%" /\ UserFormat[6] = "d" /\ UserFormat[7] = ", " /\ UserFormat[8] = "%"
        /\ UserFormat[9] = "s" /\ UserFormat[10] = ")" /\ UserFormat[11] = "\n"
    BY DEF UserFormat
  <2>2. f[1] = Formatted(f[0], UserFormat[1])
    <3>1. 1 \in 1..11 /\ 1 - 1 = 0
      OBVIOUS
    <3> QED
      BY <1>5, <3>1
  <2>3. f[2] = Formatted(f[1], UserFormat[2])
    <3>1. 2 \in 1..11 /\ 2 - 1 = 1
      OBVIOUS
    <3> QED
      BY <1>5, <3>1
  <2>4. f[3] = Formatted(f[2], UserFormat[3])
    <3>1. 3 \in 1..11 /\ 3 - 1 = 2
      OBVIOUS
    <3> QED
      BY <1>5, <3>1
  <2>5. f[4] = Formatted(f[3], UserFormat[4])
    <3>1. 4 \in 1..11 /\ 4 - 1 = 3
      OBVIOUS
    <3> QED
      BY <1>5, <3>1
  <2>6. f[5] = Formatted(f[4], UserFormat[5])
    <3>1. 5 \in 1..11 /\ 5 - 1 = 4
      OBVIOUS
    <3> QED
      BY <1>5, <3>1
  <2>7. f[6] = Formatted(f[5], UserFormat[6])
    <3>1. 6 \in 1..11 /\ 6 - 1 = 5
      OBVIOUS
    <3> QED
      BY <1>5, <3>1
  <2>8. f[7] = Formatted(f[6], UserFormat[7])
    <3>1. 7 \in 1..11 /\ 7 - 1 = 6
      OBVIOUS
    <3> QED
      BY <1>5, <3>1
  <2>9. f[8] = Formatted(f[7], UserFormat[8])
    <3>1. 8 \in 1..11 /\ 8 - 1 = 7
      OBVIOUS
    <3> QED
      BY <1>5, <3>1
  <2>10. f[9] = Formatted(f[8], UserFormat[9])
    <3>1. 9 \in 1..11 /\ 9 - 1 = 8
      OBVIOUS
    <3> QED
      BY <1>5, <3>1
  <2>11. f[10] = Formatted(f[9], UserFormat[10])
    <3>1. 10 \in 1..11 /\ 10 - 1 = 9
      OBVIOUS
    <3> QED
      BY <1>5, <3>1
  <2>12. f[11] = Formatted(f[10], UserFormat[11])
    <3>1. 11 \in 1..11 /\ 11 - 1 = 10
      OBVIOUS
    <3> QED
      BY <1>5, <3>1
  <2> QED
    BY <2>1, <2>2, <2>3, <2>4, <2>5, <2>6, <2>7, <2>8, <2>9, <2>10, <2>11, <2>12
<1>7. "  " # "%" /\ " (UID: " # "%" /\ ", " # "%" /\ ")" # "%" /\ "\n" # "%"
  OBVIOUS
<1>8. /\ Head(a0) = name /\ Tail(a0) = a1 /\ Head(a1) = u.uid /\ Tail(a1) = a2
      /\ Head(a2) = <<Role(u)>>
  OBVIOUS
<1>9. Signed(u.uid) = number
  BY DEF Signed
<1>10. PICK a3 : a3 = Tail(a2)
  OBVIOUS
<1> HIDE DEF name, number, a0, a1, a2
<1>11. PICK o1 : o1 = <<>> \o <<"  ">>
  OBVIOUS
<1>12. f[1] = State(o1, FALSE, a0)
  BY <1>4, <1>6, <1>7, <1>11, PlainChar
<1>13. PICK o3 : o3 = o1 \o name
  OBVIOUS
<1>14. f[3] = State(o3, FALSE, a1)
  BY <1>6, <1>7, <1>8, <1>12, <1>13, PercentSign, StringShown
<1>15. PICK o4 : o4 = o3 \o <<" (UID: ">>
  OBVIOUS
<1>16. f[4] = State(o4, FALSE, a1)
  BY <1>6, <1>7, <1>14, <1>15, PlainChar
<1>17. PICK o6 : o6 = o4 \o number
  OBVIOUS
<1>18. f[6] = State(o6, FALSE, a2)
  BY <1>6, <1>7, <1>8, <1>9, <1>16, <1>17, PercentSign, DecimalShown
<1>19. PICK o7 : o7 = o6 \o <<", ">>
  OBVIOUS
<1>20. f[7] = State(o7, FALSE, a2)
  BY <1>6, <1>7, <1>18, <1>19, PlainChar
<1>21. PICK o9 : o9 = o7 \o <<Role(u)>>
  OBVIOUS
<1>22. f[9] = State(o9, FALSE, a3)
  <2>1. f[8] = State(o7, TRUE, a2)
    BY <1>6, <1>20, PercentSign
  <2>2. f[9] = State(o7 \o Head(a2), FALSE, Tail(a2))
    BY <1>6, <2>1, StringShown
  <2> QED
    BY <1>8, <1>10, <1>21, <2>2
<1>23. PICK o10 : o10 = o9 \o <<")">>
  OBVIOUS
<1>24. f[10] = State(o10, FALSE, a3)
  BY <1>6, <1>7, <1>22, <1>23, PlainChar
<1>25. f[11] = State(o10 \o <<"\n">>, FALSE, a3)
  BY <1>6, <1>7, <1>24, PlainChar
<1>26. <<>> \o <<"  ">> = <<"  ">>
  OBVIOUS
<1>27. UserLine(u) = o10 \o <<"\n">>
  BY <1>4, <1>25 DEF State
<1> QED
  BY <1>11, <1>13, <1>15, <1>17, <1>19, <1>21, <1>23, <1>26, <1>27 DEF LineOf, name, number

\* The line of a file: its name, with a slash if it is a directory.
LEMMA FileLineIs ==
  ASSUME NEW file, NEW C, Text(file, NAME) \in Seq(C)
  PROVE  FileLine(file) =
           Append(IF IsDirectory(file) THEN Append(Text(file, NAME), "/") ELSE Text(file, NAME), "\n")
<1> DEFINE name == Text(file, NAME)
           slash == IF IsDirectory(file) THEN <<"/">> ELSE <<>>
           format == <<"%", "s", "%", "s", "\n">>
           a0 == <<name, slash>>
           a1 == <<slash>>
<1>1. FileLine(file) = printf(format, a0)
  BY DEF FileLine
<1>2. Len(format) = 5 /\ DOMAIN format = 1..5
  OBVIOUS
<1>3. PICK f : Prints(f, format, a0)
  <2> HIDE DEF a0, format
  <2> QED
    BY <1>2, PrintfWalks
<1>4. f[0] = State(<<>>, FALSE, a0) /\ FileLine(file) = f[5].out
  BY <1>1, <1>2, <1>3 DEF Prints
<1>5. \A k \in 1..5 : f[k] = Formatted(f[k-1], format[k])
  BY <1>2, <1>3 DEF Prints
<1>6. f[1] = Formatted(f[0], "%") /\ f[2] = Formatted(f[1], "s") /\ f[3] = Formatted(f[2], "%")
      /\ f[4] = Formatted(f[3], "s") /\ f[5] = Formatted(f[4], "\n")
  <2>1. format[1] = "%" /\ format[2] = "s" /\ format[3] = "%" /\ format[4] = "s" /\ format[5] = "\n"
    OBVIOUS
  <2> HIDE DEF format
  <2>2. f[1] = Formatted(f[1-1], format[1]) /\ f[2] = Formatted(f[2-1], format[2])
        /\ f[3] = Formatted(f[3-1], format[3])
    BY <1>5
  <2>3. f[4] = Formatted(f[4-1], format[4]) /\ f[5] = Formatted(f[5-1], format[5])
    BY <1>5
  <2> QED
    BY <2>1, <2>2, <2>3
<1>7. "\n" # "%"
  OBVIOUS
<1>8. Head(a0) = name /\ Tail(a0) = a1 /\ Head(a1) = slash
  OBVIOUS
<1>9. PICK a2 : a2 = Tail(a1)
  OBVIOUS
<1> HIDE DEF format, a0, a1, name, slash
<1>10. PICK o2 : o2 = <<>> \o name
  OBVIOUS
<1>11. f[2] = State(o2, FALSE, a1)
  BY <1>4, <1>6, <1>8, <1>10, PercentSign, StringShown
<1>12. PICK o4 : o4 = o2 \o slash
  OBVIOUS
<1>13. f[4] = State(o4, FALSE, a2)
  <2>1. f[3] = State(o2, TRUE, a1)
    BY <1>6, <1>11, PercentSign
  <2>2. f[4] = State(o2 \o Head(a1), FALSE, Tail(a1))
    BY <1>6, <2>1, StringShown
  <2> QED
    BY <1>8, <1>9, <1>12, <2>2
<1>14. f[5] = State(o4 \o <<"\n">>, FALSE, a2)
  BY <1>6, <1>7, <1>13, PlainChar
<1>15. FileLine(file) = (name \o slash) \o <<"\n">>
  <2>1. <<>> \o name = name
    BY DEF name
  <2> QED
    BY <1>4, <1>10, <1>12, <1>14, <2>1 DEF State
<1>16. PICK S : S = C \cup {"/", "\n"}
  OBVIOUS
<1>17. PICK t \in Seq(S) : t = name
  BY <1>16 DEF name
<1>18. t \o <<"/">> = Append(t, "/") /\ Append(t, "/") \in Seq(S)
  BY <1>16
<1>19. \A s \in Seq(S) : s \o <<"\n">> = Append(s, "\n") /\ s \o <<>> = s
  BY <1>16
<1> QED
  BY <1>15, <1>17, <1>18, <1>19 DEF name, slash

\* What read_file shows: the content and a line break.
LEMMA ContentLineIs ==
  ASSUME NEW S, NEW text \in Seq(S)
  PROVE  printf(<<"%", "s", "\n">>, <<text>>) = Append(text, "\n")
<1> DEFINE format == <<"%", "s", "\n">>
           a0 == <<text>>
<1>1. Len(format) = 3 /\ DOMAIN format = 1..3
  OBVIOUS
<1>2. PICK f : Prints(f, format, a0)
  <2> HIDE DEF a0, format
  <2> QED
    BY <1>1, PrintfWalks
<1>3. f[0] = State(<<>>, FALSE, a0) /\ printf(format, a0) = f[3].out
  BY <1>1, <1>2 DEF Prints
<1>4. f[1] = Formatted(f[0], "%") /\ f[2] = Formatted(f[1], "s") /\ f[3] = Formatted(f[2], "\n")
  <2>1. format[1] = "%" /\ format[2] = "s" /\ format[3] = "\n"
    OBVIOUS
  <2>2. \A k \in 1..3 : f[k] = Formatted(f[k-1], format[k])
    BY <1>1, <1>2 DEF Prints
  <2> HIDE DEF format
  <2>3. f[1] = Formatted(f[1-1], format[1]) /\ f[2] = Formatted(f[2-1], format[2])
        /\ f[3] = Formatted(f[3-1], format[3])
    BY <2>2
  <2> QED
    BY <2>1, <2>3
<1>5. "\n" # "%" /\ Head(a0) = text
  OBVIOUS
<1>6. PICK a1 : a1 = Tail(a0)
  OBVIOUS
<1> HIDE DEF a0
<1>7. PICK o2 : o2 = <<>> \o text
  OBVIOUS
<1>8. f[2] = State(o2, FALSE, a1)
  BY <1>3, <1>4, <1>5, <1>6, <1>7, PercentSign, StringShown
<1>9. f[3] = State(o2 \o <<"\n">>, FALSE, a1)
  BY <1>4, <1>5, <1>8, PlainChar
<1>10. o2 = text
  BY <1>7
<1>11. text \o <<"\n">> = Append(text, "\n")
  <2>1. text \in Seq(S \cup {"\n"})
    OBVIOUS
  <2> QED
    BY <2>1
<1> QED
  BY <1>3, <1>9, <1>10, <1>11 DEF State, a0

-----------------------------------------------------------------------------
(***************************************************************************)
(* Lines one behind the other, below a heading of two characters.          *)
(***************************************************************************)
\* w[k] is the first k of n sequences, joined.
Joins(w, S, seqs, n) ==
  /\ w \in [0..n -> Seq(S)] /\ w[0] = <<>>
  /\ \A k \in 1..n : w[k] = w[k-1] \o seqs[k]

\* FlattenSeq joins sequences one behind the other.
LEMMA FlattenJoins ==
  ASSUME NEW S, NEW n \in Nat, NEW seqs \in [1..n -> Seq(S)]
  PROVE  \E w : Joins(w, S, seqs, n) /\ FlattenSeq(seqs) = w[n]
<1> DEFINE part(k) == IF k \in 1..n THEN seqs[k] ELSE <<>>
           step == [x \in Nat \X Seq(S) |-> x[2] \o part(x[1] + 1)]
           Rec(flatten) == [i \in 1..n |-> IF i = 1 THEN seqs[i] ELSE flatten[i-1] \o seqs[i]]
<1>1. \A k \in Nat : part(k) \in Seq(S)
  BY EmptySeq
<1>2. PICK f : f \in [Nat -> Seq(S)] /\ f[0] = <<>> /\ \A k \in Nat : f[k+1] = f[k] \o part(k+1)
  <2> HIDE DEF part
  <2>1. ASSUME NEW k \in Nat, NEW x \in Seq(S)
        PROVE  step[<<k, x>>] = x \o part(k+1) /\ step[<<k, x>>] \in Seq(S)
    <3>1. step[<<k, x>>] = x \o part(k+1)
      OBVIOUS
    <3>2. k + 1 \in Nat
      OBVIOUS
    <3>3. part(k+1) \in Seq(S)
      BY <1>1, <3>2
    <3> HIDE DEF step
    <3> QED
      BY <3>1, <3>3, ConcatProperties
  <2> HIDE DEF step
  <2>2. StaysIn(Seq(S), <<>>, step)
    BY <2>1, EmptySeq DEF StaysIn
  <2>3. PICK f : Iterates(f, Seq(S), <<>>, step)
    BY <2>2, Iteration
  <2>4. ASSUME NEW k \in Nat PROVE f[k+1] = f[k] \o part(k+1)
    <3>1. f[k] \in Seq(S) /\ f[k+1] = step[<<k, f[k]>>]
      BY <2>3 DEF Iterates
    <3> QED
      BY <2>1, <3>1
  <2> QED
    BY <2>3, <2>4 DEF Iterates
<1> DEFINE w == [k \in 0..n |-> f[k]]
<1>3. \A k \in 1..n : k \in 0..n /\ k - 1 \in 0..n /\ k - 1 \in Nat /\ (k - 1) + 1 = k
  OBVIOUS
<1>4. Joins(w, S, seqs, n)
  <2>1. ASSUME NEW k \in 1..n PROVE w[k] = w[k-1] \o seqs[k]
    <3>1. f[(k-1)+1] = f[k-1] \o part((k-1)+1)
      <4> HIDE DEF part
      <4> QED
        BY <1>2, <1>3
    <3>2. part(k) = seqs[k] /\ w[k] = f[k] /\ w[k-1] = f[k-1]
      BY <1>3
    <3> HIDE DEF part, w
    <3> QED
      BY <1>3, <3>1, <3>2
  <2>2. w \in [0..n -> Seq(S)] /\ w[0] = <<>>
    <3> HIDE DEF part
    <3>1. 0 \in 0..n /\ \A k \in 0..n : k \in Nat
      OBVIOUS
    <3> QED
      BY <1>2, <3>1
  <2> HIDE DEF w
  <2> QED
    BY <2>1, <2>2 DEF Joins
<1> HIDE DEF w, part
<1>5. CASE n = 0
  <2>1. FlattenSeq(seqs) = seqs
    BY <1>5 DEF FlattenSeq
  <2>2. seqs = <<>>
    BY <1>5
  <2> QED
    BY <1>4, <1>5, <2>1, <2>2 DEF Joins
<1>6. CASE n # 0
  <2>1. 1 \in 1..n /\ w[1] = seqs[1]
    <3>1. 1 \in 1..n /\ 1 - 1 = 0
      BY <1>6
    <3>2. w[1] = <<>> \o seqs[1]
      BY <1>4, <3>1 DEF Joins
    <3> QED
      BY <3>1, <3>2
  <2> DEFINE g == [i \in 1..n |-> w[i]]
  <2>2. ASSUME NEW i \in 1..n PROVE g[i] = IF i = 1 THEN seqs[i] ELSE g[i-1] \o seqs[i]
    <3>1. CASE i = 1
      BY <2>1, <3>1
    <3>2. CASE i # 1
      <4>1. i - 1 \in 1..n
        BY <3>2
      <4> QED
        BY <1>4, <3>2, <4>1 DEF Joins
    <3> QED
      BY <3>1, <3>2
  <2>3. g = Rec(g)
    BY <2>2
  <2> DEFINE h == CHOOSE flatten : flatten = Rec(flatten)
  <2>4. h = Rec(h)
    <3> HIDE DEF Rec, g
    <3> QED
      BY <2>3
  <2>5. FlattenSeq(seqs) = h[n]
    <3>1. Len(seqs) = n
      OBVIOUS
    <3> QED
      BY <1>6, <3>1 DEF FlattenSeq
  <2> HIDE DEF h, g
  <2>6. \A i \in 1..n : h[i] = IF i = 1 THEN seqs[i] ELSE h[i-1] \o seqs[i]
    BY <2>4, Zenon
  <2> DEFINE T == {k \in Nat : k + 1 =< n => h[k+1] = w[k+1]}
  <2>7. 0 \in T
    <3>1. 0 + 1 = 1 /\ h[1] = seqs[1]
      BY <2>1, <2>6
    <3> QED
      BY <2>1, <3>1
  <2>8. ASSUME NEW k \in Nat, k \in T PROVE k + 1 \in T
    <3> SUFFICES ASSUME (k + 1) + 1 =< n PROVE h[(k+1)+1] = w[(k+1)+1]
      OBVIOUS
    <3>1. (k + 1) + 1 \in 1..n /\ (k + 1) + 1 # 1 /\ ((k + 1) + 1) - 1 = k + 1 /\ h[k+1] = w[k+1]
      BY <2>8
    <3>2. h[(k+1)+1] = h[k+1] \o seqs[(k+1)+1]
      BY <2>6, <3>1
    <3>3. w[(k+1)+1] = w[k+1] \o seqs[(k+1)+1]
      BY <1>4, <3>1 DEF Joins
    <3> QED
      BY <3>1, <3>2, <3>3
  <2>9. T \in SUBSET Nat
    OBVIOUS
  <2> HIDE DEF T
  <2>10. T = Nat
    BY <2>7, <2>8, <2>9, AllNumbers
  <2>11. n - 1 \in Nat /\ (n - 1) + 1 = n
    BY <1>6
  <2>12. h[n] = w[n]
    <3>1. (n - 1) + 1 =< n
      BY <2>11
    <3>2. h[(n-1)+1] = w[(n-1)+1]
      BY <2>10, <2>11, <3>1 DEF T
    <3> QED
      BY <2>11, <3>2
  <2> QED
    BY <1>4, <2>5, <2>12
<1> QED
  BY <1>5, <1>6

\* Where the elements of a joined sequence come from.
LEMMA JoinedPlaces ==
  ASSUME NEW S, NEW s \in Seq(S), NEW t \in Seq(S), NEW m, m = Len(s), NEW l, l = Len(t),
         NEW z, z = s \o t
  PROVE  /\ m \in Nat /\ l \in Nat /\ z \in Seq(S) /\ Len(z) = m + l
         /\ \A p \in 1..m : z[p] = s[p]
         /\ \A p \in 1..l : z[m + p] = t[p]
<1>1. m \in Nat /\ l \in Nat /\ z \in Seq(S) /\ Len(z) = m + l
  OBVIOUS
<1>2. ASSUME NEW p \in 1..m PROVE z[p] = s[p]
  OBVIOUS
<1>3. ASSUME NEW p \in 1..l PROVE z[m + p] = t[p]
  OBVIOUS
<1> QED
  BY <1>1, <1>2, <1>3

\* Line i is behind place at[i-1], and there is nothing besides the lines.
LinesAt(at, text, L, c) ==
  /\ at \in [0..c -> Nat] /\ at[0] = 2 /\ DOMAIN text = 1..at[c] /\ Len(text) = at[c]
  /\ \A i \in 1..c : at[i] = at[i-1] + Len(L[i])
  /\ \A i \in 0..c : \A k \in 0..i : at[k] =< at[i]
  /\ \A i \in 1..c : \A j \in 1..Len(L[i]) : text[at[i-1] + j] = L[i][j]
  /\ \A p \in 3..at[c] : \E i \in 1..c : \E j \in 1..Len(L[i]) : p = at[i-1] + j

LinesIn(text, head, L, c) ==
  text[1] = head[1] /\ text[2] = head[2] /\ \E at : LinesAt(at, text, L, c)

\* The lines lie one behind the other, and nothing else is below the heading.
LEMMA LinesLie ==
  ASSUME NEW S, NEW c \in Nat, NEW L, L \in [1..c -> Seq(S)], NEW head \in Seq(S), Len(head) = 2,
         NEW text, text = head \o FlattenSeq(L)
  PROVE  LinesIn(text, head, L, c)
<1>1. PICK w : Joins(w, S, L, c) /\ FlattenSeq(L) = w[c]
  BY FlattenJoins
<1>2. /\ \A k \in 0..c : w[k] \in Seq(S) /\ Len(w[k]) \in Nat
      /\ w[0] = <<>> /\ Len(w[0]) = 0
      /\ \A k \in 1..c : w[k] = w[k-1] \o L[k] /\ L[k] \in Seq(S) /\ Len(L[k]) \in Nat
  BY <1>1, LenProperties, EmptySeq DEF Joins
<1>3. ASSUME NEW k \in 0..c, k + 1 =< c
      PROVE  /\ Len(w[k+1]) = Len(w[k]) + Len(L[k+1])
             /\ \A p \in 1..Len(w[k]) : w[k+1][p] = w[k][p]
             /\ \A j \in 1..Len(L[k+1]) : w[k+1][Len(w[k]) + j] = L[k+1][j]
  <2>1. k + 1 \in 1..c /\ (k + 1) - 1 = k
    BY <1>3
  <2>2. w[k+1] = w[k] \o L[k+1] /\ w[k] \in Seq(S) /\ L[k+1] \in Seq(S)
    BY <1>2, <2>1
  <2>3. PICK s \in Seq(S), t \in Seq(S) : s = w[k] /\ t = L[k+1]
    BY <2>2
  <2>6. PICK z : z = w[k+1]
    OBVIOUS
  <2>4. z = s \o t
    BY <2>2, <2>3, <2>6
  <2>5. /\ Len(z) = Len(s) + Len(t)
        /\ \A p \in 1..Len(s) : z[p] = s[p]
        /\ \A p \in 1..Len(t) : z[Len(s) + p] = t[p]
    BY <2>4, JoinedPlaces
  <2> QED
    BY <2>3, <2>5, <2>6
<1> DEFINE Before(i, k) == Len(w[i]) =< Len(w[k]) /\ \A p \in 1..Len(w[i]) : w[k][p] = w[i][p]
           Covered(k) == \A p \in 1..Len(w[k]) :
                           \E i \in 1..k : \E j \in 1..Len(L[i]) : p = Len(w[i-1]) + j
           T == {k \in Nat : k =< c => Covered(k) /\ \A i \in 0..k : Before(i, k)}
<1>4. 0 \in T
  <2>1. \A i \in 0..0 : i = 0
    OBVIOUS
  <2> QED
    BY <1>2, <2>1
<1>5. ASSUME NEW k \in Nat, k \in T PROVE k + 1 \in T
  <2> SUFFICES ASSUME k + 1 =< c PROVE Covered(k + 1) /\ \A i \in 0..k+1 : Before(i, k + 1)
    OBVIOUS
  <2>1. k \in 0..c /\ k + 1 \in 0..c /\ k + 1 \in 1..c /\ (k + 1) - 1 = k
    OBVIOUS
  <2>2. Covered(k) /\ \A i \in 0..k : Before(i, k)
    BY <1>5
  <2>3. PICK m \in Nat, l \in Nat, r \in Nat :
          m = Len(w[k]) /\ l = Len(L[k+1]) /\ r = Len(w[k+1]) /\ r = m + l
    <3>1. Len(w[k]) \in Nat /\ Len(L[k+1]) \in Nat /\ Len(w[k+1]) \in Nat
          /\ Len(w[k+1]) = Len(w[k]) + Len(L[k+1])
      BY <1>2, <1>3, <2>1
    <3> QED
      BY <3>1
  <2>6. r = m + l
    BY <2>3
  <2>4. ASSUME NEW p \in 1..r
        PROVE  \E i \in 1..k+1 : \E j \in 1..Len(L[i]) : p = Len(w[i-1]) + j
    <3>1. CASE p =< m
      <4>1. PICK i \in 1..k : \E j \in 1..Len(L[i]) : p = Len(w[i-1]) + j
        BY <2>2, <2>3, <3>1
      <4>2. i \in 1..k+1
        OBVIOUS
      <4> QED
        BY <4>1, <4>2
    <3>2. CASE p > m
      <4>1. p - m \in 1..l /\ p = m + (p - m)
        BY <2>6, <3>2
      <4>2. k + 1 \in 1..k+1
        OBVIOUS
      <4>3. p - m \in 1..Len(L[k+1]) /\ p = Len(w[(k+1)-1]) + (p - m)
        BY <2>1, <2>3, <4>1
      <4> QED
        BY <4>2, <4>3
    <3> QED
      BY <2>3, <3>1, <3>2
  <2>5. ASSUME NEW i \in 0..k+1 PROVE Before(i, k + 1)
    <3>1. CASE i = k + 1
      BY <1>2, <2>1, <3>1
    <3>2. CASE i # k + 1
      <4>1. i \in 0..k /\ i \in 0..c
        BY <2>1, <3>2
      <4>2. Len(w[i]) \in Nat /\ Len(w[i]) =< m /\ \A p \in 1..Len(w[i]) : w[k][p] = w[i][p]
        BY <1>2, <2>2, <2>3, <4>1
      <4>3. \A p \in 1..m : w[k+1][p] = w[k][p]
        BY <1>3, <2>1, <2>3
      <4>4. \A p \in 1..Len(w[i]) : p \in 1..m
        BY <2>3, <4>2
      <4>5. \A p \in 1..Len(w[i]) : w[k+1][p] = w[i][p]
        BY <4>2, <4>3, <4>4
      <4>6. Len(w[i]) =< Len(w[k+1])
        <5>1. PICK q \in Nat : q = Len(w[i])
          BY <4>2
        <5>2. q =< m
          BY <4>2, <5>1
        <5>3. q =< r
          BY <2>6, <5>2
        <5> QED
          BY <2>3, <5>1, <5>3
      <4> QED
        BY <4>5, <4>6
    <3> QED
      BY <3>1, <3>2
  <2> HIDE DEF Before
  <2> QED
    BY <2>3, <2>4, <2>5
<1>6. T \in SUBSET Nat
  OBVIOUS
<1> HIDE DEF T
<1>7. T = Nat
  BY <1>4, <1>5, <1>6, AllNumbers
<1>8. \A k \in 0..c : Covered(k) /\ \A i \in 0..k : Before(i, k)
  <2> SUFFICES ASSUME NEW k \in 0..c PROVE Covered(k) /\ \A i \in 0..k : Before(i, k)
    OBVIOUS
  <2>1. k \in Nat /\ k =< c /\ k \in T
    BY <1>7
  <2> HIDE DEF Before, Covered
  <2> QED
    BY <2>1 DEF T
<1> DEFINE at == [k \in 0..c |-> 2 + Len(w[k])]
<1>9. PICK u : u = w[c]
  OBVIOUS
<1>19. u \in Seq(S)
  BY <1>2, <1>9
<1>10. u \in Seq(S) /\ text = head \o u
  BY <1>1, <1>2, <1>9
<1>12. /\ text \in Seq(S) /\ Len(text) = 2 + Len(u) /\ text[1] = head[1] /\ text[2] = head[2]
       /\ \A p \in 1..Len(u) : text[2 + p] = u[p]
  <2>3. 1 \in 1..2 /\ 2 \in 1..2
    OBVIOUS
  <2>4. /\ text \in Seq(S) /\ Len(text) = 2 + Len(u)
        /\ \A p \in 1..2 : text[p] = head[p]
        /\ \A p \in 1..Len(u) : text[2 + p] = u[p]
    <3>1. /\ text \in Seq(S) /\ Len(text) = Len(head) + Len(u)
          /\ \A p \in 1..Len(head) : text[p] = head[p]
          /\ \A p \in 1..Len(u) : text[Len(head) + p] = u[p]
      <4>1. PICK z : z = text
        OBVIOUS
      <4>2. z = head \o u
        BY <1>10, <4>1
      <4>3. /\ z \in Seq(S) /\ Len(z) = Len(head) + Len(u)
            /\ \A p \in 1..Len(head) : z[p] = head[p]
            /\ \A p \in 1..Len(u) : z[Len(head) + p] = u[p]
        BY ONLY <1>19, <4>2, head \in Seq(S), JoinedPlaces
      <4> QED
        BY <4>1, <4>3
    <3> QED
      BY <3>1
  <2> HIDE DEF Before, Covered, at
  <2> QED
    BY <2>3, <2>4
<1>13. at \in [0..c -> Nat] /\ at[0] = 2 /\ DOMAIN text = 1..at[c] /\ Len(text) = at[c]
  <2>1. at[c] = 2 + Len(u) /\ c \in 0..c /\ 0 \in 0..c
    BY <1>9
  <2>2. at \in [0..c -> Nat] /\ at[0] = 2
    BY <1>2, <2>1
  <2> HIDE DEF at
  <2> QED
    BY <1>12, <2>1, <2>2, LenProperties
<1>14. \A i \in 1..c : i - 1 \in 0..c /\ i \in 0..c /\ (i - 1) + 1 = i /\ (i - 1) + 1 =< c
  OBVIOUS
<1>15. ASSUME NEW i \in 1..c
       PROVE  /\ at[i] = at[i-1] + Len(L[i])
              /\ \A j \in 1..Len(L[i]) : text[at[i-1] + j] = L[i][j]
  <2>1. PICK m \in Nat, l \in Nat, r \in Nat : m = Len(w[i-1]) /\ l = Len(L[i]) /\ r = Len(w[i])
    BY <1>2, <1>14
  <2>2. r = m + l /\ \A j \in 1..l : w[i][m + j] = L[i][j]
    <3> HIDE DEF Before, Covered
    <3>1. /\ Len(w[(i-1)+1]) = Len(w[i-1]) + Len(L[(i-1)+1])
          /\ \A j \in 1..Len(L[(i-1)+1]) : w[(i-1)+1][Len(w[i-1]) + j] = L[(i-1)+1][j]
      BY <1>3, <1>14
    <3> QED
      BY <1>14, <2>1, <3>1
  <2>3. r =< Len(u) /\ \A p \in 1..r : u[p] = w[i][p]
    BY <1>8, <1>9, <1>14, <2>1
  <2>4. at[i] = 2 + r /\ at[i-1] = 2 + m
    BY <1>14, <2>1
  <2>5. ASSUME NEW j \in 1..l PROVE text[at[i-1] + j] = L[i][j]
    <3>1. m + j \in 1..r /\ m + j \in 1..Len(u) /\ (2 + m) + j = 2 + (m + j)
      BY <2>1, <2>2, <2>3, <1>10, LenProperties
    <3>2. text[2 + (m + j)] = u[m + j] /\ u[m + j] = w[i][m + j]
      BY <1>12, <2>3, <3>1
    <3> HIDE DEF at
    <3> QED
      BY <2>2, <2>4, <3>1, <3>2
  <2>6. at[i] = at[i-1] + l
    <3>1. 2 + r = (2 + m) + l
      BY <2>2
    <3> HIDE DEF at
    <3> QED
      BY <2>4, <3>1
  <2> HIDE DEF at, Before, Covered
  <2> QED
    BY <2>1, <2>5, <2>6
<1>16. ASSUME NEW i \in 0..c, NEW k \in 0..i PROVE at[k] =< at[i]
  <2>1. k \in 0..c
    OBVIOUS
  <2>2. Len(w[k]) \in Nat /\ Len(w[i]) \in Nat
    BY <1>2, <2>1
  <2>3. Len(w[k]) =< Len(w[i])
    <3> HIDE DEF Covered
    <3> QED
      BY <1>8
  <2> QED
    BY <2>1, <2>2, <2>3
<1>17. ASSUME NEW p \in 3..at[c] PROVE \E i \in 1..c : \E j \in 1..Len(L[i]) : p = at[i-1] + j
  <2>1. at[c] = 2 + Len(w[c]) /\ Len(w[c]) \in Nat
    BY <1>2
  <2>2. p - 2 \in 1..Len(w[c]) /\ p = 2 + (p - 2)
    BY <2>1
  <2>6. PICK i \in 1..c : \E j \in 1..Len(L[i]) : p - 2 = Len(w[i-1]) + j
    <3>1. c \in 0..c
      OBVIOUS
    <3> QED
      BY <1>8, <2>2, <3>1
  <2>3. PICK j \in 1..Len(L[i]) : p - 2 = Len(w[i-1]) + j
    BY <2>6
  <2>4. at[i-1] = 2 + Len(w[i-1]) /\ Len(w[i-1]) \in Nat /\ Len(L[i]) \in Nat
    BY <1>2, <1>14
  <2>5. p = at[i-1] + j
    BY <2>2, <2>3, <2>4
  <2> QED
    BY <2>5
<1> HIDE DEF at
<1>18. LinesAt(at, text, L, c)
  BY <1>13, <1>15, <1>16, <1>17 DEF LinesAt
<1> QED
  BY <1>12, <1>18 DEF LinesIn

-----------------------------------------------------------------------------
(***************************************************************************)
(* What the command users shows.                                           *)
(***************************************************************************)
\* What is in front of a name, of a number and of the rights.
MarkName == "  "
MarkUid == " (UID: "
MarkRole == ", "

\* The three marks of a line are told apart from each other and the rest.
LEMMA MarksDiffer ==
  /\ MarkName # MarkUid /\ MarkName # MarkRole /\ MarkUid # MarkRole
  /\ \A m \in {MarkName, MarkUid, MarkRole} :
       m \in Wording /\ m # "admin" /\ m # "user" /\ m # ")" /\ m # "\n" /\ m # "Users:"
<1>1. MarkName \in Wording /\ MarkUid \in Wording /\ MarkRole \in Wording
  BY Zenon DEF MarkName, MarkUid, MarkRole, Wording
<1>2. /\ MarkName # MarkUid /\ MarkName # MarkRole /\ MarkUid # MarkRole
  BY Zenon DEF MarkName, MarkUid, MarkRole
<1>3. \A m \in {MarkName, MarkUid, MarkRole} :
       m # "admin" /\ m # "user" /\ m # ")" /\ m # "\n" /\ m # "Users:"
  BY Zenon DEF MarkName, MarkUid, MarkRole
<1> QED
  BY <1>1, <1>2, <1>3

\* No digit is a mark.
LEMMA DigitsArePlain ==
  ASSUME NEW c \in DecimalDigit
  PROVE  c \notin Wording /\ c # "\n"
<1>1. PICK i \in 1..10 : c = Digit[i]
  BY DEF DecimalDigit
<1>2. c \in {"0", "1", "2", "3", "4", "5", "6", "7", "8", "9"}
  BY <1>1 DEF Digit
<1>3. c # "\n"
  BY <1>2
<1>4. c \notin Wording
  BY <1>2, Zenon DEF Wording
<1> QED
  BY <1>3, <1>4

\* Where the elements are after one is put behind the others.
LEMMA JoinedOne ==
  ASSUME NEW S, NEW s \in Seq(S), NEW m, m = Len(s), NEW x \in S, NEW z, z = s \o <<x>>
  PROVE  m \in Nat /\ z \in Seq(S) /\ Len(z) = m + 1 /\ z[m+1] = x /\ \A p \in 1..m : z[p] = s[p]
<1>1. m \in Nat /\ z \in Seq(S) /\ Len(z) = m + 1
  OBVIOUS
<1>2. z[m+1] = x
  OBVIOUS
<1>3. ASSUME NEW p \in 1..m PROVE z[p] = s[p]
  OBVIOUS
<1> QED
  BY <1>1, <1>2, <1>3

\* The parts of the line of a user whose name has a characters and whose
\* number has b.
LineParts(l, name, a, number, b, role) ==
  /\ Len(l) = a + b + 6 /\ l[1] = MarkName /\ l[a+2] = MarkUid /\ l[a+b+3] = MarkRole
  /\ l[a+b+4] = role /\ l[a+b+5] = ")" /\ l[a+b+6] = "\n"
  /\ \A j \in 1..a : l[1+j] = name[j]
  /\ \A j \in 1..b : l[a+2+j] = number[j]

\* The parts of a user's line are where LineParts says.
LEMMA PartsOfLine ==
  ASSUME NEW S, {MarkName, MarkUid, MarkRole, ")", "\n"} \subseteq S, NEW role \in S,
         NEW name \in Seq(S), NEW number \in Seq(S), NEW a, a = Len(name), NEW b, b = Len(number),
         NEW l, l = LineOf(name, number, role)
  PROVE  l \in Seq(S) /\ a \in Nat /\ b \in Nat /\ LineParts(l, name, a, number, b, role)
<1>1. PICK x0 \in S, x1 \in S, x2 \in S, x3 \in S, x4 \in S :
        x0 = MarkName /\ x1 = MarkUid /\ x2 = MarkRole /\ x3 = ")" /\ x4 = "\n"
  OBVIOUS
<1>2. PICK l0 : l0 = <<x0>>
  OBVIOUS
<1>3. PICK l1 : l1 = l0 \o name
  OBVIOUS
<1>4. PICK l2 : l2 = l1 \o <<x1>>
  OBVIOUS
<1>5. PICK l3 : l3 = l2 \o number
  OBVIOUS
<1>6. PICK l4 : l4 = l3 \o <<x2>>
  OBVIOUS
<1>7. PICK l5 : l5 = l4 \o <<role>>
  OBVIOUS
<1>8. PICK l6 : l6 = l5 \o <<x3>>
  OBVIOUS
<1>9. l = l6 \o <<x4>>
  BY <1>1, <1>2, <1>3, <1>4, <1>5, <1>6, <1>7, <1>8, Zenon DEF LineOf, MarkName, MarkUid, MarkRole
<1>10. a \in Nat /\ b \in Nat
  BY LenProperties
<1>11. PICK m0 : m0 = 1
  OBVIOUS
<1>12. PICK m1 : m1 = m0 + a
  OBVIOUS
<1>13. PICK m2 : m2 = m1 + 1
  OBVIOUS
<1>14. PICK m3 : m3 = m2 + b
  OBVIOUS
<1>15. PICK m4 : m4 = m3 + 1
  OBVIOUS
<1>16. PICK m5 : m5 = m4 + 1
  OBVIOUS
<1>17. PICK m6 : m6 = m5 + 1
  OBVIOUS
<1>18. l0 \in Seq(S) /\ m0 = Len(l0) /\ l0[m0] = x0 /\ 1 = m0
  BY <1>2, <1>11
<1>19. /\ l1 \in Seq(S) /\ m1 = Len(l1)
       /\ (\A p \in 1..m0 : l1[p] = l0[p]) /\ \A j \in 1..a : l1[m0+j] = name[j]
  BY <1>3, <1>12, <1>18, JoinedPlaces
<1>20. l2 \in Seq(S) /\ m2 = Len(l2) /\ l2[m2] = x1 /\ \A p \in 1..m1 : l2[p] = l1[p]
  BY <1>4, <1>13, <1>19, JoinedOne
<1>21. /\ l3 \in Seq(S) /\ m3 = Len(l3)
       /\ (\A p \in 1..m2 : l3[p] = l2[p]) /\ \A j \in 1..b : l3[m2+j] = number[j]
  BY <1>5, <1>14, <1>20, JoinedPlaces
<1>22. l4 \in Seq(S) /\ m4 = Len(l4) /\ l4[m4] = x2 /\ \A p \in 1..m3 : l4[p] = l3[p]
  BY <1>6, <1>15, <1>21, JoinedOne
<1>23. l5 \in Seq(S) /\ m5 = Len(l5) /\ l5[m5] = role /\ \A p \in 1..m4 : l5[p] = l4[p]
  BY <1>7, <1>16, <1>22, JoinedOne
<1>24. l6 \in Seq(S) /\ m6 = Len(l6) /\ l6[m6] = x3 /\ \A p \in 1..m5 : l6[p] = l5[p]
  BY <1>8, <1>17, <1>23, JoinedOne
<1>25. l \in Seq(S) /\ Len(l) = m6 + 1 /\ l[m6+1] = x4 /\ \A p \in 1..m6 : l[p] = l6[p]
  BY <1>9, <1>24, JoinedOne
<1>26. /\ m0 = 1 /\ m1 = a + 1 /\ m2 = a + 2 /\ m3 = a + b + 2 /\ m4 = a + b + 3 /\ m5 = a + b + 4
       /\ m6 = a + b + 5 /\ m6 + 1 = a + b + 6 /\ m2 = a + 2
  BY <1>10, <1>11, <1>12, <1>13, <1>14, <1>15, <1>16, <1>17
<1>27. /\ \A p \in 1..m5 : p \in 1..m6
       /\ \A p \in 1..m4 : p \in 1..m5
       /\ \A p \in 1..m3 : p \in 1..m4
       /\ \A p \in 1..m2 : p \in 1..m3
       /\ \A p \in 1..m1 : p \in 1..m2
       /\ \A p \in 1..m0 : p \in 1..m1
       /\ m0 \in 1..m0 /\ m2 \in 1..m2 /\ m4 \in 1..m4 /\ m5 \in 1..m5 /\ m6 \in 1..m6
  BY <1>10, <1>26
<1>28. /\ \A p \in 1..m5 : l[p] = l5[p]
       /\ \A p \in 1..m4 : l[p] = l4[p]
       /\ \A p \in 1..m3 : l[p] = l3[p]
  BY <1>23, <1>24, <1>25, <1>22, <1>27
<1>29. /\ \A p \in 1..m2 : l[p] = l2[p]
       /\ \A p \in 1..m1 : l[p] = l1[p]
       /\ \A p \in 1..m0 : l[p] = l0[p]
  BY <1>19, <1>20, <1>21, <1>27, <1>28
<1>30. l[m0] = x0 /\ l[m2] = x1 /\ l[m4] = x2 /\ l[m5] = role /\ l[m6] = x3 /\ l[m6+1] = x4
  BY <1>18, <1>20, <1>22, <1>23, <1>24, <1>25, <1>27, <1>28, <1>29
<1>31. ASSUME NEW j \in 1..a PROVE l[1+j] = name[j]
  <2>1. m0 + j \in 1..m1 /\ m0 + j = 1 + j
    BY <1>10, <1>26
  <2> QED
    BY <1>19, <1>29, <2>1
<1>32. ASSUME NEW j \in 1..b PROVE l[a+2+j] = number[j]
  <2>1. m2 + j \in 1..m3 /\ m2 + j = a + 2 + j
    BY <1>10, <1>26
  <2> QED
    BY <1>21, <1>28, <2>1
<1> QED
  BY <1>1, <1>10, <1>25, <1>26, <1>30, <1>31, <1>32 DEF LineParts

\* Each mark stands in one place of the line.
LEMMA MarksOfLine ==
  ASSUME NEW l, NEW name, NEW a \in Nat, NEW number, NEW b \in Nat, NEW role \in {"admin", "user"},
         LineParts(l, name, a, number, b, role),
         \A j \in 1..a : name[j] \notin Wording, \A j \in 1..b : number[j] \in DecimalDigit
  PROVE  \A j \in 1 .. a + b + 6 :
           /\ l[j] = MarkName <=> j = 1
           /\ l[j] = MarkUid <=> j = a + 2
           /\ l[j] = MarkRole <=> j = a + b + 3
<1> SUFFICES ASSUME NEW j \in 1 .. a + b + 6
             PROVE  /\ l[j] = MarkName <=> j = 1
                    /\ l[j] = MarkUid <=> j = a + 2
                    /\ l[j] = MarkRole <=> j = a + b + 3
  OBVIOUS
<1>1. l[1] = MarkName /\ l[a+2] = MarkUid /\ l[a+b+3] = MarkRole
  BY DEF LineParts
<1>2. MarkName # MarkUid /\ MarkName # MarkRole /\ MarkUid # MarkRole
  BY MarksDiffer
<1>3. MarkName \in Wording /\ MarkUid \in Wording /\ MarkRole \in Wording
  BY MarksDiffer
<1>4. 1 # a + 2 /\ 1 # a + b + 3 /\ a + 2 # a + b + 3
  OBVIOUS
<1>5. CASE j \in {1, a + 2, a + b + 3}
  BY <1>1, <1>2, <1>4, <1>5
<1>6. ASSUME j \notin {1, a + 2, a + b + 3}
      PROVE  l[j] # MarkName /\ l[j] # MarkUid /\ l[j] # MarkRole
  <2>1. CASE j \in 2 .. a + 1
    <3>1. j - 1 \in 1..a /\ 1 + (j - 1) = j
      BY <2>1
    <3>2. l[j] = name[j-1]
      BY <3>1 DEF LineParts
    <3> QED
      BY <1>3, <3>1, <3>2
  <2>2. CASE j \in a + 3 .. a + b + 2
    <3>1. j - (a + 2) \in 1..b /\ a + 2 + (j - (a + 2)) = j
      BY <2>2
    <3>2. l[j] = number[j - (a + 2)]
      BY <3>1 DEF LineParts
    <3>3. l[j] \notin Wording
      BY <3>1, <3>2, DigitsArePlain
    <3> QED
      BY <1>3, <3>3
  <2>3. CASE j \in a + b + 4 .. a + b + 6
    <3>1. l[j] = role \/ l[j] = ")" \/ l[j] = "\n"
      <4>1. j = a + b + 4 \/ j = a + b + 5 \/ j = a + b + 6
        BY <2>3
      <4> QED
        BY <4>1 DEF LineParts
    <3> QED
      BY <3>1, MarksDiffer
  <2> QED
    BY <1>6, <2>1, <2>2, <2>3
<1> QED
  BY <1>5, <1>6

\* A mark that stands in one place of every line, and where the next one is.
OnceIn(mark, off, L, c) ==
  \A i \in 1..c : Len(L[i]) \in Nat /\ off[i] \in 1..Len(L[i])
                  /\ \A j \in 1..Len(L[i]) : L[i][j] = mark <=> j = off[i]

PlacesIn(text, c) == {p \in 1..Len(text) : text[p] = c}
PlacesAt(at, off, c) == {at[i-1] + off[i] : i \in 1..c}
NextAfter(P, from) == Min({k \in P : from < k})

\* A mark that each line has once is in the text once for each line.
LEMMA MarkPlaces ==
  ASSUME NEW c \in Nat, NEW L, NEW at, NEW text, LinesAt(at, text, L, c),
         NEW mark, text[1] # mark, text[2] # mark, NEW off, OnceIn(mark, off, L, c)
  PROVE  PlacesIn(text, mark) = PlacesAt(at, off, c)
<1>1. ASSUME NEW i \in 1..c
      PROVE  /\ at[i-1] \in Nat /\ at[i] \in Nat /\ at[c] \in Nat
             /\ at[i] = at[i-1] + Len(L[i]) /\ 2 =< at[i-1] /\ at[i] =< at[c]
             /\ Len(L[i]) \in Nat /\ off[i] \in 1..Len(L[i])
  <2>1. i - 1 \in 0..c /\ i \in 0..c /\ c \in 0..c /\ 0 \in 0..i-1 /\ i \in 0..c
    OBVIOUS
  <2>2. at[0] =< at[i-1] /\ at[i] =< at[c] /\ at[0] = 2
    BY <2>1 DEF LinesAt
  <2>3. at[i-1] \in Nat /\ at[i] \in Nat /\ at[c] \in Nat
    BY <2>1 DEF LinesAt
  <2> QED
    BY <2>2, <2>3 DEF LinesAt, OnceIn
<1>2. Len(text) = at[c]
  BY DEF LinesAt
<1>3. ASSUME NEW i \in 1..c
      PROVE  at[i-1] + off[i] \in 1..Len(text) /\ text[at[i-1] + off[i]] = mark
  <2>1. text[at[i-1] + off[i]] = L[i][off[i]] /\ L[i][off[i]] = mark
    BY <1>1 DEF LinesAt, OnceIn
  <2>2. at[i-1] + off[i] \in 1..at[c]
    <3>1. PICK x \in Nat, y \in Nat, z \in Nat : x = at[i-1] /\ y = at[i] /\ z = at[c]
      BY <1>1
    <3>2. PICK l \in Nat, o \in Nat : l = Len(L[i]) /\ o = off[i] /\ 1 =< o /\ o =< l
      BY <1>1
    <3>3. y = x + l /\ y =< z
      BY <1>1, <3>1, <3>2
    <3>4. x + o \in 1..z
      BY <3>2, <3>3
    <3> QED
      BY <3>1, <3>2, <3>4
  <2> QED
    BY <1>2, <2>1, <2>2
<1>4. ASSUME NEW p \in 1..Len(text), text[p] = mark
      PROVE  \E i \in 1..c : p = at[i-1] + off[i]
  <2>1. at[c] \in Nat
    BY DEF LinesAt
  <2>2. p \in 3..at[c]
    BY <1>2, <1>4, <2>1
  <2>3. PICK i \in 1..c : \E j \in 1..Len(L[i]) : p = at[i-1] + j
    BY <2>2 DEF LinesAt
  <2>4. PICK j \in 1..Len(L[i]) : p = at[i-1] + j
    BY <2>3
  <2>5. L[i][j] = mark
    BY <1>4, <2>4 DEF LinesAt
  <2>6. j = off[i]
    BY <2>5 DEF OnceIn
  <2> QED
    BY <2>4, <2>6
<1> DEFINE P == {at[i-1] + off[i] : i \in 1..c}
<1>5. \A p : p \in P <=> \E i \in 1..c : p = at[i-1] + off[i]
  OBVIOUS
<1> HIDE DEF P
<1>6. {p \in 1..Len(text) : text[p] = mark} = P
  BY <1>3, <1>4, <1>5
<1> QED
  BY <1>6 DEF P, PlacesIn, PlacesAt

\* The next mark behind the beginning of a line is that of the line.
LEMMA NextMark ==
  ASSUME NEW c \in Nat, NEW L, NEW at, NEW text, LinesAt(at, text, L, c),
         NEW mark, NEW off, OnceIn(mark, off, L, c),
         NEW i \in 1..c, off[i] > 1
  PROVE  NextAfter(PlacesAt(at, off, c), at[i-1] + 1) = at[i-1] + off[i]
<1>1. ASSUME NEW k \in 1..c
      PROVE  /\ at[k-1] \in Nat /\ at[k] \in Nat /\ at[k] = at[k-1] + Len(L[k])
             /\ Len(L[k]) \in Nat
             /\ off[k] \in Nat /\ 1 =< off[k] /\ off[k] =< Len(L[k])
  <2>1. k - 1 \in 0..c /\ k \in 0..c
    OBVIOUS
  <2>2. at[k-1] \in Nat /\ at[k] \in Nat
    BY <2>1 DEF LinesAt
  <2>3. Len(L[k]) \in Nat /\ off[k] \in 1..Len(L[k])
    BY DEF OnceIn
  <2> QED
    BY <2>2, <2>3 DEF LinesAt
<1>2. ASSUME NEW k \in 1..c, NEW h \in 0..k PROVE at[h] =< at[k]
  <2>1. k \in 0..c
    OBVIOUS
  <2> QED
    BY <2>1 DEF LinesAt
<1> DEFINE P == {at[k-1] + off[k] : k \in 1..c}
           Q == {k \in P : at[i-1] + 1 < k}
           x == at[i-1] + off[i]
<1>3. x \in Q
  BY <1>1
<1>4. Q \subseteq Int
  BY <1>1
<1>5. ASSUME NEW y \in Q PROVE x =< y
  <2>1. PICK k \in 1..c : y = at[k-1] + off[k]
    OBVIOUS
  <2>6. PICK ai \in Nat, bi \in Nat, li \in Nat, oi \in Nat :
          ai = at[i-1] /\ bi = at[i] /\ li = Len(L[i]) /\ oi = off[i] /\ 1 =< oi /\ oi =< li
    BY <1>1
  <2>7. PICK ak \in Nat, bk \in Nat, lk \in Nat, ok \in Nat :
          ak = at[k-1] /\ bk = at[k] /\ lk = Len(L[k]) /\ ok = off[k] /\ 1 =< ok /\ ok =< lk
    BY <1>1
  <2>8. bi = ai + li /\ bk = ak + lk
    BY <1>1, <2>6, <2>7
  <2>9. oi =< li /\ 1 =< ok /\ ok =< lk
    BY <2>6, <2>7
  <2>2. at[i-1] + 1 < at[k-1] + off[k]
    BY <2>1
  <2>3. CASE k < i
    <3>1. k \in 0..i-1 /\ (i - 1 = 0 \/ i - 1 \in 1..c)
      BY <2>3
    <3>2. at[k] =< at[i-1]
      BY <1>2, <2>3, <3>1
    <3>3. bk =< ai /\ ai + 1 < ak + ok
      BY <2>2, <2>6, <2>7, <3>2
    <3> QED
      BY <2>8, <2>9, <3>3
  <2>4. CASE k = i
    BY <1>1, <2>1, <2>4
  <2>5. CASE k > i
    <3>1. i \in 0..k-1 /\ k - 1 \in 1..c
      BY <2>5
    <3>2. at[i] =< at[k-1]
      BY <1>2, <3>1
    <3>3. bi =< ak
      BY <2>6, <2>7, <3>2
    <3>4. ai + oi =< ak + ok
      BY <2>8, <2>9, <3>3
    <3> QED
      BY <2>1, <2>6, <2>7, <3>4
  <2> QED
    BY <2>3, <2>4, <2>5
<1>7. NextAfter(PlacesAt(at, off, c), at[i-1] + 1) = Min(Q)
  BY DEF NextAfter, PlacesAt
<1> HIDE DEF Q, x
<1>6. Min(Q) = x
  BY <1>3, <1>4, <1>5, MinIs
<1> QED
  BY <1>6, <1>7 DEF x

\* What is cut out of a text that a string stands in.
Cut(text, f, l) == SubSeq(text, f + 1, f + l)

LEMMA CutIs ==
  ASSUME NEW S, NEW s \in Seq(S), NEW l, l = Len(s), NEW text, NEW f \in Nat,
         \A j \in 1..l : text[f+j] = s[j]
  PROVE  Cut(text, f, l) = s
<1> DEFINE m == f + 1
           n == f + l
<1>1. l \in Nat /\ s \in [1..l -> S]
  BY LenProperties
<1>10. m = f + 1 /\ n = f + l
  OBVIOUS
<1> HIDE DEF m, n
<1>2. m \in Int /\ n \in Int
  BY <1>1, <1>10
<1>3. ASSUME NEW i \in m..n PROVE text[i] \in S
  <2>1. i - f \in 1..l /\ f + (i - f) = i
    BY <1>1, <1>10
  <2>2. text[i] = s[i-f]
    BY <2>1
  <2> QED
    BY <1>1, <2>1, <2>2
<1>4. PICK u : u = SubSeq(text, m, n)
  OBVIOUS
<1>5. /\ u \in Seq(S) /\ Len(u) = IF m =< n THEN n-m+1 ELSE 0
      /\ \A i \in 1 .. n-m+1 : u[i] = text[m+i-1]
  BY <1>2, <1>3, <1>4, SubSeqProperties
<1>6. n-m+1 = l /\ (IF m =< n THEN n-m+1 ELSE 0) = l
  BY <1>1, <1>10
<1>7. ASSUME NEW i \in 1..l PROVE u[i] = s[i]
  <2>1. m+i-1 = f+i
    BY <1>1, <1>10
  <2> QED
    BY <1>5, <1>6, <2>1
<1>8. Len(u) = Len(s) /\ \A i \in 1..Len(u) : u[i] = s[i]
  BY <1>5, <1>6, <1>7
<1>9. u = s
  BY <1>5, <1>8, SeqEqual
<1> QED
  BY <1>4, <1>9 DEF Cut, m, n

\* As many members as lines, when no two lines have the same.
LEMMA OnePerLine ==
  ASSUME NEW c \in Nat, NEW f, DOMAIN f = 1..c,
         \A i, j \in 1..c : f[i] = f[j] => i = j
  PROVE  Cardinality({f[i] : i \in 1..c}) = c
<1> DEFINE T == {f[i] : i \in 1..c}
           g == [i \in 1..c |-> f[i]]
<1>1. g \in Bijection(1..c, T)
  BY DEF Bijection, Injection, Surjection, IsInjective
<1>2. ExistsBijection(1..c, T)
  BY <1>1 DEF ExistsBijection
<1> HIDE DEF T
<1>3. Cardinality(T) = c
  BY <1>2, FS_CountingElements
<1> QED
  BY <1>3 DEF T

\* The characters of the list, and the parts of an entry's line.
ListCharacter ==
  Character \cup DecimalDigit \cup {MarkName, MarkUid, MarkRole, ")", "\n", "Users:", "admin", "user"}
NumberIn(us, i) == print_number(us[i].uid, 10)
LineIn(us, i) == UserLine(us[i])
Row(l, name, number, u) ==
  /\ l \in Seq(ListCharacter) /\ name \in Seq(ListCharacter) /\ number \in Seq(ListCharacter)
  /\ Len(name) \in Nat /\ Len(number) \in Nat
  /\ LineParts(l, name, Len(name), number, Len(number), Role(u))
  /\ \A j \in 1..Len(name) : name[j] \notin Wording
  /\ \A j \in 1..Len(number) : number[j] \in DecimalDigit
  /\ Value(number) = u.uid
  /\ Role(u) \in {"admin", "user"} /\ u.is_admin = (Role(u) = "admin")

\* What a line of the table shows, and that its number is read as the uid.
LEMMA UserRow ==
  ASSUME UserInv, NEW i \in 0 .. user_count - 1
  PROVE  Row(LineIn(users, i), NameIn(users, i), NumberIn(users, i), users[i])
<1> DEFINE u == users[i]
           name == NameIn(users, i)
           number == NumberIn(users, i)
<1>1. /\ name \in UserName /\ u.uid \in FirstUid .. next_uid - 1 /\ u.is_admin \in BOOLEAN
      /\ next_uid \in FirstUid .. FirstUid + MaxAdds
  BY DEF UserInv, UserMemory, Given, NameIn
<1>2. u.uid \in Nat /\ u.uid < LONG \div 2 /\ LONG \in Nat
  <2>1. FirstUid \in Nat /\ MaxAdds \in Nat /\ LONG \in Nat
    BY TablesAssumption, ListingAssumption
  <2>2. LONG \div 2 \in Nat
    BY <2>1
  <2>3. FirstUid + MaxAdds =< LONG \div 2
    BY ListingAssumption
  <2> QED
    BY <1>1, <2>1, <2>2, <2>3
<1>3. name \in Seq(Character) /\ \A j \in DOMAIN name : name[j] \notin Wording
  BY <1>1, TablesAssumption, ListingAssumption DEF Character
<1>4. number \in Numerals /\ Value(number) = u.uid
  BY <1>2, NumberShown DEF NumberIn
<1>5. LineIn(users, i) = LineOf(name, number, Role(u))
  BY <1>2, UserLineIs DEF LineIn, NumberIn, NameIn
<1>6. Role(u) \in {"admin", "user"} /\ u.is_admin = (Role(u) = "admin")
  BY <1>1 DEF Role
<1> HIDE DEF u, name, number
<1>7. /\ {MarkName, MarkUid, MarkRole, ")", "\n"} \subseteq ListCharacter
      /\ Role(u) \in ListCharacter /\ Character \subseteq ListCharacter
      /\ DecimalDigit \subseteq ListCharacter
  BY <1>6 DEF ListCharacter
<1>8. name \in Seq(ListCharacter) /\ number \in Seq(ListCharacter)
  BY <1>3, <1>4, <1>7, SeqMonotonic DEF Numerals
<1>9. /\ LineIn(users, i) \in Seq(ListCharacter)
      /\ LineParts(LineIn(users, i), name, Len(name), number, Len(number), Role(u))
  BY <1>5, <1>7, <1>8, PartsOfLine
<1>10. /\ Len(name) \in Nat /\ Len(number) \in Nat
       /\ \A j \in 1..Len(name) : name[j] \notin Wording
       /\ \A j \in 1..Len(number) : number[j] \in DecimalDigit
  BY <1>3, <1>4, LenProperties DEF Numerals
<1> QED
  BY <1>4, <1>6, <1>8, <1>9, <1>10 DEF Row, u, name, number

\* Who reads the list finds the accounts: the marks of the lines delimit the parts.
LEMMA UsersAreListed ==
  ASSUME UserInv,
         console = <<"Users:", "\n">> \o FlattenSeq([i \in 1..user_count |-> UserLine(users[i-1])])
  PROVE  /\ Cardinality(Places("  ")) = Cardinality(AccountSet)
         /\ {UserShown(from) : from \in Places("  ")} =
              {[username |-> a.username, uid |-> a.uid, is_admin |-> a.is_admin] : a \in AccountSet}
<1> DEFINE c == user_count
           L == [i \in 1..c |-> LineIn(users, i-1)]
           name(i) == NameIn(users, i-1)
           number(i) == NumberIn(users, i-1)
           u(i) == users[i-1]
           a(i) == Len(name(i))
           b(i) == Len(number(i))
           offName == [i \in 1..c |-> 1]
           offUid == [i \in 1..c |-> a(i) + 2]
           offRole == [i \in 1..c |-> a(i) + b(i) + 3]
<1>1. c \in Nat
  BY DEF UserInv, UserMemory
<1>2. ASSUME NEW i \in 1..c PROVE Row(L[i], name(i), number(i), u(i))
  <2>1. i - 1 \in 0 .. user_count - 1
    BY <1>1
  <2> QED
    BY <2>1, UserRow
<1>3. console = <<"Users:", "\n">> \o FlattenSeq(L)
  BY DEF LineIn
<1>4. L \in [1..c -> Seq(ListCharacter)]
  BY <1>2 DEF Row
<1>5. "Users:" \in ListCharacter /\ "\n" \in ListCharacter
  BY DEF ListCharacter
<1> HIDE DEF c, L, name, number, u, a, b, offName, offUid, offRole
<1>22. (\E at : LinesAt(at, console, L, c)) /\ console[1] = "Users:" /\ console[2] = "\n"
  <2>1. PICK x \in ListCharacter, y \in ListCharacter : x = "Users:" /\ y = "\n"
    BY <1>5
  <2>6. <<x, y>> \in Seq(ListCharacter) /\ Len(<<x, y>>) = 2
    OBVIOUS
  <2>2. PICK head : head = <<x, y>>
    OBVIOUS
  <2>3. head \in Seq(ListCharacter) /\ Len(head) = 2 /\ head[1] = x /\ head[2] = y
    BY <2>2, <2>6
  <2>4. console = head \o FlattenSeq(L)
    BY <1>3, <2>1, <2>2
  <2>5. LinesIn(console, head, L, c)
    BY <1>1, <1>4, <2>3, <2>4, LinesLie, Zenon
  <2> QED
    BY <2>1, <2>3, <2>5 DEF LinesIn
<1>6. PICK at : LinesAt(at, console, L, c)
  BY <1>22
<1>7. console[1] = "Users:" /\ console[2] = "\n"
  BY <1>22
<1>8. ASSUME NEW mark \in {MarkName, MarkUid, MarkRole}
      PROVE  console[1] # mark /\ console[2] # mark
  BY <1>7, MarksDiffer
<1>9. ASSUME NEW i \in 1..c
      PROVE  /\ a(i) \in Nat /\ b(i) \in Nat /\ Len(L[i]) = a(i) + b(i) + 6
             /\ \A j \in 1 .. a(i) + b(i) + 6 :
                  /\ L[i][j] = MarkName <=> j = 1
                  /\ L[i][j] = MarkUid <=> j = a(i) + 2
                  /\ L[i][j] = MarkRole <=> j = a(i) + b(i) + 3
  <2>1. /\ a(i) \in Nat /\ b(i) \in Nat /\ Role(u(i)) \in {"admin", "user"}
        /\ LineParts(L[i], name(i), a(i), number(i), b(i), Role(u(i)))
        /\ \A j \in 1..a(i) : name(i)[j] \notin Wording
        /\ \A j \in 1..b(i) : number(i)[j] \in DecimalDigit
    BY <1>2 DEF Row, a, b
  <2>2. Len(L[i]) = a(i) + b(i) + 6
    BY <2>1 DEF LineParts
  <2>3. PICK x \in Nat, y \in Nat, role \in {"admin", "user"} : x = a(i) /\ y = b(i) /\ role = Role(u(i))
    BY <2>1
  <2>6. PICK l : l = L[i]
    OBVIOUS
  <2>7. PICK s : s = name(i)
    OBVIOUS
  <2>8. PICK t : t = number(i)
    OBVIOUS
  <2>4. /\ LineParts(l, s, x, t, y, role)
        /\ \A j \in 1..x : s[j] \notin Wording
        /\ \A j \in 1..y : t[j] \in DecimalDigit
    BY <2>1, <2>3, <2>6, <2>7, <2>8
  <2>5. \A j \in 1 .. x + y + 6 :
          /\ l[j] = MarkName <=> j = 1
          /\ l[j] = MarkUid <=> j = x + 2
          /\ l[j] = MarkRole <=> j = x + y + 3
    BY <2>4, MarksOfLine
  <2> QED
    BY <2>1, <2>2, <2>3, <2>5, <2>6
<1>10. OnceIn(MarkName, offName, L, c) /\ OnceIn(MarkUid, offUid, L, c) /\ OnceIn(MarkRole, offRole, L, c)
  <2> SUFFICES ASSUME NEW i \in 1..c
               PROVE  /\ Len(L[i]) \in Nat
                      /\ offName[i] \in 1..Len(L[i]) /\ offUid[i] \in 1..Len(L[i])
                      /\ offRole[i] \in 1..Len(L[i])
                      /\ \A j \in 1..Len(L[i]) : /\ L[i][j] = MarkName <=> j = offName[i]
                                                 /\ L[i][j] = MarkUid <=> j = offUid[i]
                                                 /\ L[i][j] = MarkRole <=> j = offRole[i]
    BY DEF OnceIn
  <2>1. offName[i] = 1 /\ offUid[i] = a(i) + 2 /\ offRole[i] = a(i) + b(i) + 3
    BY DEF offName, offUid, offRole
  <2>2. PICK x \in Nat, y \in Nat : x = a(i) /\ y = b(i)
    BY <1>9
  <2>3. x + y + 6 \in Nat /\ 1 \in 1..x+y+6 /\ x + 2 \in 1..x+y+6 /\ x + y + 3 \in 1..x+y+6
    OBVIOUS
  <2>4. PICK l : l = L[i]
    OBVIOUS
  <2>5. /\ Len(l) = x + y + 6
        /\ \A j \in 1 .. x + y + 6 : /\ l[j] = MarkName <=> j = 1
                                     /\ l[j] = MarkUid <=> j = x + 2
                                     /\ l[j] = MarkRole <=> j = x + y + 3
    BY <1>9, <2>2, <2>4
  <2>6. offName[i] = 1 /\ offUid[i] = x + 2 /\ offRole[i] = x + y + 3
    BY <2>1, <2>2
  <2> QED
    BY <2>3, <2>4, <2>5, <2>6
<1>11. /\ Places(MarkName) = PlacesAt(at, offName, c)
       /\ Places(MarkUid) = PlacesAt(at, offUid, c)
       /\ Places(MarkRole) = PlacesAt(at, offRole, c)
  <2>1. ASSUME NEW mark \in {MarkName, MarkUid, MarkRole}, NEW off, OnceIn(mark, off, L, c)
        PROVE  Places(mark) = PlacesAt(at, off, c)
    <3>1. PICK text : text = console
      OBVIOUS
    <3>2. LinesAt(at, text, L, c) /\ text[1] # mark /\ text[2] # mark
      BY <1>6, <1>8, <3>1
    <3>3. PlacesIn(text, mark) = PlacesAt(at, off, c)
      BY <1>1, <2>1, <3>2, MarkPlaces
    <3> QED
      BY <3>1, <3>3 DEF Places, PlacesIn
  <2> QED
    BY <1>10, <2>1
<1>12. ASSUME NEW i \in 1..c
       PROVE  /\ NextPlace(at[i-1] + 1, MarkUid) = at[i-1] + (a(i) + 2)
              /\ NextPlace(at[i-1] + 1, MarkRole) = at[i-1] + (a(i) + b(i) + 3)
  <2>1. /\ offUid[i] = a(i) + 2 /\ offRole[i] = a(i) + b(i) + 3
        /\ offUid[i] > 1 /\ offRole[i] > 1
    BY <1>9 DEF offUid, offRole
  <2>2. PICK text : text = console
    OBVIOUS
  <2>3. LinesAt(at, text, L, c)
    BY <1>6, <2>2
  <2>4. NextAfter(PlacesAt(at, offUid, c), at[i-1] + 1) = at[i-1] + offUid[i]
    BY <1>1, <1>10, <2>1, <2>3, NextMark
  <2>5. NextAfter(PlacesAt(at, offRole, c), at[i-1] + 1) = at[i-1] + offRole[i]
    BY <1>1, <1>10, <2>1, <2>3, NextMark
  <2> QED
    BY <1>11, <2>1, <2>4, <2>5 DEF NextPlace, NextAfter
<1>13. ASSUME NEW i \in 1..c
       PROVE  UserShown(at[i-1] + 1) =
                [username |-> name(i), uid |-> u(i).uid, is_admin |-> u(i).is_admin]
  <2>1. PICK x \in Nat, y \in Nat, f \in Nat : x = a(i) /\ y = b(i) /\ f = at[i-1]
    <3>1. i - 1 \in 0..c
      BY <1>1
    <3> QED
      BY <1>6, <1>9, <3>1 DEF LinesAt
  <2>2. /\ NextPlace(f + 1, MarkUid) = f + (x + 2)
        /\ NextPlace(f + 1, MarkRole) = f + (x + y + 3)
    BY <1>12, <2>1
  <2>3. /\ name(i) \in Seq(ListCharacter) /\ number(i) \in Seq(ListCharacter)
        /\ x = Len(name(i)) /\ y = Len(number(i))
        /\ LineParts(L[i], name(i), x, number(i), y, Role(u(i)))
        /\ Value(number(i)) = u(i).uid /\ u(i).is_admin = (Role(u(i)) = "admin")
    BY <1>2, <2>1 DEF Row, a, b
  <2>4. Len(L[i]) = x + y + 6 /\ \A j \in 1 .. x + y + 6 : console[f + j] = L[i][j]
    BY <1>6, <1>9, <2>1 DEF LinesAt
  <2>5. ASSUME NEW j \in 1..x PROVE console[(f + 1) + j] = name(i)[j]
    <3>1. 1 + j \in 1 .. x + y + 6 /\ f + (1 + j) = (f + 1) + j
      OBVIOUS
    <3> QED
      BY <2>3, <2>4, <3>1 DEF LineParts
  <2>6. ASSUME NEW j \in 1..y PROVE console[(f + x + 2) + j] = number(i)[j]
    <3>1. x + 2 + j \in 1 .. x + y + 6 /\ f + (x + 2 + j) = (f + x + 2) + j
      OBVIOUS
    <3> QED
      BY <2>3, <2>4, <3>1 DEF LineParts
  <2>7. console[f + (x + y + 3) + 1] = Role(u(i))
    <3>1. x + y + 4 \in 1 .. x + y + 6 /\ f + (x + y + 4) = f + (x + y + 3) + 1
      OBVIOUS
    <3> QED
      BY <2>3, <2>4, <3>1 DEF LineParts
  <2>8. Cut(console, f + 1, x) = name(i)
    <3>1. PICK g \in Nat : g = f + 1
      OBVIOUS
    <3>2. \A j \in 1..x : console[g + j] = name(i)[j]
      BY <2>5, <3>1
    <3> QED
      BY <2>3, <3>1, <3>2, CutIs
  <2>9. Cut(console, f + x + 2, y) = number(i)
    <3>1. PICK g \in Nat : g = f + x + 2
      OBVIOUS
    <3>2. \A j \in 1..y : console[g + j] = number(i)[j]
      BY <2>6, <3>1
    <3> QED
      BY <2>3, <3>1, <3>2, CutIs
  <2>10. UserShown(f + 1) =
           [username |-> SubSeq(console, (f + 1) + 1, NextPlace(f + 1, MarkUid) - 1),
            uid |-> Value(SubSeq(console, NextPlace(f + 1, MarkUid) + 1, NextPlace(f + 1, MarkRole) - 1)),
            is_admin |-> console[NextPlace(f + 1, MarkRole) + 1] = "admin"]
    BY Zenon DEF UserShown, MarkUid, MarkRole
  <2>11. PICK p : p = NextPlace(f + 1, MarkUid)
    OBVIOUS
  <2>12. PICK q : q = NextPlace(f + 1, MarkRole)
    OBVIOUS
  <2>13. /\ p - 1 = (f + 1) + x /\ p + 1 = (f + x + 2) + 1 /\ q - 1 = (f + x + 2) + y
         /\ q + 1 = f + (x + y + 3) + 1
    BY <2>2, <2>11, <2>12
  <2>14. /\ SubSeq(console, (f + 1) + 1, p - 1) = name(i)
         /\ SubSeq(console, p + 1, q - 1) = number(i)
    BY <2>8, <2>9, <2>13 DEF Cut
  <2>15. console[q + 1] = Role(u(i))
    BY <2>7, <2>13
  <2> QED
    BY <2>1, <2>3, <2>10, <2>11, <2>12, <2>14, <2>15
<1>14. ASSUME NEW i \in 1..c, NEW k \in 1..c, at[i-1] + offName[i] = at[k-1] + offName[k]
       PROVE  i = k
  <2>1. ASSUME NEW g \in 1..c, NEW h \in 1..c, g < h
        PROVE  at[g-1] + offName[g] # at[h-1] + offName[h]
    <3>1. /\ g - 1 \in 0..c /\ h - 1 \in 0..c /\ g \in 0..h-1
      BY <1>1, <2>1
    <3>2. at[g] =< at[h-1] /\ at[g-1] \in Nat /\ at[h-1] \in Nat /\ at[g] = at[g-1] + Len(L[g])
      BY <1>6, <3>1 DEF LinesAt
    <3>3. PICK x \in Nat, y \in Nat : x = a(g) /\ y = b(g)
      BY <1>9
    <3>4. PICK p \in Nat, q \in Nat, o \in Nat : p = at[g-1] /\ q = at[h-1] /\ o = at[g]
      <4>1. at[g] \in Nat
        BY <1>6 DEF LinesAt
      <4> QED
        BY <3>2, <4>1
    <3>9. PICK l : l = Len(L[g])
      OBVIOUS
    <3>5. l = x + y + 6
      BY <1>9, <3>3, <3>9
    <3>6. o =< q /\ o = p + l
      BY <3>2, <3>4, <3>9
    <3>7. p + 1 # q + 1
      BY <3>5, <3>6
    <3>8. offName[g] = 1 /\ offName[h] = 1
      BY DEF offName
    <3> QED
      BY <3>4, <3>7, <3>8
  <2> QED
    BY <1>14, <2>1
<1>15. Cardinality(Places(MarkName)) = c
  <2> DEFINE f == [i \in 1..c |-> at[i-1] + offName[i]]
  <2>1. Cardinality({f[i] : i \in 1..c}) = c
    <3>1. DOMAIN f = 1..c /\ \A i, k \in 1..c : f[i] = f[k] => i = k
      BY <1>14
    <3> HIDE DEF f
    <3> QED
      BY <1>1, <3>1, OnePerLine
  <2>2. {f[i] : i \in 1..c} = {at[i-1] + offName[i] : i \in 1..c}
    OBVIOUS
  <2> QED
    BY <1>11, <2>1, <2>2 DEF PlacesAt
<1>16. AccountSet = {AccountOf(u(i)) : i \in 1..c}
  <2>1. \A i \in 1..c : i - 1 \in 0 .. c-1
    BY <1>1
  <2>2. \A i \in 0 .. c-1 : i + 1 \in 1..c /\ (i + 1) - 1 = i
    BY <1>1
  <2>3. \A i \in 0 .. c-1 : users[i] = u(i+1)
    BY <2>2 DEF u
  <2> QED
    BY <2>1, <2>2, <2>3 DEF AccountSet, c, u
<1>17. \A i \in 1..c : AccountOf(u(i)).username = name(i) /\ AccountOf(u(i)).uid = u(i).uid
                       /\ AccountOf(u(i)).is_admin = u(i).is_admin
  BY DEF AccountOf, name, NameIn, u
<1>18. Cardinality(AccountSet) = c
  <2> DEFINE f == [i \in 1..c |-> AccountOf(u(i))]
  <2>1. ASSUME NEW i \in 1..c, NEW k \in 1..c, f[i] = f[k]
        PROVE  i = k
    <3>1. name(i) = name(k)
      BY <1>17, <2>1
    <3>2. i - 1 \in 0 .. c-1 /\ k - 1 \in 0 .. c-1
      BY <1>1
    <3>3. i - 1 = k - 1
      BY <3>1, <3>2 DEF UserInv, OneEach, c, name
    <3> QED
      BY <3>3
  <2>2. Cardinality({f[i] : i \in 1..c}) = c
    <3>1. DOMAIN f = 1..c /\ \A i, k \in 1..c : f[i] = f[k] => i = k
      BY <2>1
    <3> HIDE DEF f
    <3> QED
      BY <1>1, <3>1, OnePerLine
  <2>3. {f[i] : i \in 1..c} = {AccountOf(u(i)) : i \in 1..c}
    OBVIOUS
  <2> QED
    BY <1>16, <2>2, <2>3
<1> DEFINE shownAt(x) == [username |-> x.username, uid |-> x.uid, is_admin |-> x.is_admin]
<1>19. \A i \in 1..c : shownAt(AccountOf(u(i))) = UserShown(at[i-1] + 1)
  BY <1>13, <1>17
<1>20. Places(MarkName) = {at[i-1] + 1 : i \in 1..c}
  BY <1>11 DEF offName, PlacesAt
<1>21. {UserShown(from) : from \in Places(MarkName)} = {shownAt(x) : x \in AccountSet}
  <2> HIDE DEF shownAt
  <2>1. {UserShown(from) : from \in Places(MarkName)} = {UserShown(at[i-1] + 1) : i \in 1..c}
    BY <1>20
  <2>2. {shownAt(x) : x \in AccountSet} = {shownAt(AccountOf(u(i))) : i \in 1..c}
    BY <1>16
  <2> QED
    BY <1>19, <2>1, <2>2
<1> QED
  BY <1>15, <1>18, <1>21, Zenon DEF MarkName

-----------------------------------------------------------------------------
(***************************************************************************)
(* What ls shows.                                                          *)
(***************************************************************************)
\* The line ends of a text are where its lines end, and the heading's.
EndOnly(L, c) ==
  \A i \in 1..c : Len(L[i]) \in Nat \ {0}
                  /\ \A j \in 1..Len(L[i]) : L[i][j] = "\n" <=> j = Len(L[i])
EndsAt(at, c) == {at[i] : i \in 0..c}
Ahead(P, j) == Max({0} \cup {k \in P : k < j})

\* The line breaks, each with the one ahead of it.
LEMMA LineEnds ==
  ASSUME NEW c \in Nat, NEW L, NEW at, NEW text, LinesAt(at, text, L, c), EndOnly(L, c),
         text[1] # "\n", text[2] = "\n"
  PROVE  /\ PlacesIn(text, "\n") = EndsAt(at, c)
         /\ \A i \in 1..c : at[i-1] < at[i] /\ Ahead(EndsAt(at, c), at[i]) = at[i-1]
<1>1. ASSUME NEW i \in 0..c PROVE at[i] \in Nat /\ 2 =< at[i] /\ at[i] =< at[c]
  <2>1. c \in 0..c /\ 0 \in 0..i /\ i \in 0..c
    OBVIOUS
  <2> QED
    BY <2>1 DEF LinesAt
<1>2. ASSUME NEW i \in 1..c
      PROVE  /\ i - 1 \in 0..c /\ i \in 0..c /\ Len(L[i]) \in Nat \ {0}
             /\ at[i] = at[i-1] + Len(L[i])
  BY DEF LinesAt, EndOnly
<1>3. ASSUME NEW i \in 1..c PROVE at[i-1] < at[i]
  <2>1. PICK x \in Nat, y \in Nat, l \in Nat \ {0} : x = at[i-1] /\ y = at[i] /\ l = Len(L[i])
    BY <1>1, <1>2
  <2>2. y = x + l
    BY <1>2, <2>1
  <2>3. x < y
    BY <2>2
  <2> QED
    BY <2>1, <2>3
<1>4. Len(text) = at[c] /\ at[c] \in Nat /\ at[0] = 2
  <2>1. c \in 0..c
    OBVIOUS
  <2> QED
    BY <1>1, <2>1 DEF LinesAt
<1>5. ASSUME NEW i \in 0..c PROVE at[i] \in 1..Len(text) /\ text[at[i]] = "\n"
  <2>1. at[i] \in 1..Len(text)
    BY <1>1, <1>4
  <2>2. CASE i = 0
    BY <1>4, <2>1, <2>2
  <2>3. CASE i # 0
    <3>1. i \in 1..c
      BY <2>3
    <3>2. Len(L[i]) \in 1..Len(L[i])
      BY <1>2, <3>1
    <3>3. L[i][Len(L[i])] = "\n"
      BY <3>1, <3>2 DEF EndOnly
    <3>4. text[at[i-1] + Len(L[i])] = L[i][Len(L[i])]
      BY <3>1, <3>2 DEF LinesAt
    <3> QED
      BY <1>2, <2>1, <3>1, <3>3, <3>4
  <2> QED
    BY <2>2, <2>3
<1>6. ASSUME NEW p \in 1..Len(text), text[p] = "\n" PROVE \E i \in 0..c : p = at[i]
  <2>1. CASE p < 3
    <3>1. p = 2
      BY <1>6, <2>1
    <3>2. 0 \in 0..c
      OBVIOUS
    <3> QED
      BY <1>4, <3>1, <3>2
  <2>2. CASE ~(p < 3)
    <3>1. p \in 3..at[c]
      BY <1>4, <2>2
    <3>2. PICK i \in 1..c : \E j \in 1..Len(L[i]) : p = at[i-1] + j
      BY <3>1 DEF LinesAt
    <3>3. PICK j \in 1..Len(L[i]) : p = at[i-1] + j
      BY <3>2
    <3>4. L[i][j] = "\n"
      BY <1>6, <3>3 DEF LinesAt
    <3>5. j = Len(L[i])
      BY <3>4 DEF EndOnly
    <3>6. p = at[i] /\ i \in 0..c
      BY <1>2, <3>3, <3>5
    <3> QED
      BY <3>6
  <2> QED
    BY <2>1, <2>2
<1>7. PlacesIn(text, "\n") = EndsAt(at, c)
  <2>1. \A p : p \in EndsAt(at, c) <=> \E i \in 0..c : p = at[i]
    BY DEF EndsAt
  <2> QED
    BY <1>5, <1>6, <2>1 DEF PlacesIn
<1>8. ASSUME NEW i \in 1..c PROVE Ahead(EndsAt(at, c), at[i]) = at[i-1]
  <2> DEFINE Q == {0} \cup {k \in EndsAt(at, c) : k < at[i]}
  <2>1. at[i-1] \in Q
    BY <1>2, <1>3 DEF EndsAt
  <2>2. Q \subseteq Int
    BY <1>1 DEF EndsAt
  <2>3. ASSUME NEW y \in Q PROVE y =< at[i-1]
    <3>1. CASE y = 0
      BY <1>1, <1>2, <3>1
    <3>2. CASE y # 0
      <4>1. PICK k \in 0..c : y = at[k] /\ at[k] < at[i]
        BY <3>2 DEF EndsAt
      <4>2. CASE k < i
        <5>1. k \in 0..i-1 /\ i - 1 \in 0..c
          BY <4>2
        <5> QED
          BY <4>1, <5>1 DEF LinesAt
      <4>3. CASE ~(k < i)
        <5>1. i \in 0..k
          BY <4>3
        <5>2. at[i] =< at[k]
          BY <5>1 DEF LinesAt
        <5>3. at[i] \in Nat /\ at[k] \in Nat
          BY <1>1, <1>2
        <5> QED
          BY <4>1, <5>2, <5>3
      <4> QED
        BY <4>2, <4>3
    <3> QED
      BY <3>1, <3>2
  <2>4. Ahead(EndsAt(at, c), at[i]) = Max(Q)
    BY DEF Ahead
  <2> HIDE DEF Q
  <2> QED
    BY <2>1, <2>2, <2>3, <2>4, MaxIs
<1> QED
  BY <1>3, <1>7, <1>8

\* The lines of a name are found place by place.
LinePart(n, j) ==
  IF j \in Places("\n") /\ LineTo(j) \in {n, Append(n, "/")} THEN <<LineTo(j)>> ELSE <<>>
FindsLines(f, n, len) == f[0] = <<>> /\ \A j \in 1..len : f[j] = f[j-1] \o LinePart(n, j)

\* LinesOf walks the text place by place.
LEMMA LinesFound ==
  ASSUME NEW n, NEW len \in Nat, len = Len(console)
  PROVE  \E f : FindsLines(f, n, len) /\ LinesOf(n) = f[len]
<1> DEFINE S == {LineTo(j) : j \in 1..len}
           part == [j \in 1..len |-> LinePart(n, j)]
           Rec(lines) == [j \in 0..len |-> IF j = 0 THEN <<>> ELSE lines[j-1] \o LinePart(n, j)]
           f == CHOOSE lines : lines = Rec(lines)
<1>1. part \in [1..len -> Seq(S)]
  <2> SUFFICES ASSUME NEW j \in 1..len PROVE LinePart(n, j) \in Seq(S)
    OBVIOUS
  <2>1. PICK x \in S : x = LineTo(j)
    OBVIOUS
  <2> HIDE DEF S
  <2>2. <<x>> \in Seq(S) /\ <<>> \in Seq(S)
    OBVIOUS
  <2>3. LinePart(n, j) = <<x>> \/ LinePart(n, j) = <<>>
    BY <2>1 DEF LinePart
  <2> QED
    BY <2>2, <2>3
<1> HIDE DEF S
<1>2. PICK w : Joins(w, S, part, len)
  BY <1>1, FlattenJoins
<1>3. w = Rec(w)
  <2>1. w = [j \in 0..len |-> w[j]]
    BY <1>2 DEF Joins
  <2>2. ASSUME NEW j \in 0..len PROVE w[j] = IF j = 0 THEN <<>> ELSE w[j-1] \o LinePart(n, j)
    <3>1. CASE j = 0
      BY <1>2, <3>1 DEF Joins
    <3>2. CASE j # 0
      <4>1. j \in 1..len
        BY <3>2
      <4>2. part[j] = LinePart(n, j)
        BY <4>1
      <4> HIDE DEF part
      <4> QED
        BY <1>2, <3>2, <4>1, <4>2 DEF Joins
    <3> QED
      BY <3>1, <3>2
  <2> HIDE DEF part
  <2> QED
    BY <2>1, <2>2
<1>4. f = Rec(f)
  <2> HIDE DEF Rec, part
  <2> QED
    BY <1>3
<1>5. LinesOf(n) = f[len]
  BY Zenon DEF LinesOf, LinePart
<1> HIDE DEF f
<1>6. \A j \in 0..len : f[j] = IF j = 0 THEN <<>> ELSE f[j-1] \o LinePart(n, j)
  BY <1>4, Zenon
<1>7. FindsLines(f, n, len)
  <2>1. 0 \in 0..len /\ \A j \in 1..len : j \in 0..len /\ j # 0
    OBVIOUS
  <2> QED
    BY <1>6, <2>1 DEF FindsLines
<1> QED
  BY <1>5, <1>7

\* Nothing is put behind between two places.
Steps(f, part, a, b, s) ==
  /\ a \in Nat /\ b \in Nat /\ a < b /\ f[a] = s
  /\ \A j \in a+1 .. b : f[j] = f[j-1] \o part[j]
  /\ \A j \in a+1 .. b-1 : part[j] = <<>>
LEMMA Stretch ==
  ASSUME NEW S, NEW s \in Seq(S), NEW f, NEW part, NEW a, NEW b, Steps(f, part, a, b, s)
  PROVE  f[b] = s \o part[b]
<1> a \in Nat /\ b \in Nat /\ a < b /\ f[a] = s
  BY DEF Steps
<1> DEFINE T == {k \in Nat : a + k < b => f[a+k] = f[a]}
<1>1. 0 \in T
  OBVIOUS
<1>2. ASSUME NEW k \in Nat, k \in T PROVE k + 1 \in T
  <2> SUFFICES ASSUME a + (k + 1) < b PROVE f[a+(k+1)] = f[a]
    OBVIOUS
  <2>1. f[a+k] = f[a]
    BY <1>2
  <2>2. a + (k + 1) \in a+1 .. b /\ a + (k + 1) \in a+1 .. b-1 /\ (a + (k + 1)) - 1 = a + k
    OBVIOUS
  <2>3. f[a+(k+1)] = f[a+k] \o <<>>
    BY <2>2 DEF Steps
  <2> QED
    BY <2>1, <2>3
<1>3. T \in SUBSET Nat
  OBVIOUS
<1> HIDE DEF T
<1>4. T = Nat
  BY <1>1, <1>2, <1>3, AllNumbers
<1>5. (b - 1) - a \in Nat /\ a + ((b - 1) - a) = b - 1 /\ b - 1 < b /\ b \in a+1 .. b
  OBVIOUS
<1>6. f[b-1] = f[a]
  BY <1>4, <1>5 DEF T
<1> QED
  BY <1>5, <1>6 DEF Steps

\* What ls shows of a file.
FileCharacter == Character \cup {"/", "\n", "Files:"}
ShownName(file) == IF IsDirectory(file) THEN Append(Text(file, NAME), "/") ELSE Text(file, NAME)

\* A file's line is the name it is shown by, without a line break within.
LEMMA FileRow ==
  ASSUME FileInv, NEW i \in 0 .. file_count - 1, NEW s, s = ShownName(file_list[i])
  PROVE  /\ Text(file_list[i], NAME) \in FileName
         /\ s \in Seq(FileCharacter) /\ FileLine(file_list[i]) = Append(s, "\n")
         /\ \A j \in 1..Len(s) : s[j] # "\n"
<1> DEFINE name == Text(file_list[i], NAME)
<1>1. name \in FileName
  BY DEF FileInv, FileNamed
<1>2. name \in Seq(Character) /\ \A j \in DOMAIN name : name[j] # "\n"
  BY <1>1, TablesAssumption, ListingAssumption DEF Character
<1> HIDE DEF name
<1>3. Character \subseteq FileCharacter /\ "/" \in FileCharacter
  BY DEF FileCharacter
<1>4. name \in Seq(FileCharacter)
  BY <1>2, <1>3, SeqMonotonic
<1>5. FileLine(file_list[i]) = Append(s, "\n")
  <2>1. FileLine(file_list[i]) = Append(IF IsDirectory(file_list[i]) THEN Append(name, "/") ELSE name, "\n")
    BY <1>4, FileLineIs DEF name
  <2> QED
    BY <2>1 DEF ShownName, name
<1>6. s = Append(name, "/") \/ s = name
  BY DEF ShownName, name
<1>7. s \in Seq(FileCharacter) /\ \A j \in 1..Len(s) : s[j] # "\n"
  <2>1. CASE s = Append(name, "/")
    <3>1. /\ s \in Seq(FileCharacter) /\ Len(s) = Len(name) + 1 /\ Len(name) \in Nat
          /\ s[Len(name)+1] = "/" /\ \A j \in 1..Len(name) : s[j] = name[j]
      BY <1>3, <1>4, <2>1, AppendProperties
    <3>2. DOMAIN name = 1..Len(name)
      BY <1>4
    <3>3. ASSUME NEW j \in 1..Len(s) PROVE s[j] # "\n"
      <4>1. j \in 1..Len(name) \/ j = Len(name) + 1
        BY <3>1
      <4> QED
        BY <1>2, <3>1, <3>2, <4>1
    <3> QED
      BY <3>1, <3>3
  <2>2. CASE s = name
    BY <1>2, <1>4, <2>2
  <2> QED
    BY <1>6, <2>1, <2>2
<1> QED
  BY <1>1, <1>5, <1>7 DEF name

\* It is a file's line exactly if the file has the name.
LEMMA NameMatches ==
  ASSUME NEW n \in FileName, NEW file, Text(file, NAME) \in FileName
  PROVE  /\ ShownName(file) \in {n, Append(n, "/")} <=> strcmp(file, NAME, n)
         /\ strcmp(file, NAME, n) => ShownName(file) = IF Entry(file).is_directory THEN Append(n, "/") ELSE n
<1>1. PICK name \in FileName : name = Text(file, NAME)
  OBVIOUS
<1>2. Append(n, "/") \notin FileName /\ Append(name, "/") \notin FileName
  BY ListingAssumption
<1>3. Append(name, "/") = Append(n, "/") => name = n
  <2>1. name \in Seq(Character) /\ n \in Seq(Character)
    BY TablesAssumption DEF Character
  <2> SUFFICES ASSUME Append(name, "/") = Append(n, "/") PROVE name = n
    OBVIOUS
  <2>2. PICK S : S = Character \cup {"/"}
    OBVIOUS
  <2>3. name \in Seq(S) /\ n \in Seq(S) /\ "/" \in S
    <3>1. Character \subseteq S
      BY <2>2
    <3> QED
      BY <2>1, <2>2, <3>1, SeqMonotonic
  <2>4. PICK z : z = Append(name, "/")
    OBVIOUS
  <2>5. /\ Len(z) = Len(name) + 1 /\ Len(name) \in Nat /\ \A j \in 1..Len(name) : z[j] = name[j]
    BY <2>3, <2>4, AppendProperties
  <2>6. /\ Len(z) = Len(n) + 1 /\ Len(n) \in Nat /\ \A j \in 1..Len(n) : z[j] = n[j]
    BY <2>3, <2>4, AppendProperties
  <2>7. Len(name) = Len(n) /\ \A j \in 1..Len(name) : name[j] = n[j]
    BY <2>5, <2>6
  <2> QED
    BY <2>3, <2>7, SeqEqual
<1>4. Entry(file).is_directory = IsDirectory(file)
  BY DEF Entry
<1> QED
  BY <1>1, <1>2, <1>3, <1>4 DEF ShownName, strcmp

\* The names a queue is listed with.
KindName(e, n) == IF e.is_directory THEN Append(n, "/") ELSE n
NamesListed(queue, n) == [k \in 1..Len(queue) |-> KindName(queue[k], n)]

\* A file behind a queue is a name behind its list.
LEMMA NamesLonger ==
  ASSUME NEW E, NEW n, NEW queue \in Seq(E), NEW e \in E
  PROVE  /\ NamesListed(queue, n) \in Seq({n, Append(n, "/")})
         /\ NamesListed(queue \o <<e>>, n) = NamesListed(queue, n) \o <<KindName(e, n)>>
         /\ NamesListed(<<>>, n) = <<>>
<1> DEFINE T == {n, Append(n, "/")}
<1>1. PICK len \in Nat : len = Len(queue)
  OBVIOUS
<1>2. \A x : KindName(x, n) \in T
  BY DEF KindName
<1>3. PICK r : r = NamesListed(queue, n)
  OBVIOUS
<1>4. r \in Seq(T) /\ Len(r) = len /\ \A k \in 1..len : r[k] = KindName(queue[k], n)
  BY <1>1, <1>2, <1>3 DEF NamesListed
<1>5. PICK z : z = queue \o <<e>>
  OBVIOUS
<1>6. z \in Seq(E) /\ Len(z) = len + 1 /\ z[len+1] = e /\ \A k \in 1..len : z[k] = queue[k]
  BY <1>1, <1>5, JoinedOne
<1>7. PICK x \in T : x = KindName(e, n)
  BY <1>2
<1>8. PICK y : y = r \o <<x>>
  OBVIOUS
<1> HIDE DEF T
<1>9. y \in Seq(T) /\ Len(y) = len + 1 /\ y[len+1] = x /\ \A k \in 1..len : y[k] = r[k]
  BY <1>4, <1>8, JoinedOne
<1>10. PICK w : w = NamesListed(z, n)
  OBVIOUS
<1>11. w \in Seq(T) /\ Len(w) = len + 1 /\ \A k \in 1..len+1 : w[k] = KindName(z[k], n)
  BY <1>2, <1>6, <1>10 DEF NamesListed
<1>12. \A k \in 1..len+1 : w[k] = y[k]
  <2> SUFFICES ASSUME NEW k \in 1..len+1 PROVE w[k] = y[k]
    OBVIOUS
  <2>1. k = len + 1 \/ k \in 1..len
    OBVIOUS
  <2> QED
    BY <1>4, <1>6, <1>7, <1>9, <1>11, <2>1
<1>13. w = y
  BY <1>9, <1>11, <1>12, SeqEqual
<1>14. NamesListed(<<>>, n) = <<>>
  BY DEF NamesListed
<1> QED
  BY <1>3, <1>4, <1>5, <1>7, <1>8, <1>10, <1>13, <1>14 DEF T

\* Where the lines of the files are in the text.
LEMMA FileLinesLie ==
  ASSUME FileInv, NEW c, c = file_count, NEW L, L = [i \in 1..c |-> FileLine(file_list[i-1])],
         console = <<"Files:", "\n">> \o FlattenSeq(L)
  PROVE  /\ c \in Nat /\ EndOnly(L, c)
         /\ LinesIn(console, <<"Files:", "\n">>, L, c)
         /\ \A i \in 1..c : /\ ShownName(file_list[i-1]) \in Seq(FileCharacter)
                            /\ L[i] = Append(ShownName(file_list[i-1]), "\n")
<1>1. c \in Nat
  BY DEF FileInv, FileMemory
<1>2. "\n" \in FileCharacter /\ "Files:" \in FileCharacter
  BY DEF FileCharacter
<1>3. ASSUME NEW i \in 1..c
      PROVE  /\ ShownName(file_list[i-1]) \in Seq(FileCharacter)
             /\ L[i] = Append(ShownName(file_list[i-1]), "\n") /\ L[i] \in Seq(FileCharacter)
             /\ Len(L[i]) \in Nat \ {0}
             /\ \A j \in 1..Len(L[i]) : L[i][j] = "\n" <=> j = Len(L[i])
  <2>1. i - 1 \in 0 .. file_count - 1
    BY <1>1
  <2>2. PICK s : s = ShownName(file_list[i-1])
    OBVIOUS
  <2>3. /\ s \in Seq(FileCharacter) /\ FileLine(file_list[i-1]) = Append(s, "\n")
        /\ \A j \in 1..Len(s) : s[j] # "\n"
    BY <2>1, <2>2, FileRow
  <2>4. PICK l : l = L[i]
    OBVIOUS
  <2>5. l = Append(s, "\n")
    BY <2>3, <2>4
  <2>6. /\ l \in Seq(FileCharacter) /\ Len(l) = Len(s) + 1 /\ Len(s) \in Nat
        /\ l[Len(s)+1] = "\n" /\ \A j \in 1..Len(s) : l[j] = s[j]
    BY <1>2, <2>3, <2>5, AppendProperties
  <2>7. Len(l) \in Nat \ {0} /\ \A j \in 1..Len(l) : j \in 1..Len(s) \/ j = Len(s) + 1
    BY <2>6
  <2>8. \A j \in 1..Len(s) : j # Len(s) + 1
    BY <2>6
  <2>9. \A j \in 1..Len(l) : l[j] = "\n" <=> j = Len(l)
    BY <2>3, <2>6, <2>7, <2>8
  <2> QED
    BY <2>2, <2>3, <2>4, <2>5, <2>6, <2>7, <2>9
<1>4. EndOnly(L, c)
  BY <1>3 DEF EndOnly
<1>5. L \in [1..c -> Seq(FileCharacter)]
  BY <1>3
<1>6. PICK head : head = <<"Files:", "\n">>
  OBVIOUS
<1>7. head \in Seq(FileCharacter) /\ Len(head) = 2
  BY <1>2, <1>6
<1>8. console = head \o FlattenSeq(L)
  BY <1>6
<1>9. LinesIn(console, head, L, c)
  BY <1>1, <1>5, <1>7, <1>8, LinesLie, Zenon
<1> QED
  BY <1>1, <1>3, <1>4, <1>6, <1>9

\* Who reads the lines of a name finds its queue, after each line the queue so far.
LEMMA FilesAreListed ==
  ASSUME FileInv,
         console = <<"Files:", "\n">> \o FlattenSeq([i \in 1..file_count |-> FileLine(file_list[i-1])]),
         NEW n \in FileName
  PROVE  LinesOf(n) = NamesListed(QueueOf(n), n)
<1> DEFINE c == file_count
           L == [i \in 1..c |-> FileLine(file_list[i-1])]
           s(i) == ShownName(file_list[i-1])
           E == EntriesOf(file_list, c)
           q == Chain(file_list, c, n)
<1>1. /\ c \in Nat /\ EndOnly(L, c) /\ LinesIn(console, <<"Files:", "\n">>, L, c)
      /\ \A i \in 1..c : s(i) \in Seq(FileCharacter) /\ L[i] = Append(s(i), "\n")
  <2> HIDE DEF L
  <2>1. console = <<"Files:", "\n">> \o FlattenSeq(L)
    BY DEF L
  <2> QED
    BY <2>1, FileLinesLie DEF L
<1>2. \A k \in 0 .. c-1 : Entry(file_list[k]) \in E
  BY DEF EntriesOf
<1> HIDE DEF L, E
<1>3. IsQueue(q, E, file_list, c, n)
  BY <1>1, <1>2, QueueIs
<1>4. QueueOf(n) = q[c]
  BY DEF QueueOf, Chain, PartOf
<1> HIDE DEF c, s, q
<1>5. console[1] = "Files:" /\ console[2] = "\n" /\ \E at : LinesAt(at, console, L, c)
  <2>1. PICK head : head = <<"Files:", "\n">>
    OBVIOUS
  <2>2. head[1] = "Files:" /\ head[2] = "\n"
    BY <2>1
  <2>3. LinesIn(console, head, L, c)
    BY <1>1, <2>1
  <2> QED
    BY <2>2, <2>3 DEF LinesIn
<1>6. PICK at : LinesAt(at, console, L, c)
  BY <1>5
<1>7. console[1] # "\n"
  BY <1>5
<1>8. /\ Places("\n") = EndsAt(at, c)
      /\ \A i \in 1..c : at[i-1] < at[i] /\ Ahead(EndsAt(at, c), at[i]) = at[i-1]
  <2>1. PICK text : text = console
    OBVIOUS
  <2>2. LinesAt(at, text, L, c) /\ text[1] # "\n" /\ text[2] = "\n"
    BY <1>5, <1>6, <1>7, <2>1
  <2>3. /\ PlacesIn(text, "\n") = EndsAt(at, c)
        /\ \A i \in 1..c : at[i-1] < at[i] /\ Ahead(EndsAt(at, c), at[i]) = at[i-1]
    BY <1>1, <2>2, LineEnds
  <2> QED
    BY <2>1, <2>3 DEF Places, PlacesIn
<1>9. \A j : LineTo(j) = SubSeq(console, Ahead(Places("\n"), j) + 1, j - 1)
  BY DEF LineTo, Ahead
<1>10. ASSUME NEW i \in 0..c
       PROVE  /\ at[i] \in Nat /\ 2 =< at[i] /\ at[i] =< at[c]
              /\ \A k \in 0..c : k < i => at[k] =< at[i]
  <2>1. c \in 0..c /\ 0 \in 0..i /\ i \in 0..c /\ \A k \in 0..c : k < i => k \in 0..i
    BY <1>1
  <2>2. at[0] = 2 /\ at[0] =< at[i] /\ at[i] =< at[c] /\ at[i] \in Nat
    BY <2>1, <1>6 DEF LinesAt
  <2>3. \A k \in 0..i : at[k] =< at[i]
    BY <2>1, <1>6 DEF LinesAt
  <2> QED
    BY <2>1, <2>2, <2>3
<1>11. ASSUME NEW i \in 1..c PROVE LineTo(at[i]) = s(i)
  <2>1. PICK l \in Nat : l = Len(s(i))
    BY <1>1
  <2>2. PICK f \in Nat : f = at[i-1]
    <3>1. i - 1 \in 0..c
      BY <1>1
    <3> QED
      BY <1>10, <3>1
  <2>3. /\ Len(L[i]) = l + 1 /\ \A j \in 1..l : L[i][j] = s(i)[j]
    <3>1. PICK t \in Seq(FileCharacter) : t = s(i)
      BY <1>1
    <3>2. "\n" \in FileCharacter
      BY DEF FileCharacter
    <3>3. L[i] = Append(t, "\n")
      BY <1>1, <3>1
    <3>4. Len(Append(t, "\n")) = Len(t) + 1 /\ \A j \in 1..Len(t) : Append(t, "\n")[j] = t[j]
      BY <3>2, AppendProperties
    <3> QED
      BY <2>1, <3>1, <3>3, <3>4
  <2>4. at[i] = f + (l + 1) /\ \A j \in 1..l : console[f + j] = s(i)[j]
    <3>1. at[i] = at[i-1] + Len(L[i])
      BY <1>6 DEF LinesAt
    <3>2. \A j \in 1..l : j \in 1..Len(L[i])
      BY <2>3
    <3>3. \A j \in 1..Len(L[i]) : console[at[i-1] + j] = L[i][j]
      BY <1>6 DEF LinesAt
    <3> QED
      BY <2>2, <2>3, <3>1, <3>2, <3>3
  <2>5. Cut(console, f, l) = s(i)
    BY <1>1, <2>1, <2>4, CutIs
  <2>6. at[i] - 1 = f + l
    BY <2>4
  <2>7. LineTo(at[i]) = SubSeq(console, f + 1, at[i] - 1)
    BY <1>8, <1>9, <2>2
  <2> QED
    BY <2>5, <2>6, <2>7 DEF Cut
<1>12. LineTo(2) \notin {n, Append(n, "/")}
  <2>1. Ahead(EndsAt(at, c), 2) = 0
    <3>1. ASSUME NEW k \in EndsAt(at, c), k < 2 PROVE FALSE
      <4>1. PICK i \in 0..c : k = at[i]
        BY DEF EndsAt
      <4> QED
        BY <1>10, <3>1, <4>1
    <3>2. {0} \cup {k \in EndsAt(at, c) : k < 2} = {0}
      BY <3>1
    <3>3. Max({0}) = 0
      BY MaxIs
    <3> QED
      BY <3>2, <3>3 DEF Ahead
  <2>2. LineTo(2) = SubSeq(console, 0 + 1, 2 - 1)
    BY <1>8, <1>9, <2>1
  <2>3. LineTo(2) = <<"Files:">>
    <3>1. PICK h \in Seq(FileCharacter) : h = <<"Files:">>
      <4>1. PICK x \in FileCharacter : x = "Files:"
        BY DEF FileCharacter
      <4>2. <<x>> \in Seq(FileCharacter)
        OBVIOUS
      <4> QED
        BY <4>1, <4>2
    <3>2. 0 \in Nat /\ 1 = Len(h) /\ \A j \in 1..1 : console[0 + j] = h[j]
      BY <1>5, <3>1
    <3>3. Cut(console, 0, 1) = h
      BY <3>2, CutIs
    <3>4. 2 - 1 = 0 + 1
      OBVIOUS
    <3> QED
      BY <2>2, <3>1, <3>3, <3>4 DEF Cut
  <2>4. n \in Seq(Character)
    BY TablesAssumption DEF Character
  <2>5. n # <<"Files:">>
    <3>1. "Files:" \in Wording
      BY Zenon DEF Wording
    <3>2. \A j \in DOMAIN n : n[j] \notin Wording
      BY ListingAssumption
    <3>3. <<"Files:">>[1] = "Files:" /\ 1 \in DOMAIN <<"Files:">>
      OBVIOUS
    <3> QED
      BY <3>1, <3>2, <3>3
  <2>6. Append(n, "/") # <<"Files:">>
    <3>1. PICK z : z = Append(n, "/")
      OBVIOUS
    <3>2. PICK S : S = Character \cup {"/"}
      OBVIOUS
    <3>3. n \in Seq(S) /\ "/" \in S
      <4>1. Character \subseteq S
        BY <3>2
      <4> QED
        BY <2>4, <3>2, <4>1, SeqMonotonic
    <3>4. Len(z) = Len(n) + 1 /\ z[Len(n)+1] = "/" /\ Len(n) \in Nat
      BY <3>1, <3>3, AppendProperties
    <3>5. Len(<<"Files:">>) = 1 /\ <<"Files:">>[1] = "Files:"
      OBVIOUS
    <3>6. ASSUME z = <<"Files:">> PROVE FALSE
      <4>1. Len(n) + 1 = 1
        BY <3>4, <3>5, <3>6
      <4>2. z[1] = "/" /\ z[1] = "Files:"
        BY <3>4, <3>5, <3>6, <4>1
      <4> QED
        BY <4>2
    <3> QED
      BY <3>1, <3>6
  <2> QED
    BY <2>3, <2>5, <2>6
<1>13. at[c] = Len(console) /\ at[c] \in Nat /\ at[0] = 2 /\ 2 =< at[c]
  <2>1. c \in 0..c
    BY <1>1
  <2> QED
    BY <1>6, <1>10, <2>1 DEF LinesAt
<1>14. PICK f : FindsLines(f, n, at[c]) /\ LinesOf(n) = f[at[c]]
  BY <1>13, LinesFound
<1>15. f[at[0]] = <<>>
  <2>1. 1 \notin Places("\n")
    BY <1>8, <1>10 DEF EndsAt
  <2>2. LinePart(n, 1) = <<>> /\ LinePart(n, 2) = <<>>
    BY <1>12, <2>1 DEF LinePart
  <2>3. f[0] = <<>> /\ \A j \in 1..at[c] : f[j] = f[j-1] \o LinePart(n, j)
    BY <1>14 DEF FindsLines
  <2>4. 1 \in 1..at[c] /\ 2 \in 1..at[c] /\ 1 - 1 = 0 /\ 2 - 1 = 1
    BY <1>13
  <2>5. <<>> \o <<>> = <<>>
    OBVIOUS
  <2>6. f[1] = <<>>
    BY <2>2, <2>3, <2>4, <2>5
  <2>7. f[2] = <<>>
    BY <2>2, <2>3, <2>4, <2>5, <2>6
  <2> QED
    BY <1>13, <2>7
<1>16. ASSUME NEW i \in 1..c, f[at[i-1]] = NamesListed(q[i-1], n)
       PROVE  f[at[i]] = NamesListed(q[i], n)
  <2>1. i - 1 \in 0..c /\ i \in 0..c /\ i - 1 \in 0 .. c-1 /\ (i - 1) + 1 = i
    BY <1>1
  <2>2. PICK a \in Nat, b \in Nat : a = at[i-1] /\ b = at[i]
    BY <1>10, <2>1
  <2>3. a < b /\ b =< at[c]
    BY <1>8, <1>10, <2>1, <2>2
  <2>4. PICK part : part = [j \in 1..at[c] |-> LinePart(n, j)]
    OBVIOUS
  <2>5. ASSUME NEW j \in a+1 .. b
        PROVE  part[j] = LinePart(n, j) /\ f[j] = f[j-1] \o part[j]
    <3>1. j \in 1..at[c]
      BY <1>13, <2>3
    <3> QED
      BY <1>14, <2>4, <3>1 DEF FindsLines
  <2>6. ASSUME NEW j \in a+1 .. b-1 PROVE part[j] = <<>>
    <3>1. ASSUME NEW k \in 0..c, j = at[k] PROVE FALSE
      <4>1. CASE k < i
        <5>1. k < i - 1 \/ k = i - 1
          BY <1>1, <4>1
        <5>2. at[k] =< at[i-1]
          BY <1>10, <2>1, <5>1
        <5> QED
          BY <2>2, <3>1, <5>2
      <4>2. CASE ~(k < i)
        <5>1. i < k \/ i = k
          BY <1>1, <4>2
        <5>2. at[i] =< at[k]
          BY <1>10, <2>1, <5>1
        <5> QED
          BY <2>2, <3>1, <5>2
      <4> QED
        BY <4>1, <4>2
    <3>2. j \notin Places("\n")
      BY <1>8, <3>1 DEF EndsAt
    <3>3. j \in a+1 .. b
      OBVIOUS
    <3> QED
      BY <2>5, <3>2, <3>3 DEF LinePart
  <2>7. PICK e \in E : e = Entry(file_list[i-1])
    BY <1>2, <2>1
  <2>8. PICK queue \in Seq(E) : queue = q[i-1]
    BY <1>3, <2>1 DEF IsQueue
  <2>9. /\ NamesListed(queue, n) \in Seq({n, Append(n, "/")})
        /\ NamesListed(queue \o <<e>>, n) = NamesListed(queue, n) \o <<KindName(e, n)>>
    BY NamesLonger
  <2>10. f[b] = f[a] \o part[b]
    <3>4. PICK T : T = {n, Append(n, "/")}
      OBVIOUS
    <3>1. PICK names \in Seq(T) : names = f[a]
      BY <1>16, <2>2, <2>8, <2>9, <3>4
    <3>2. \A j \in a+1 .. b : f[j] = f[j-1] \o part[j]
      BY <2>5
    <3>3. \A j \in a+1 .. b-1 : part[j] = <<>>
      BY <2>6
    <3>5. Steps(f, part, a, b, names)
      BY <2>3, <3>1, <3>2, <3>3 DEF Steps
    <3>6. f[b] = names \o part[b]
      BY <3>5, Stretch
    <3> QED
      BY <3>1, <3>6
  <2>11. part[b] = LinePart(n, b)
    <3>1. b \in a+1 .. b
      BY <2>3
    <3> QED
      BY <2>5, <3>1
  <2>12. b \in Places("\n") /\ LineTo(b) = s(i)
    BY <1>8, <1>11, <2>1, <2>2 DEF EndsAt
  <2>13. q[i] = queue \o PartOf(file_list[i-1], n)
    BY <1>3, <2>1, <2>8 DEF IsQueue
  <2>14. /\ s(i) \in {n, Append(n, "/")} <=> strcmp(file_list[i-1], NAME, n)
         /\ strcmp(file_list[i-1], NAME, n) => s(i) = IF e.is_directory THEN Append(n, "/") ELSE n
    <3>1. Text(file_list[i-1], NAME) \in FileName
      <4>1. i - 1 \in 0 .. file_count - 1
        BY <2>1 DEF c
      <4> QED
        BY <4>1, FileRow
    <3> QED
      BY <2>7, <3>1, NameMatches DEF s
  <2>15. CASE strcmp(file_list[i-1], NAME, n)
    <3>1. part[b] = <<KindName(e, n)>>
      BY <2>11, <2>12, <2>14, <2>15 DEF LinePart, KindName
    <3>2. q[i] = queue \o <<e>>
      BY <2>7, <2>13, <2>15 DEF PartOf
    <3> QED
      BY <1>16, <2>2, <2>8, <2>9, <2>10, <3>1, <3>2
  <2>16. CASE ~strcmp(file_list[i-1], NAME, n)
    <3>1. part[b] = <<>>
      BY <2>11, <2>12, <2>14, <2>16 DEF LinePart
    <3>2. q[i] = queue \o <<>>
      BY <2>13, <2>16 DEF PartOf
    <3>3. q[i] = queue
      BY <3>2
    <3>4. f[b] = NamesListed(queue, n) \o <<>>
      BY <1>16, <2>2, <2>8, <2>10, <3>1
    <3>5. f[b] = NamesListed(queue, n)
      BY <2>9, <3>4
    <3> QED
      BY <2>2, <3>3, <3>5
  <2> QED
    BY <2>15, <2>16
<1>17. f[at[c]] = NamesListed(q[c], n)
  <2> DEFINE S == {k \in Nat : k =< c => f[at[k]] = NamesListed(q[k], n)}
  <2>1. 0 \in S
    <3>1. q[0] = <<>> /\ NamesListed(<<>>, n) = <<>>
      BY <1>3 DEF IsQueue, NamesListed
    <3>2. f[at[0]] = NamesListed(q[0], n)
      BY <1>15, <3>1
    <3> QED
      BY <3>2
  <2>2. ASSUME NEW k \in Nat, k \in S PROVE k + 1 \in S
    <3> SUFFICES ASSUME k + 1 =< c PROVE f[at[k+1]] = NamesListed(q[k+1], n)
      OBVIOUS
    <3>1. k + 1 \in 1..c /\ (k + 1) - 1 = k /\ k =< c
      BY <1>1
    <3>2. f[at[k]] = NamesListed(q[k], n)
      BY <2>2, <3>1
    <3> HIDE DEF S
    <3> QED
      BY <1>16, <3>1, <3>2
  <2>3. S \in SUBSET Nat
    OBVIOUS
  <2> HIDE DEF S
  <2>4. S = Nat
    BY <2>1, <2>2, <2>3, AllNumbers
  <2>5. c \in S /\ c =< c
    BY <1>1, <2>4
  <2> QED
    BY <2>5 DEF S
<1> QED
  BY <1>4, <1>14, <1>17

\* What read_file shows is the content at the front of the queue.
LEMMA ContentShown ==
  ASSUME FileInv, NEW n \in FileName, FilesNamed(n) # {}
  PROVE  printf(<<"%", "s", "\n">>, <<Text(file_list[FirstFile(n)], CONTENT)>>)
           = Append(QueueOf(n)[1].content, "\n")
<1> DEFINE i == FirstFile(n)
           text == Text(file_list[i], CONTENT)
<1>1. /\ file_count \in Nat /\ i \in 0 .. file_count - 1
      /\ FirstIn(file_list, file_count, n, i)
  BY FirstFileIs, FirstIsFirst
<1>2. QueueOf(n) = QueueIn(file_list, file_count, n)
  BY DEF QueueOf, QueueIn, Chain, PartOf
<1>3. QueueOf(n)[1] = Entry(file_list[i])
  <2>1. PICK fl : fl = file_list
    OBVIOUS
  <2>2. PICK c \in Nat : c = file_count
    BY <1>1
  <2>3. PICK k \in 0 .. c-1 : k = i
    BY <1>1, <2>2
  <2>4. FirstIn(fl, c, n, k) /\ strcmp(fl[k], NAME, n)
    BY <1>1, <2>1, <2>2, <2>3 DEF FirstIn
  <2>5. PICK gl : gl = fl
    OBVIOUS
  <2>6. strcmp(gl[k], NAME, n) /\ \A j \in (0 .. c-1) \ {k} : gl[j] = fl[j]
    BY <2>4, <2>5
  <2>7. PICK rest : /\ Behind(QueueIn(fl, c, n), Entry(fl[k]), rest)
                    /\ Behind(QueueIn(gl, c, n), Entry(gl[k]), rest)
    BY <2>4, <2>6, QueueWritten
  <2>8. PICK queue, e : queue = QueueIn(fl, c, n) /\ e = Entry(fl[k])
    OBVIOUS
  <2>9. Behind(queue, e, rest)
    BY <2>7, <2>8
  <2>10. queue[1] = e
    BY <2>9, BehindIs
  <2> QED
    BY <1>2, <2>1, <2>2, <2>3, <2>8, <2>10
<1>4. Entry(file_list[i]).content = text
  BY DEF Entry
<1>5. \E S : text \in Seq(S)
  <2>1. i \in 0 .. MAX_FILES - 1 /\ file_count \in Nat
    BY <1>1, TablesAssumption DEF FileInv, FileMemory
  <2>2. PICK m : m = file_list[i]
    OBVIOUS
  <2>3. Memory(m, SIZEOF_FILE) /\ EndsIn(m, CONTENT, FILE_CONTENT_LENGTH)
    BY <1>1, <2>1, <2>2 DEF FileInv, FileMemory, FileEnds
  <2>4. /\ CONTENT \in Nat /\ FILE_CONTENT_LENGTH \in Nat /\ SIZEOF_FILE \in Nat
        /\ CONTENT + FILE_CONTENT_LENGTH < SIZEOF_FILE
    BY TablesAssumption DEF CONTENT, SIZEOF_FILE, IS_DIRECTORY
  <2>5. PICK size \in Nat, p \in Nat, length \in Nat :
          size = SIZEOF_FILE /\ p = CONTENT /\ length = FILE_CONTENT_LENGTH
    BY <2>4
  <2>6. Memory(m, size) /\ EndsIn(m, p, length) /\ p + length < size
    BY <2>3, <2>4, <2>5
  <2>7. strlen(m, p) \in 0 .. length - 1 /\ IsLength(m, p, strlen(m, p))
    BY <2>6, LengthWithin
  <2>8. PICK l \in 0 .. length - 1 : IsLength(m, p, l)
    BY <2>7
  <2>9. Text(m, p) = [k \in 1..l |-> m[p+k-1]]
    BY <2>6, <2>8, TextIs
  <2>10. PICK t : t = Text(m, p)
    OBVIOUS
  <2>11. \E S : t \in Seq(S)
    <3>1. DOMAIN t = 1..l /\ l \in Nat /\ t = [k \in 1..l |-> t[k]]
      BY <2>9, <2>10
    <3>2. PICK S : S = {t[k] : k \in 1..l}
      OBVIOUS
    <3>3. t \in [1..l -> S]
      BY <3>1, <3>2
    <3> QED
      BY <3>1, <3>3
  <2> QED
    BY <2>2, <2>5, <2>10, <2>11
<1> HIDE DEF text
<1>6. printf(<<"%", "s", "\n">>, <<text>>) = Append(text, "\n")
  BY <1>5, ContentLineIs
<1> QED
  BY <1>3, <1>4, <1>6 DEF text

-----------------------------------------------------------------------------
(***************************************************************************)
(* What is on the screen was printed from the tables as they are: a        *)
(* command that changes one clears it.                                     *)
(***************************************************************************)
UserListing == <<"Users:", "\n">> \o FlattenSeq([i \in 1..user_count |-> UserLine(users[i-1])])
FileListing == <<"Files:", "\n">> \o FlattenSeq([i \in 1..file_count |-> FileLine(file_list[i-1])])
Reads(n) ==
  /\ n \in FileName /\ FilesNamed(n) # {}
  /\ console = printf(<<"%", "s", "\n">>, <<Text(file_list[FirstFile(n)], CONTENT)>>)
ListedInv ==
  /\ command = <<"users">> => console = UserListing
  /\ command = <<"files">> => console = FileListing
  /\ command \notin {<<>>, <<"users">>, <<"files">>} => Reads(command)

\* No file has the name of a command.
LEMMA CommandsAreNoNames ==
  ASSUME NEW n \in FileName
  PROVE  n # <<"users">> /\ n # <<"files">> /\ <<"users">> # <<"files">>
         /\ <<"users">> # <<>> /\ <<"files">> # <<>>
<1>1. "users" \in Wording /\ "files" \in Wording
  BY Zenon DEF Wording
<1>2. \A j \in DOMAIN n : n[j] \notin Wording
  BY ListingAssumption
<1>3. /\ <<"users">>[1] = "users" /\ 1 \in DOMAIN <<"users">>
      /\ <<"files">>[1] = "files" /\ 1 \in DOMAIN <<"files">>
  OBVIOUS
<1>4. "users" # "files" /\ 1 \notin DOMAIN <<>>
  OBVIOUS
<1> QED
  BY <1>1, <1>2, <1>3, <1>4

LEMMA ListedStart ==
  ASSUME Init
  PROVE  ListedInv
<1>1. command = <<>>
  BY DEF Init
<1>2. <<>> # <<"users">> /\ <<>> # <<"files">>
  OBVIOUS
<1> QED
  BY <1>1, <1>2 DEF ListedInv

LEMMA ListedStep ==
  ASSUME ListedInv, [Next]_vars
  PROVE  ListedInv'
<1>1. ASSUME Quiet PROVE ListedInv'
  <2>1. command' = <<>>
    BY <1>1 DEF Quiet
  <2>2. <<>> # <<"users">> /\ <<>> # <<"files">>
    OBVIOUS
  <2> QED
    BY <2>1, <2>2 DEF ListedInv
<1>2. <<"users">> # <<"files">>
  BY Zenon
<1>3. ASSUME list_users PROVE ListedInv'
  <2>1. command' = <<"users">> /\ console' = UserListing /\ UNCHANGED uvars
    BY <1>3 DEF list_users, Show, UserListing
  <2>2. UserListing' = UserListing
    BY <2>1 DEF uvars, UserListing
  <2> QED
    BY <1>2, <2>1, <2>2 DEF ListedInv
<1>4. ASSUME list_files PROVE ListedInv'
  <2>1. command' = <<"files">> /\ console' = FileListing /\ UNCHANGED fvars
    BY <1>4 DEF list_files, Show, FileListing
  <2>2. FileListing' = FileListing
    BY <2>1 DEF fvars, FileListing
  <2> QED
    BY <1>2, <2>1, <2>2 DEF ListedInv
<1>5. ASSUME NEW n \in FileName, read_file(n) PROVE ListedInv'
  <2>1. /\ command' = n /\ UNCHANGED fvars /\ FilesNamed(n) # {}
        /\ console' = printf(<<"%", "s", "\n">>, <<Text(file_list[FirstFile(n)], CONTENT)>>)
    BY <1>5 DEF read_file, Show, Read
  <2>2. FilesNamed(n)' = FilesNamed(n) /\ FirstFile(n)' = FirstFile(n) /\ file_list' = file_list
    BY <2>1 DEF fvars, FilesNamed, FirstFile
  <2>3. Reads(n)'
    BY <2>1, <2>2 DEF Reads
  <2>4. n # <<"users">> /\ n # <<"files">>
    BY CommandsAreNoNames
  <2> QED
    BY <2>1, <2>3, <2>4 DEF ListedInv
<1>6. CASE UNCHANGED vars
  BY <1>6 DEF vars, uvars, fvars, shown, ListedInv, UserListing, FileListing, Reads, FilesNamed, FirstFile
<1>7. ASSUME NEW n \in UserName
      PROVE  /\ \A password \in Passwords, is_admin \in BOOLEAN : add_user(n, password, is_admin) => Quiet
             /\ remove_user(n) => Quiet
  BY DEF add_user, remove_user
<1>8. ASSUME NEW n \in FileName
      PROVE  /\ \A is_directory \in BOOLEAN : create_file(n, is_directory) => Quiet
             /\ delete_file(n) \/ delete_directory(n) => Quiet
             /\ \A content \in Contents : write_file(n, content) => Quiet
  BY DEF create_file, delete_file, delete_directory, write_file
<1> QED
  BY <1>1, <1>3, <1>4, <1>5, <1>6, <1>7, <1>8 DEF Next

(***************************************************************************)
(* What users shows is the table: whatever was added and removed, a reader *)
(* of the screen finds every account once, by its name, with the number    *)
(* and the rights it has, and no other line.                               *)
(***************************************************************************)
THEOREM UsersListed == Spec => []UsersShown
<1>1. ASSUME DataInv, ListedInv PROVE UsersShown
  <2> SUFFICES ASSUME command = <<"users">>
               PROVE  /\ Cardinality(Places("  ")) = Cardinality(AccountSet)
                      /\ {UserShown(from) : from \in Places("  ")} =
                           {[username |-> a.username, uid |-> a.uid, is_admin |-> a.is_admin] : a \in AccountSet}
    BY Zenon DEF UsersShown
  <2>1. console = UserListing
    BY <1>1 DEF ListedInv
  <2> QED
    BY <1>1, <2>1, UsersAreListed, Zenon DEF DataInv, UserListing
<1> QED
  BY <1>1, DataStart, DataStep, ListedStart, ListedStep, PTL DEF Spec

(***************************************************************************)
(* What ls shows of a name is its queue, a line for each file of it with   *)
(* its kind and in the order of their age, and no line of another file or  *)
(* of the heading is taken for one; what read_file shows is the content of *)
(* the oldest.                                                             *)
(***************************************************************************)
THEOREM FilesListed == Spec => []FilesShown
<1>1. ASSUME DataInv, ListedInv PROVE FilesShown
  <2>1. FileInv
    BY <1>1 DEF DataInv
  <2>2. ASSUME command = <<"files">>, NEW n \in FileName
        PROVE  LinesOf(n) = [k \in 1..Len(QueueOf(n)) |->
                               IF QueueOf(n)[k].is_directory THEN Append(n, "/") ELSE n]
    <3>1. console = FileListing
      BY <1>1, <2>2 DEF ListedInv
    <3>2. LinesOf(n) = NamesListed(QueueOf(n), n)
      BY <2>1, <3>1, FilesAreListed DEF FileListing
    <3> QED
      BY <3>2 DEF NamesListed, KindName
  <2>3. ASSUME command \notin {<<>>, <<"users">>, <<"files">>}
        PROVE  console = Append(QueueOf(command)[1].content, "\n")
    <3>1. Reads(command)
      BY <1>1, <2>3 DEF ListedInv
    <3>2. PICK n \in FileName : n = command
      BY <3>1 DEF Reads
    <3>3. FilesNamed(n) # {} /\ console = printf(<<"%", "s", "\n">>, <<Text(file_list[FirstFile(n)], CONTENT)>>)
      BY <3>1, <3>2 DEF Reads
    <3>4. console = Append(QueueOf(n)[1].content, "\n")
      BY <2>1, <3>3, ContentShown
    <3> QED
      BY <3>2, <3>4
  <2> QED
    BY <2>2, <2>3 DEF FilesShown
<1> QED
  BY <1>1, DataStart, DataStep, ListedStart, ListedStep, PTL DEF Spec
=============================================================================
