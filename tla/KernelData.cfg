\* Names and contents around the length of their fields; two users at a time,
\* three in all, and three files.
SPECIFICATION Spec
CONSTANTS
  LONG = 65536
  UserName <- SomeUsers
  Passwords <- SomePasswords
  FileName <- SomeFiles
  Contents <- SomeContents
  USERNAME_LENGTH = 3
  PASSWORD_LENGTH = 3
  FILENAME_LENGTH = 3
  FILE_CONTENT_LENGTH = 3
  MAX_USERS = 2
  MAX_FILES = 3
  FirstUid = 1000
  MaxAdds = 3
INVARIANTS TypeOK OneEntryPerUser FieldsEnd UsersShown FilesShown
PROPERTIES AccountsSpec LoginsExact FilesSpec
