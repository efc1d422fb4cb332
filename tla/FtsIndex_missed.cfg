SPECIFICATION Spec
CONSTANTS
  s1 = s1
  s2 = s2
  hello = hello
  later = later
  Message = {1, 2}
  Text = {hello, later}
  Needle = {hello, later}
  Phrase <- Words
  Literal <- Words
  Search = {s1, s2}
  Limit = 2
INVARIANT EverythingIsFound
