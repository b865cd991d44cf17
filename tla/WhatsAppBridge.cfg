\* Two events and two polls at a time, with a picture that is delivered again and
\* again, and a reply of a file and a text.
SPECIFICATION LiveSpec
CONSTANTS
  Messages = {picture}
  Captioned = {picture}
  Media = {picture}
  Replies = {r1}
  Parts = 2
  Handlers = {h1, h2}
  Polls = {p1, p2}
  MaxBatch = 1
  MaxForgets = 1
  MaxCuts = 1
INVARIANT CommandOnce
PROPERTY Delivered
CHECK_DEADLOCK FALSE
