CONSTANTS
  e1 = e1
  alice = alice
  bob = bob
  yes = yes
  n1 = n1
  n2 = n2
  n3 = n3
  n4 = n4
  Outsider = Outsider
  NoVote = NoVote
  NoElection = NoElection
  NoWait = NoWait
  Elections <- MCElections
  Users <- MCUsers
  Votes <- MCVotes
  Nodes <- MCNodes
  Byzantine = {n4}
  ChunksPerBallot = 1
  MaxLost = 1
  MaxFailed = 1
SPECIFICATION SpecOrch
PROPERTY ShufflingTerminates
