CONSTANTS
    m1 = m1
    m2 = m2
    m3 = m3
    Members <- MCMembers
    NoMember = NoMember
    allocStep = 2
    MaxId = 10
SYMMETRY Symmetry
SPECIFICATION Spec
PROPERTIES NoIdTwice
